---------------------------- MODULE StringFilter ----------------------------
(* The filters "q" and "mq" (rest/StringFilter.cpp).  An item of a filter is  *)
(* used in two ways: the broker evaluates it itself, on the entity that has   *)
(* just been updated (match), to decide whether a notification is sent, and   *)
(* it is translated to a condition that MongoDB evaluates when entities are   *)
(* queried (mongoFilterPopulate).  A filter is the conjunction of its items,  *)
(* so one item is enough to compare the two.                                  *)
(*                                                                            *)
(* An item has a type ("q", on the value of an attribute, or "mq", on its     *)
(* metadata), an operator, a left-hand side (attributeName, metadataName,     *)
(* compoundPath) and a right-hand side (the kind of its value, its form, and  *)
(* the constants).  Strings are numbers in the order of strcmp, 0 being the   *)
(* empty one; a pattern is the set of the strings that it matches.  Dates are *)
(* numbers, in the code too.  Values inside vectors are not modelled.         *)
(*                                                                            *)
(* The filter of an NGSI-LD subscription is rendered to text for the database *)
(* and parsed again when the cache is refreshed, which is not the identity.   *)
EXTENDS Integers

CONSTANTS
    Numbers,          \* numbers and strings that occur
    Unquoted,         \* Unquoted[s]: the right-hand side that is parsed from s without quotes
    NotImplemented    \* the strings that a range and a list are rendered as

ASSUME NumbersAssumption == Numbers \subseteq Nat /\ 0 \in Numbers

Unary    == {"Exists", "NotExists"}
Ordering == {"GreaterThan", "GreaterThanOrEqual", "LessThan", "LessThanOrEqual"}

Empty   == ""
Missing == [type |-> "Missing"]

(* A value of an entity.  An object has at most one item, at the compound     *)
(* path of the filters.                                                       *)
Scalars ==
    [type : {"Number", "String"}, v : Numbers]
        \cup [type : {"Boolean"}, v : BOOLEAN] \cup {[type |-> "Null"]}

Values == Scalars \cup [type : {"Object"}, item : Scalars \cup {Missing}]

(* The entity that is tested: one attribute, which may be missing and may     *)
(* have a metadata, and the dates of the entity (or of the attribute).        *)
TestedEntities ==
    [attr : [value : Values, md : {Missing}], date : Numbers]
        \cup [attr : [value : {[type |-> "Null"]}, md : Values], date : Numbers]
        \cup [attr : {Missing}, date : Numbers]

-----------------------------------------------------------------------------
(* Parsing: which operators go with which right-hand sides.                   *)

RightHandSides ==
    [type : {"Number", "String"}, form : {"value"}, v : Numbers]
        \cup [type : {"Boolean"}, form : {"value"}, v : BOOLEAN]
        \cup {[type |-> "Null", form |-> "value"]}
        \cup [type : {"Number", "String"}, form : {"range"}, from : Numbers, to : Numbers]
        \cup [type : {"Number", "String"}, form : {"list"}, list : SUBSET Numbers \ {{}}]

Unparsable == [unparsable |-> TRUE]

ASSUME RenderingAssumption ==
    /\ Unquoted \in [Numbers -> RightHandSides \cup {Unparsable}]
    /\ NotImplemented \in [{"range", "list"} -> Numbers]

Patterns == [type : {"String"}, form : {"pattern"}, hits : SUBSET Numbers]

valueParse(op, rhs) ==
    op \in Ordering => rhs.type \in {"Number", "String"}

parse(op, rhs) ==
    CASE rhs.form \in {"range", "list"} -> op \in {"Equals", "Differs"}
      [] rhs.form = "value"             -> valueParse(op, rhs)
      [] rhs.form = "pattern"           -> op = "MatchPattern"

(* "a" is the attribute of the tested entity, "other" one that it lacks.      *)
LeftHandSides ==
    [type : {"q"}, attributeName : {"a"}, metadataName : {Empty}, compoundPath : {Empty, "p"}]
        \cup [type : {"q"}, attributeName : {"dateCreated", "other"}, metadataName : {Empty},
              compoundPath : {Empty}]
        \cup [type : {"mq"}, attributeName : {"a"}, metadataName : {"m"},
              compoundPath : {Empty, "p"}]
        \cup [type : {"mq"}, attributeName : {"a"}, metadataName : {"dateCreated"},
              compoundPath : {Empty}]

Comparisons ==
    {c \in ({"Equals", "Differs", "MatchPattern"} \cup Ordering)
                \X (RightHandSides \cup Patterns) :
        parse(c[1], c[2]) /\ (c[1] = "MatchPattern" <=> c[2].form = "pattern")}

(* All the items that parse accepts.                                          *)
StringFilterItems ==
    [lhs : LeftHandSides, op : Unary]
        \cup {[lhs |-> l, op |-> c[1], rhs |-> c[2]] : l \in LeftHandSides, c \in Comparisons}

-----------------------------------------------------------------------------
(* Rendering, and parsing of what was rendered.  An attribute is rendered by  *)
(* its expanded name, without the compound path.  The parser splits the name  *)
(* at its first dot: if the names of an @context have dots (ldContext is      *)
(* "dotted", not "plain") it finds the name of another attribute.  So it does *)
(* for dateCreated, once expanded.  Names with a colon other than that of     *)
(* "://", which the parser takes for an operator, are left out.               *)

renderedName(lhs, ldContext) ==
    [type |-> "q", metadataName |-> Empty, compoundPath |-> Empty,
     attributeName |-> IF ldContext = "plain" /\ lhs.attributeName = "a" THEN "a" ELSE "other"]

(* Every Boolean is rendered "true", strings lose their quotes.               *)
valueAsString(rhs) ==
    CASE rhs.form \in {"range", "list"} ->
            [type |-> "String", form |-> "value", v |-> NotImplemented[rhs.form]]
      [] rhs.form = "value" /\ rhs.type = "String"  -> Unquoted[rhs.v]
      [] rhs.form = "value" /\ rhs.type = "Boolean" -> [rhs EXCEPT !.v = TRUE]
      [] rhs.form = "value" /\ rhs.type \in {"Number", "Null"} -> rhs

(* "~=" is rendered "=", which the parser takes for the dot of a path (here   *)
(* the one that occurs) to an item whose existence is asked for.              *)
render(f, ldContext) ==
    LET lhs == renderedName(f.lhs, ldContext)
        rhs == valueAsString(f.rhs)
        Path == IF lhs.attributeName = "a" THEN "p" ELSE Empty
    IN  CASE f.op \in Unary -> [lhs |-> lhs, op |-> f.op]
          [] f.op = "MatchPattern" -> [lhs |-> [lhs EXCEPT !.compoundPath = Path], op |-> "Exists"]
          [] f.op \notin Unary \cup {"MatchPattern"} ->
                IF rhs # Unparsable /\ parse(f.op, rhs)
                THEN [lhs |-> lhs, op |-> f.op, rhs |-> rhs] ELSE Unparsable

-----------------------------------------------------------------------------
(* Evaluation by the broker.  The C++ object that holds a value (an           *)
(* attribute, a metadata, a node of a compound value) has a field for each    *)
(* kind of value, and only one of them is set.  matchEquals reads the field   *)
(* that suits the filter, whatever the kind of the value.  What a field holds *)
(* that has not been set depends on the constructor: a default, or anything.  *)

Field(v, kind, class) ==
    CASE v.type = kind -> {v.v}
      [] v.type # kind /\ kind = "String"  -> {0}
      [] v.type # kind /\ kind = "Number"  -> IF class = "Metadata" THEN Numbers ELSE {0}
      [] v.type # kind /\ kind = "Boolean" ->
            IF class = "CompoundValueNode" THEN {FALSE} ELSE BOOLEAN

compoundItem(v, path) ==
    IF v.type = "Object" THEN v.item ELSE Missing

Operand(f, v) ==
    IF f.lhs.compoundPath = Empty THEN v ELSE compoundItem(v, f.lhs.compoundPath)

OperandClass(f, class) ==
    IF f.lhs.compoundPath = Empty THEN class ELSE "CompoundValueNode"

EqualsOne(rhs, x) ==
    CASE rhs.form = "range" -> ~(x < rhs.from \/ x > rhs.to)
      [] rhs.form = "list"  -> x \in rhs.list
      [] rhs.form = "value" -> x = rhs.v

matchEquals(f, v, class) ==
    LET w == Operand(f, v)
        Result(b) == IF b THEN "Match" ELSE "NoMatch"
    IN  CASE w = Missing -> {"DoesntExist"}
          [] w # Missing /\ f.rhs.type = "Null" -> {Result(w.type = "Null")}
          [] w # Missing /\ f.rhs.type # "Null" ->
                {Result(EqualsOne(f.rhs, x)) : x \in Field(w, f.rhs.type, OperandClass(f, class))}

compatibleType(f, w) == w.type = f.rhs.type /\ w.type \in {"Number", "String"}

matchGreaterThan(f, v) ==
    LET w == Operand(f, v)
    IN  CASE w = Missing -> "DoesntExist"
          [] w # Missing /\ ~compatibleType(f, w) -> "IncompatibleType"
          [] w # Missing /\ compatibleType(f, w) ->
                IF w.v > f.rhs.v THEN "Match" ELSE "NoMatch"

matchLessThan(f, v) ==
    LET w == Operand(f, v)
    IN  CASE w = Missing -> "DoesntExist"
          [] w # Missing /\ ~compatibleType(f, w) -> "IncompatibleType"
          [] w # Missing /\ compatibleType(f, w) ->
                IF w.v < f.rhs.v THEN "Match" ELSE "NoMatch"

matchPattern(f, v) ==
    LET w == Operand(f, v)
    IN  CASE w = Missing -> "DoesntExist"
          [] w # Missing /\ w.type # "String" -> "IncompatibleType"
          [] w.type = "String" -> IF w.v \in f.rhs.hits THEN "Match" ELSE "NoMatch"

(* The set of the possible outcomes of a comparison.  A comparison with       *)
(* "or equal" is the negation of the opposite one, but only of "NoMatch".     *)
Compare_NegatesMatch(f, v, class) ==
    CASE f.op = "Equals"             -> {r = "Match" : r \in matchEquals(f, v, class)}
      [] f.op = "Differs"            -> {r = "NoMatch" : r \in matchEquals(f, v, class)}
      [] f.op = "GreaterThan"        -> {matchGreaterThan(f, v) = "Match"}
      [] f.op = "LessThan"           -> {matchLessThan(f, v) = "Match"}
      [] f.op = "GreaterThanOrEqual" -> {matchLessThan(f, v) # "Match"}
      [] f.op = "LessThanOrEqual"    -> {matchGreaterThan(f, v) # "Match"}
      [] f.op = "MatchPattern"       -> {matchPattern(f, v) = "Match"}

Compare(f, v, class) ==
    CASE f.op = "Equals"             -> {r = "Match" : r \in matchEquals(f, v, class)}
      [] f.op = "Differs"            -> {r = "NoMatch" : r \in matchEquals(f, v, class)}
      [] f.op = "GreaterThan"        -> {matchGreaterThan(f, v) = "Match"}
      [] f.op = "LessThan"           -> {matchLessThan(f, v) = "Match"}
      [] f.op = "GreaterThanOrEqual" -> {matchLessThan(f, v) = "NoMatch"}
      [] f.op = "LessThanOrEqual"    -> {matchGreaterThan(f, v) = "NoMatch"}
      [] f.op = "MatchPattern"       -> {matchPattern(f, v) = "Match"}

Date(e) == [type |-> "Number", v |-> e.date]

(* contextElement.getAttribute and metadataVector.lookupByName: dateCreated   *)
(* is in neither.                                                             *)
getAttribute(f, e) == IF f.lhs.attributeName = "a" THEN e.attr ELSE Missing

lookupByName(f, e) ==
    IF e.attr # Missing /\ f.lhs.metadataName = "m" THEN e.attr.md ELSE Missing

qMatch(f, e) ==
    LET ca     == getAttribute(f, e)
        exists == ca # Missing /\ Operand(f, ca.value) # Missing
    IN  CASE f.op = "Exists"    -> {exists}
          [] f.op = "NotExists" -> {~exists}
          [] f.op \notin Unary /\ f.lhs.attributeName = "dateCreated" ->
                Compare(f, Date(e), "ContextAttribute")
          [] f.op \notin Unary /\ f.lhs.attributeName # "dateCreated" ->
                IF ca = Missing THEN {FALSE} ELSE Compare(f, ca.value, "ContextAttribute")

(* A missing attribute is no match for any operator, NotExists included.      *)
mqMatch(f, e) ==
    LET md     == lookupByName(f, e)
        exists == md # Missing /\ Operand(f, md) # Missing
    IN  CASE e.attr = Missing -> {FALSE}
          [] e.attr # Missing /\ f.op = "Exists"    -> {exists}
          [] e.attr # Missing /\ f.op = "NotExists" -> {~exists}
          [] e.attr # Missing /\ f.op \notin Unary ->
                IF f.lhs.metadataName = "dateCreated" THEN Compare(f, Date(e), "Metadata")
                ELSE IF md = Missing THEN {FALSE} ELSE Compare(f, md, "Metadata")

match(f, e) ==
    IF f.lhs.type = "q" THEN qMatch(f, e) ELSE mqMatch(f, e)

-----------------------------------------------------------------------------
(* Evaluation by MongoDB of the condition that mongoFilterPopulate makes: the *)
(* value found under the key, and the operators applied to it.                *)

FilterKey(f, e) ==
    CASE f.lhs.type = "q" /\ f.lhs.attributeName = "dateCreated" -> Date(e)
      [] f.lhs.attributeName = "other" \/ (f.lhs.attributeName = "a" /\ e.attr = Missing) -> Missing
      [] f.lhs.type = "q" /\ f.lhs.attributeName = "a" /\ e.attr # Missing ->
            Operand(f, e.attr.value)
      [] f.lhs.type = "mq" /\ f.lhs.metadataName = "dateCreated" /\ e.attr # Missing -> Date(e)
      [] f.lhs.type = "mq" /\ f.lhs.metadataName = "m" /\ e.attr # Missing ->
            Operand(f, e.attr.md)

(* $in, or $gte with $lte, or $type: values of other types do not match.      *)
MongoEquals(f, w) ==
    /\ w.type = f.rhs.type
    /\ CASE f.rhs.type = "Null"  -> TRUE
         [] f.rhs.form = "range" -> f.rhs.from <= w.v /\ w.v <= f.rhs.to
         [] f.rhs.form = "list"  -> w.v \in f.rhs.list
         [] f.rhs.form = "value" /\ f.rhs.type # "Null" -> w.v = f.rhs.v

mongoFilterPopulate(f, e) ==
    LET w == FilterKey(f, e)
        Same == w.type = f.rhs.type
    IN  CASE f.op = "Exists"             -> w # Missing
          [] f.op = "NotExists"          -> w = Missing
          [] f.op = "Equals"             -> MongoEquals(f, w)
          [] f.op = "Differs"            -> w # Missing /\ ~MongoEquals(f, w)
          [] f.op = "GreaterThan"        -> Same /\ w.v > f.rhs.v
          [] f.op = "GreaterThanOrEqual" -> Same /\ w.v >= f.rhs.v
          [] f.op = "LessThan"           -> Same /\ w.v < f.rhs.v
          [] f.op = "LessThanOrEqual"    -> Same /\ w.v <= f.rhs.v
          [] f.op = "MatchPattern"       -> w.type = "String" /\ w.v \in f.rhs.hits

-----------------------------------------------------------------------------
(* Where the two are known to differ.                                         *)

(* == and != with a value of another kind, when a field that was never set    *)
(* may hold what the filter asks for.                                         *)
ReadsUnsetField(f, e) ==
    /\ f.op \in {"Equals", "Differs"}
    /\ f.rhs.type # "Null"
    /\ LET w     == FilterKey(f, e)
           class == IF f.lhs.type = "q" THEN "ContextAttribute" ELSE "Metadata"
       IN  /\ w # Missing
           /\ w.type # f.rhs.type
           /\ \E x \in Field(w, f.rhs.type, OperandClass(f, class)) : EqualsOne(f.rhs, x)

(* The existence of a date: no entity has an attribute of that name, and      *)
(* every document has the field.                                              *)
AsksForDate(f) ==
    f.op \in Unary /\ "dateCreated" \in {f.lhs.attributeName, f.lhs.metadataName}

(* The absence of the metadata of an attribute that is absent itself.         *)
AsksForLackOfBoth(f, e) ==
    f.op = "NotExists" /\ f.lhs.type = "mq" /\ e.attr = Missing

KnownToDiffer(f, e) ==
    ReadsUnsetField(f, e) \/ AsksForDate(f) \/ AsksForLackOfBoth(f, e)
=============================================================================
