--------------------- MODULE SubscriptionMatchingProofs ---------------------
(* Proofs about StringFilter and SubscriptionMatching, for any requests that  *)
(* the parsers accept, any regular expressions, numbers, ids, types, paths    *)
(* and times.                                                                 *)
EXTENDS SubscriptionMatching, TLAPS

-----------------------------------------------------------------------------
(* Filters.  The kinds of the values and of the right-hand sides.             *)

Operands == Values \cup {Missing}

LEMMA Kinds ==
    ASSUME NEW w \in Operands
    PROVE  /\ w.type \in {"Number", "String", "Boolean", "Null", "Object", "Missing"}
           /\ w = Missing <=> w.type = "Missing"
           /\ w.type \in {"Number", "String"} => w.v \in Numbers
           /\ w.type = "Boolean" => w.v \in BOOLEAN
           /\ w.type = "Object" => w.item \in Operands
    BY DEF Operands, Values, Scalars, Missing

LEMMA OperandKind ==
    ASSUME NEW f, NEW v \in Operands
    PROVE  Operand(f, v) \in Operands
<1>1. Missing \in Operands
    BY DEF Operands
<1>2. v.type = "Object" => v.item \in Operands
    BY Kinds
<1> QED
    BY <1>1, <1>2 DEF Operand, compoundItem

LEMMA Sides ==
    ASSUME NEW rhs \in RightHandSides \cup Patterns
    PROVE  /\ rhs.type \in {"Number", "String", "Boolean", "Null"}
           /\ rhs.form \in {"value", "range", "list", "pattern"}
           /\ rhs.form = "range" => /\ rhs.type \in {"Number", "String"}
                                    /\ rhs.from \in Numbers /\ rhs.to \in Numbers
           /\ rhs.form = "list" => rhs.type \in {"Number", "String"}
           /\ rhs.form = "pattern" => rhs.type = "String"
           /\ (rhs.form = "value" /\ rhs.type \in {"Number", "String"}) => rhs.v \in Numbers
<1>1. CASE rhs \in [type : {"Number", "String"}, form : {"value"}, v : Numbers]
    BY <1>1
<1>2. CASE rhs \in [type : {"Boolean"}, form : {"value"}, v : BOOLEAN]
    BY <1>2
<1>3. CASE rhs \in {[type |-> "Null", form |-> "value"]}
    BY <1>3
<1>4. CASE rhs \in [type : {"Number", "String"}, form : {"range"}, from : Numbers, to : Numbers]
    BY <1>4
<1>5. CASE rhs \in [type : {"Number", "String"}, form : {"list"}, list : SUBSET Numbers \ {{}}]
    BY <1>5
<1>6. CASE rhs \in Patterns
    BY <1>6 DEF Patterns
<1> QED
    BY <1>1, <1>2, <1>3, <1>4, <1>5, <1>6 DEF RightHandSides

LEMMA ComparisonSides ==
    ASSUME NEW c \in Comparisons
    PROVE  /\ c[1] \in {"Equals", "Differs", "MatchPattern"} \cup Ordering
           /\ c[2] \in RightHandSides \cup Patterns
           /\ c[1] = "MatchPattern" <=> c[2].form = "pattern"
           /\ c[1] \in Ordering => c[2].form = "value" /\ c[2].type \in {"Number", "String"}
<1>1. /\ c[1] \in {"Equals", "Differs", "MatchPattern"} \cup Ordering
      /\ c[2] \in RightHandSides \cup Patterns
      /\ parse(c[1], c[2])
      /\ c[1] = "MatchPattern" <=> c[2].form = "pattern"
    BY DEF Comparisons
<1>2. c[2].form \in {"value", "range", "list", "pattern"}
    BY <1>1, Sides
<1> QED
    BY <1>1, <1>2 DEF parse, valueParse, Ordering

(* A filter that compares.                                                    *)
IsComparison(f) ==
    /\ f.lhs \in LeftHandSides
    /\ f.op \in {"Equals", "Differs", "MatchPattern"} \cup Ordering
    /\ f.rhs \in RightHandSides \cup Patterns
    /\ f.op = "MatchPattern" <=> f.rhs.form = "pattern"
    /\ f.op \in Ordering => f.rhs.form = "value" /\ f.rhs.type \in {"Number", "String"}

LEMMA Items ==
    ASSUME NEW f \in StringFilterItems
    PROVE  /\ f.lhs \in LeftHandSides
           /\ f.op \in Unary \/ IsComparison(f)
<1>1. CASE f \in [lhs : LeftHandSides, op : Unary]
    BY <1>1
<1>2. CASE f \in {[lhs |-> l, op |-> c[1], rhs |-> c[2]] : l \in LeftHandSides, c \in Comparisons}
    <2>1. PICK l \in LeftHandSides, c \in Comparisons : f = [lhs |-> l, op |-> c[1], rhs |-> c[2]]
        BY <1>2
    <2>2. f.lhs = l /\ f.op = c[1] /\ f.rhs = c[2]
        BY <2>1
    <2> QED
        BY <2>1, <2>2, ComparisonSides DEF IsComparison
<1> QED
    BY <1>1, <1>2 DEF StringFilterItems

-----------------------------------------------------------------------------
(* A comparison, by the broker and by MongoDB, with the operand at hand.      *)

(* What MongoDB decides of a comparison, given the value under the key.       *)
Decision(f, w) ==
    CASE f.op = "Equals"             -> MongoEquals(f, w)
      [] f.op = "Differs"            -> w # Missing /\ ~MongoEquals(f, w)
      [] f.op = "GreaterThan"        -> w.type = f.rhs.type /\ w.v > f.rhs.v
      [] f.op = "GreaterThanOrEqual" -> w.type = f.rhs.type /\ w.v >= f.rhs.v
      [] f.op = "LessThan"           -> w.type = f.rhs.type /\ w.v < f.rhs.v
      [] f.op = "LessThanOrEqual"    -> w.type = f.rhs.type /\ w.v <= f.rhs.v
      [] f.op = "MatchPattern"       -> w.type = "String" /\ w.v \in f.rhs.hits

(* A field that was never set may hold what the filter asks for.              *)
Unset(f, w, class) ==
    /\ f.op \in {"Equals", "Differs"}
    /\ f.rhs.type # "Null"
    /\ w # Missing
    /\ w.type # f.rhs.type
    /\ \E x \in Field(w, f.rhs.type, OperandClass(f, class)) : EqualsOne(f.rhs, x)

LEMMA Singles ==
    /\ {r = "Match" : r \in {"Match"}} = {TRUE}
    /\ {r = "Match" : r \in {"NoMatch"}} = {FALSE}
    /\ {r = "Match" : r \in {"DoesntExist"}} = {FALSE}
    /\ {r = "NoMatch" : r \in {"Match"}} = {FALSE}
    /\ {r = "NoMatch" : r \in {"NoMatch"}} = {TRUE}
    /\ {r = "NoMatch" : r \in {"DoesntExist"}} = {FALSE}
    BY Zenon

LEMMA FieldHasValue ==
    ASSUME NEW w, NEW kind \in {"Number", "String", "Boolean"}, NEW class
    PROVE  \E x : x \in Field(w, kind, class)
    BY NumbersAssumption DEF Field

LEMMA EqualsOneIs ==
    ASSUME NEW f, IsComparison(f), f.op \in {"Equals", "Differs"},
           NEW w \in Operands, w.type = f.rhs.type, f.rhs.type # "Null"
    PROVE  EqualsOne(f.rhs, w.v) <=> MongoEquals(f, w)
<1>1. /\ f.rhs.form \in {"value", "range", "list"}
      /\ f.rhs.form = "range" => f.rhs.from \in Nat /\ f.rhs.to \in Nat /\ w.v \in Nat
    BY Sides, Kinds, NumbersAssumption DEF IsComparison, Ordering
<1>2. CASE f.rhs.form = "value"
    BY <1>2 DEF EqualsOne, MongoEquals
<1>3. CASE f.rhs.form = "list"
    BY <1>3 DEF EqualsOne, MongoEquals
<1>4. CASE f.rhs.form = "range"
    BY <1>1, <1>4 DEF EqualsOne, MongoEquals
<1> QED
    BY <1>1, <1>2, <1>3, <1>4

LEMMA matchEqualsIs ==
    ASSUME NEW f, IsComparison(f), f.op \in {"Equals", "Differs"}, NEW v \in Operands, NEW class,
           ~Unset(f, Operand(f, v), class)
    PROVE  LET w == Operand(f, v)
           IN  /\ w = Missing => matchEquals(f, v, class) = {"DoesntExist"} /\ ~MongoEquals(f, w)
               /\ (w # Missing /\ MongoEquals(f, w)) => matchEquals(f, v, class) = {"Match"}
               /\ (w # Missing /\ ~MongoEquals(f, w)) => matchEquals(f, v, class) = {"NoMatch"}
<1> DEFINE w == Operand(f, v)
           Fields == Field(w, f.rhs.type, OperandClass(f, class))
           Outcome(x) == IF EqualsOne(f.rhs, x) THEN "Match" ELSE "NoMatch"
<1>1. w \in Operands
    BY OperandKind
<1>2. f.rhs.type \in {"Number", "String", "Boolean", "Null"}
    BY Sides DEF IsComparison
<1>3. w = Missing <=> w.type = "Missing"
    BY <1>1, Kinds
<1>4. CASE w = Missing
    BY <1>2, <1>3, <1>4 DEF matchEquals, MongoEquals
<1>5. CASE w # Missing /\ f.rhs.type = "Null"
    <2>1. f.rhs.form \notin {"range", "list"}
        BY <1>5, Sides DEF IsComparison
    <2>2. MongoEquals(f, w) <=> w.type = "Null"
        BY <1>5, <2>1 DEF MongoEquals
    <2>3. matchEquals(f, v, class) = {IF w.type = "Null" THEN "Match" ELSE "NoMatch"}
        BY <1>5 DEF matchEquals
    <2> QED
        BY <1>5, <2>2, <2>3
<1>6. ASSUME w # Missing, f.rhs.type # "Null"
      PROVE  matchEquals(f, v, class) = {Outcome(x) : x \in Fields}
    BY <1>6 DEF matchEquals
<1>7. CASE w # Missing /\ f.rhs.type # "Null" /\ w.type = f.rhs.type
    <2>1. Fields = {w.v}
        BY <1>7 DEF Field
    <2>2. matchEquals(f, v, class) = {Outcome(w.v)}
        BY <1>6, <1>7, <2>1
    <2>3. EqualsOne(f.rhs, w.v) <=> MongoEquals(f, w)
        BY <1>1, <1>7, EqualsOneIs
    <2> QED
        BY <1>7, <2>2, <2>3
<1>8. CASE w # Missing /\ f.rhs.type # "Null" /\ w.type # f.rhs.type
    <2>1. \E x : x \in Fields
        BY <1>2, <1>8, FieldHasValue
    <2>2. \A x \in Fields : Outcome(x) = "NoMatch"
        BY <1>8 DEF Unset
    <2>3. matchEquals(f, v, class) = {"NoMatch"}
        BY <1>6, <1>8, <2>1, <2>2
    <2>4. ~MongoEquals(f, w)
        BY <1>8 DEF MongoEquals
    <2> QED
        BY <1>8, <2>3, <2>4
<1> QED
    BY <1>4, <1>5, <1>7, <1>8

LEMMA OrderingIs ==
    ASSUME NEW f, IsComparison(f), f.op \in Ordering, NEW v \in Operands
    PROVE  LET w == Operand(f, v)
           IN  /\ w.type # f.rhs.type =>
                    /\ matchGreaterThan(f, v) \notin {"Match", "NoMatch"}
                    /\ matchLessThan(f, v) \notin {"Match", "NoMatch"}
               /\ w.type = f.rhs.type =>
                    /\ w.v \in Nat /\ f.rhs.v \in Nat
                    /\ matchGreaterThan(f, v) = IF w.v > f.rhs.v THEN "Match" ELSE "NoMatch"
                    /\ matchLessThan(f, v) = IF w.v < f.rhs.v THEN "Match" ELSE "NoMatch"
<1> DEFINE w == Operand(f, v)
<1>1. w \in Operands
    BY OperandKind
<1>2. /\ f.rhs.form = "value" /\ f.rhs.type \in {"Number", "String"}
      /\ f.rhs.v \in Nat
    BY Sides, NumbersAssumption DEF IsComparison
<1>3. /\ w = Missing <=> w.type = "Missing"
      /\ w.type \in {"Number", "String"} => w.v \in Nat
    BY <1>1, Kinds, NumbersAssumption
<1>4. CASE w.type # f.rhs.type
    BY <1>4 DEF matchGreaterThan, matchLessThan, compatibleType
<1>5. CASE w.type = f.rhs.type
    BY <1>2, <1>3, <1>5 DEF matchGreaterThan, matchLessThan, compatibleType
<1> QED
    BY <1>4, <1>5

LEMMA PatternIs ==
    ASSUME NEW f, NEW v \in Operands
    PROVE  LET w == Operand(f, v)
           IN  matchPattern(f, v) = "Match" <=> w.type = "String" /\ w.v \in f.rhs.hits
<1> DEFINE w == Operand(f, v)
<1>1. w = Missing <=> w.type = "Missing"
    BY OperandKind, Kinds
<1> QED
    BY <1>1 DEF matchPattern

(* Unless it may read a field that was never set, the broker has one outcome, *)
(* and it is MongoDB's.                                                       *)
LEMMA CompareIs ==
    ASSUME NEW f, IsComparison(f), NEW v \in Operands, NEW class,
           ~Unset(f, Operand(f, v), class)
    PROVE  Compare(f, v, class) = {Decision(f, Operand(f, v))}
<1> DEFINE w == Operand(f, v)
<1>0. f.op \in {"Equals", "Differs", "MatchPattern", "GreaterThan", "GreaterThanOrEqual",
                "LessThan", "LessThanOrEqual"}
    BY DEF IsComparison, Ordering
<1>1. CASE f.op = "Equals"
    <2>1. Compare(f, v, class) = {r = "Match" : r \in matchEquals(f, v, class)}
        BY <1>1 DEF Compare
    <2>2. Decision(f, w) = MongoEquals(f, w)
        BY <1>1 DEF Decision
    <2>3. MongoEquals(f, w) \in BOOLEAN
        BY DEF MongoEquals
    <2>4. CASE w = Missing
        BY <1>1, <2>1, <2>2, <2>3, <2>4, Singles, matchEqualsIs
    <2>5. CASE w # Missing /\ MongoEquals(f, w)
        BY <1>1, <2>1, <2>2, <2>3, <2>5, Singles, matchEqualsIs
    <2>6. CASE w # Missing /\ ~MongoEquals(f, w)
        BY <1>1, <2>1, <2>2, <2>3, <2>6, Singles, matchEqualsIs
    <2> QED
        BY <2>4, <2>5, <2>6
<1>2. CASE f.op = "Differs"
    <2>1. Compare(f, v, class) = {r = "NoMatch" : r \in matchEquals(f, v, class)}
        BY <1>2 DEF Compare
    <2>2. Decision(f, w) = (w # Missing /\ ~MongoEquals(f, w))
        BY <1>2 DEF Decision
    <2>4. CASE w = Missing
        BY <1>2, <2>1, <2>2, <2>4, Singles, matchEqualsIs
    <2>5. CASE w # Missing /\ MongoEquals(f, w)
        BY <1>2, <2>1, <2>2, <2>5, Singles, matchEqualsIs
    <2>6. CASE w # Missing /\ ~MongoEquals(f, w)
        BY <1>2, <2>1, <2>2, <2>6, Singles, matchEqualsIs
    <2> QED
        BY <2>4, <2>5, <2>6
<1>3. CASE f.op = "GreaterThan"
    BY <1>3, OrderingIs DEF Compare, Decision, Ordering
<1>4. CASE f.op = "GreaterThanOrEqual"
    BY <1>4, OrderingIs DEF Compare, Decision, Ordering
<1>5. CASE f.op = "LessThan"
    BY <1>5, OrderingIs DEF Compare, Decision, Ordering
<1>6. CASE f.op = "LessThanOrEqual"
    BY <1>6, OrderingIs DEF Compare, Decision, Ordering
<1>7. CASE f.op = "MatchPattern"
    BY <1>7, PatternIs DEF Compare, Decision
<1> QED
    BY <1>0, <1>1, <1>2, <1>3, <1>4, <1>5, <1>6, <1>7

-----------------------------------------------------------------------------
(* The value that is compared, found by the broker and by MongoDB.            *)

LEMMA LeftSides ==
    ASSUME NEW l \in LeftHandSides
    PROVE  /\ l.type \in {"q", "mq"}
           /\ l.attributeName \in {"a", "dateCreated", "other"}
           /\ l.type = "mq" => l.attributeName = "a" /\ l.metadataName \in {"m", "dateCreated"}
           /\ l.type = "q" => l.metadataName # "dateCreated"
           /\ "dateCreated" \in {l.attributeName, l.metadataName} => l.compoundPath = Empty
           /\ l.attributeName = "other" => l.compoundPath = Empty
<1>1. Empty # "dateCreated"
    BY Zenon DEF Empty
<1> QED
    BY <1>1 DEF LeftHandSides

LEMMA Tested ==
    ASSUME NEW e \in TestedEntities
    PROVE  /\ e.attr # Missing => e.attr.value \in Values /\ e.attr.md \in Operands
           /\ Date(e) \in Operands
<1>1. [type |-> "Null"] \in Values
    BY DEF Values, Scalars
<1>2. Missing \in Operands /\ Values \subseteq Operands
    BY DEF Operands
<1>3. e.date \in Numbers
    BY DEF TestedEntities
<1>4. Date(e) \in Operands
    BY <1>3 DEF Date, Operands, Values, Scalars
<1>5. e.attr # Missing => e.attr.value \in Values /\ e.attr.md \in Operands
    BY <1>1, <1>2 DEF TestedEntities
<1> QED
    BY <1>4, <1>5

LEMMA OperandOfMissing ==
    ASSUME NEW f
    PROVE  Operand(f, Missing) = Missing
    BY DEF Operand, compoundItem, Missing

LEMMA NothingDecided ==
    ASSUME NEW f, IsComparison(f)
    PROVE  Decision(f, Missing) = FALSE
<1>1. f.rhs.type # "Missing" /\ Missing.type = "Missing"
    BY Sides DEF IsComparison, Missing
<1>2. ~MongoEquals(f, Missing)
    BY <1>1 DEF MongoEquals
<1>3. Missing.type # "String"
    BY <1>1
<1>4. f.op \in {"Equals", "Differs", "MatchPattern", "GreaterThan", "GreaterThanOrEqual",
                "LessThan", "LessThanOrEqual"}
    BY DEF IsComparison, Ordering
<1>5. CASE f.op = "Equals"
    BY <1>2, <1>5 DEF Decision
<1>6. CASE f.op = "Differs"
    BY <1>6 DEF Decision
<1>7. CASE f.op \in {"GreaterThan", "GreaterThanOrEqual", "LessThan", "LessThanOrEqual"}
    BY <1>1, <1>7 DEF Decision
<1>8. CASE f.op = "MatchPattern"
    BY <1>3, <1>8 DEF Decision
<1> QED
    BY <1>4, <1>5, <1>6, <1>7, <1>8

LEMMA PopulateIs ==
    ASSUME NEW f, IsComparison(f), NEW e
    PROVE  mongoFilterPopulate(f, e) = Decision(f, FilterKey(f, e))
<1>1. f.op \in {"Equals", "Differs", "MatchPattern", "GreaterThan", "GreaterThanOrEqual",
                "LessThan", "LessThanOrEqual"}
    BY DEF IsComparison, Ordering
<1> QED
    BY <1>1 DEF mongoFilterPopulate, Decision

(* A filter on values of attributes.                                          *)
LEMMA qMatchIs ==
    ASSUME NEW f \in StringFilterItems, f.lhs.type = "q", NEW e \in TestedEntities
    PROVE  KnownToDiffer(f, e) \/ match(f, e) = {mongoFilterPopulate(f, e)}
<1> SUFFICES ASSUME ~KnownToDiffer(f, e) PROVE qMatch(f, e) = {mongoFilterPopulate(f, e)}
    BY DEF match
<1> DEFINE l == f.lhs
           w == FilterKey(f, e)
           class == "ContextAttribute"
<1>1. /\ l.attributeName \in {"a", "dateCreated", "other"}
      /\ l.attributeName = "dateCreated" => l.compoundPath = Empty
    BY Items, LeftSides
<1>2. f.op \in Unary \/ IsComparison(f)
    BY Items
<1>3. ~AsksForDate(f) /\ ~Unset(f, w, class)
    BY DEF KnownToDiffer, ReadsUnsetField, Unset
<1>4. /\ e.attr # Missing => e.attr.value \in Operands
      /\ Date(e) \in Operands
    BY Tested DEF Operands
<1>5. CASE f.op \in Unary /\ l.attributeName = "a"
    <2>1. l.attributeName = "a"
        BY <1>5
    <2>2. w = IF e.attr = Missing THEN Missing ELSE Operand(f, e.attr.value)
        BY <2>1 DEF FilterKey
    <2>3. getAttribute(f, e) = e.attr
        BY <2>1 DEF getAttribute
    <2>4. w # Missing <=> (e.attr # Missing /\ Operand(f, e.attr.value) # Missing)
        BY <2>2
    <2>5. CASE f.op = "Exists"
        <3>1. qMatch(f, e) = {e.attr # Missing /\ Operand(f, e.attr.value) # Missing}
            BY <2>3, <2>5 DEF qMatch, Unary
        <3>2. mongoFilterPopulate(f, e) = (w # Missing)
            BY <2>5 DEF mongoFilterPopulate
        <3> QED
            BY <2>4, <3>1, <3>2
    <2>6. CASE f.op = "NotExists"
        <3>1. qMatch(f, e) = {~(e.attr # Missing /\ Operand(f, e.attr.value) # Missing)}
            BY <2>3, <2>6 DEF qMatch, Unary
        <3>2. mongoFilterPopulate(f, e) = (w = Missing)
            BY <2>6 DEF mongoFilterPopulate
        <3> QED
            BY <2>4, <3>1, <3>2
    <2> QED
        BY <1>5, <2>5, <2>6 DEF Unary
<1>6. CASE f.op \notin Unary /\ l.attributeName = "dateCreated"
    <2>1. w = Date(e) /\ Operand(f, Date(e)) = Date(e)
        BY <1>1, <1>6 DEF FilterKey, Operand
    <2>2. qMatch(f, e) = Compare(f, Date(e), class)
        BY <1>6 DEF qMatch, Unary
    <2> QED
        BY <1>2, <1>3, <1>4, <1>6, <2>1, <2>2, CompareIs, PopulateIs
<1>7. CASE f.op \notin Unary /\ l.attributeName = "a"
    <2>1. getAttribute(f, e) = e.attr
        BY <1>7 DEF getAttribute
    <2>2. CASE e.attr = Missing
        <3>1. w = Missing
            BY <1>7, <2>2 DEF FilterKey
        <3>2. qMatch(f, e) = {FALSE}
            BY <1>7, <2>1, <2>2 DEF qMatch, Unary
        <3> QED
            BY <1>2, <1>7, <3>1, <3>2, NothingDecided, PopulateIs
    <2>3. CASE e.attr # Missing
        <3>1. w = Operand(f, e.attr.value)
            BY <1>7, <2>3 DEF FilterKey
        <3>2. qMatch(f, e) = Compare(f, e.attr.value, class)
            BY <1>7, <2>1, <2>3 DEF qMatch, Unary
        <3> QED
            BY <1>2, <1>3, <1>4, <1>7, <2>3, <3>1, <3>2, CompareIs, PopulateIs
    <2> QED
        BY <2>2, <2>3
<1>8. CASE l.attributeName = "other"
    <2>1. w = Missing /\ getAttribute(f, e) = Missing
        BY <1>8 DEF FilterKey, getAttribute
    <2>2. CASE f.op = "Exists"
        BY <2>1, <2>2 DEF qMatch, Unary, mongoFilterPopulate
    <2>3. CASE f.op = "NotExists"
        BY <2>1, <2>3 DEF qMatch, Unary, mongoFilterPopulate
    <2>4. CASE f.op \notin Unary
        <3>1. qMatch(f, e) = {FALSE}
            BY <1>8, <2>1, <2>4 DEF qMatch, Unary
        <3> QED
            BY <1>2, <2>1, <2>4, <3>1, NothingDecided, PopulateIs
    <2> QED
        BY <2>2, <2>3, <2>4 DEF Unary
<1>9. f.op \in Unary => l.attributeName # "dateCreated"
    BY <1>3 DEF AsksForDate
<1> QED
    BY <1>1, <1>5, <1>6, <1>7, <1>8, <1>9

(* A filter on metadata.                                                      *)
LEMMA mqMatchIs ==
    ASSUME NEW f \in StringFilterItems, f.lhs.type = "mq", NEW e \in TestedEntities
    PROVE  KnownToDiffer(f, e) \/ match(f, e) = {mongoFilterPopulate(f, e)}
<1> SUFFICES ASSUME ~KnownToDiffer(f, e) PROVE mqMatch(f, e) = {mongoFilterPopulate(f, e)}
    BY DEF match
<1> DEFINE l == f.lhs
           w == FilterKey(f, e)
           class == "Metadata"
<1>1. /\ l.attributeName = "a" /\ l.metadataName \in {"m", "dateCreated"}
      /\ l.metadataName = "dateCreated" => l.compoundPath = Empty
    BY Items, LeftSides
<1>2. f.op \in Unary \/ IsComparison(f)
    BY Items
<1>3. ~AsksForDate(f) /\ ~AsksForLackOfBoth(f, e) /\ ~Unset(f, w, class)
    BY DEF KnownToDiffer, ReadsUnsetField, Unset
<1>4. /\ e.attr # Missing => e.attr.md \in Operands
      /\ Date(e) \in Operands
    BY Tested
<1>5. CASE e.attr = Missing
    <2>1. w = Missing
        BY <1>1, <1>5 DEF FilterKey
    <2>2. mqMatch(f, e) = {FALSE}
        BY <1>5 DEF mqMatch
    <2>3. CASE f.op \in Unary
        <3>1. f.op = "Exists"
            BY <1>3, <1>5, <2>3 DEF Unary, AsksForLackOfBoth
        <3> QED
            BY <2>1, <2>2, <3>1 DEF mongoFilterPopulate
    <2>4. CASE IsComparison(f)
        BY <2>1, <2>2, <2>4, NothingDecided, PopulateIs
    <2> QED
        BY <1>2, <2>3, <2>4
<1>6. CASE e.attr # Missing /\ f.op \in Unary
    <2>1. l.metadataName = "m"
        BY <1>1, <1>3, <1>6 DEF AsksForDate
    <2>2. w = Operand(f, e.attr.md)
        BY <1>1, <1>6, <2>1 DEF FilterKey
    <2>3. lookupByName(f, e) = e.attr.md
        BY <1>6, <2>1 DEF lookupByName
    <2>4. w # Missing <=> (e.attr.md # Missing /\ Operand(f, e.attr.md) # Missing)
        BY <2>2, OperandOfMissing
    <2>5. CASE f.op = "Exists"
        BY <1>6, <2>3, <2>4, <2>5 DEF mqMatch, mongoFilterPopulate
    <2>6. CASE f.op = "NotExists"
        BY <1>6, <2>3, <2>4, <2>6 DEF mqMatch, mongoFilterPopulate
    <2> QED
        BY <1>6, <2>5, <2>6 DEF Unary
<1>7. CASE e.attr # Missing /\ f.op \notin Unary /\ l.metadataName = "dateCreated"
    <2>1. w = Date(e) /\ Operand(f, Date(e)) = Date(e)
        BY <1>1, <1>7 DEF FilterKey, Operand
    <2>2. mqMatch(f, e) = Compare(f, Date(e), class)
        BY <1>7 DEF mqMatch, Unary
    <2> QED
        BY <1>2, <1>3, <1>4, <1>7, <2>1, <2>2, CompareIs, PopulateIs
<1>8. CASE e.attr # Missing /\ f.op \notin Unary /\ l.metadataName = "m"
    <2>1. w = Operand(f, e.attr.md)
        BY <1>1, <1>8 DEF FilterKey
    <2>2. lookupByName(f, e) = e.attr.md
        BY <1>8 DEF lookupByName
    <2>3. mqMatch(f, e) = IF e.attr.md = Missing THEN {FALSE} ELSE Compare(f, e.attr.md, class)
        BY <1>8, <2>2 DEF mqMatch, Unary
    <2>4. CASE e.attr.md = Missing
        BY <1>2, <1>8, <2>1, <2>3, <2>4, NothingDecided, OperandOfMissing, PopulateIs
    <2>5. CASE e.attr.md # Missing
        BY <1>2, <1>3, <1>4, <1>8, <2>1, <2>3, <2>5, CompareIs, PopulateIs
    <2> QED
        BY <2>4, <2>5
<1> QED
    BY <1>1, <1>5, <1>6, <1>7, <1>8

LEMMA FilterMatchIs ==
    ASSUME NEW f \in StringFilterItems, NEW e \in TestedEntities
    PROVE  KnownToDiffer(f, e) \/ match(f, e) = {mongoFilterPopulate(f, e)}
    BY qMatchIs, mqMatchIs, Items, LeftSides

-----------------------------------------------------------------------------
(* What becomes of a filter that is rendered and parsed again.                *)

LEMMA ItemsAre ==
    ASSUME NEW f \in StringFilterItems
    PROVE  /\ f.op \in Unary => f = [lhs |-> f.lhs, op |-> f.op]
           /\ f.op \notin Unary => f = [lhs |-> f.lhs, op |-> f.op, rhs |-> f.rhs]
<1>1. CASE f \in [lhs : LeftHandSides, op : Unary]
    BY <1>1
<1>2. CASE f \in {[lhs |-> l, op |-> c[1], rhs |-> c[2]] : l \in LeftHandSides, c \in Comparisons}
    <2>1. PICK l \in LeftHandSides, c \in Comparisons : f = [lhs |-> l, op |-> c[1], rhs |-> c[2]]
        BY <1>2
    <2>2. c[1] \notin Unary
        BY <2>1, ComparisonSides DEF Unary, Ordering
    <2> QED
        BY <2>1, <2>2
<1> QED
    BY <1>1, <1>2 DEF StringFilterItems

LEMMA ItemIsParsed ==
    ASSUME NEW f \in StringFilterItems
    PROVE  f # Unparsable /\ f # None
<1>1. CASE f.op \in Unary
    BY <1>1, ItemsAre DEF Unparsable, None
<1>2. CASE f.op \notin Unary
    BY <1>2, ItemsAre DEF Unparsable, None
<1> QED
    BY <1>1, <1>2

LEMMA RenderedValue ==
    ASSUME NEW rhs \in RightHandSides
    PROVE  valueAsString(rhs) \in RightHandSides \cup {Unparsable}
<1>1. CASE rhs \in [type : {"Number", "String"}, form : {"range"}, from : Numbers, to : Numbers]
               \cup [type : {"Number", "String"}, form : {"list"}, list : SUBSET Numbers \ {{}}]
    <2>1. rhs.form \in {"range", "list"}
        BY <1>1
    <2>2. NotImplemented[rhs.form] \in Numbers
        BY <2>1, RenderingAssumption
    <2>3. valueAsString(rhs) = [type |-> "String", form |-> "value", v |-> NotImplemented[rhs.form]]
        BY <2>1 DEF valueAsString
    <2> QED
        BY <2>2, <2>3 DEF RightHandSides
<1>2. CASE rhs \in [type : {"Number", "String"}, form : {"value"}, v : Numbers]
    <2>1. rhs.form = "value" /\ rhs.type \in {"Number", "String"} /\ rhs.v \in Numbers
        BY <1>2
    <2>2. CASE rhs.type = "String"
        <3>1. valueAsString(rhs) = Unquoted[rhs.v]
            BY <2>1, <2>2 DEF valueAsString
        <3> QED
            BY <2>1, <3>1, RenderingAssumption
    <2>3. CASE rhs.type = "Number"
        BY <2>1, <2>3 DEF valueAsString
    <2> QED
        BY <2>1, <2>2, <2>3
<1>3. CASE rhs \in [type : {"Boolean"}, form : {"value"}, v : BOOLEAN]
    <2>1. rhs.form = "value" /\ rhs.type = "Boolean"
        BY <1>3
    <2>2. valueAsString(rhs) = [rhs EXCEPT !.v = TRUE]
        BY <2>1 DEF valueAsString
    <2>3. [rhs EXCEPT !.v = TRUE] \in [type : {"Boolean"}, form : {"value"}, v : BOOLEAN]
        BY <1>3
    <2> QED
        BY <2>2, <2>3 DEF RightHandSides
<1>4. CASE rhs = [type |-> "Null", form |-> "value"]
    BY <1>4 DEF valueAsString
<1> QED
    BY <1>1, <1>2, <1>3, <1>4 DEF RightHandSides

LEMMA RenderedNames ==
    ASSUME NEW l, NEW ctx
    PROVE  LET n == renderedName(l, ctx)
           IN  /\ n \in LeftHandSides
               /\ n.attributeName = "a" => [n EXCEPT !.compoundPath = "p"] \in LeftHandSides
               /\ [n EXCEPT !.compoundPath = Empty] \in LeftHandSides
<1> DEFINE n == renderedName(l, ctx)
<1>1. \/ n = [type |-> "q", metadataName |-> Empty, compoundPath |-> Empty, attributeName |-> "a"]
      \/ n = [type |-> "q", metadataName |-> Empty, compoundPath |-> Empty, attributeName |-> "other"]
    BY DEF renderedName
<1> QED
    BY <1>1 DEF LeftHandSides

(* It is one that the parser accepts, or none.                                *)
LEMMA RenderedIs ==
    ASSUME NEW f \in StringFilterItems, NEW ctx
    PROVE  render(f, ctx) \in StringFilterItems \cup {Unparsable}
<1> DEFINE lhs == renderedName(f.lhs, ctx)
           rhs == valueAsString(f.rhs)
           Path == IF lhs.attributeName = "a" THEN "p" ELSE Empty
<1>1. f.op \in Unary \/ IsComparison(f)
    BY Items
<1>2. lhs \in LeftHandSides /\ [lhs EXCEPT !.compoundPath = Path] \in LeftHandSides
    BY RenderedNames
<1>3. CASE f.op \in Unary
    <2>1. render(f, ctx) = [lhs |-> lhs, op |-> f.op]
        BY <1>3 DEF render, Unary
    <2> QED
        BY <1>2, <1>3, <2>1 DEF StringFilterItems
<1>4. CASE f.op = "MatchPattern"
    <2>1. f.op \notin Unary
        BY <1>4 DEF Unary
    <2>2. render(f, ctx) = [lhs |-> [lhs EXCEPT !.compoundPath = Path], op |-> "Exists"]
        BY <1>4, <2>1 DEF render
    <2> QED
        BY <1>2, <2>2 DEF StringFilterItems, Unary
<1>5. CASE f.op \notin Unary \cup {"MatchPattern"}
    <2>1. /\ f.op \in {"Equals", "Differs"} \cup Ordering
          /\ f.rhs \in RightHandSides
        BY <1>1, <1>5 DEF IsComparison, Patterns
    <2>2. render(f, ctx) = IF rhs # Unparsable /\ parse(f.op, rhs)
                           THEN [lhs |-> lhs, op |-> f.op, rhs |-> rhs] ELSE Unparsable
        BY <1>5 DEF render
    <2>3. CASE rhs # Unparsable /\ parse(f.op, rhs)
        <3>1. rhs \in RightHandSides
            BY <2>1, <2>3, RenderedValue
        <3>2. rhs.form # "pattern"
            BY <3>1 DEF RightHandSides
        <3>3. <<f.op, rhs>> \in Comparisons
            BY <1>5, <2>1, <2>3, <3>1, <3>2 DEF Comparisons
        <3>4. \E l \in LeftHandSides, c \in Comparisons :
                  [lhs |-> lhs, op |-> f.op, rhs |-> rhs] = [lhs |-> l, op |-> c[1], rhs |-> c[2]]
            <4> DEFINE c == <<f.op, rhs>>
            <4>1. c[1] = f.op /\ c[2] = rhs
                OBVIOUS
            <4> HIDE DEF c, lhs, rhs
            <4> QED
                BY <1>2, <3>3, <4>1 DEF c
        <3>5. [lhs |-> lhs, op |-> f.op, rhs |-> rhs]
                \in {[lhs |-> l, op |-> c[1], rhs |-> c[2]] : l \in LeftHandSides, c \in Comparisons}
            <4> HIDE DEF lhs, rhs
            <4> QED
                BY <3>4
        <3>6. render(f, ctx) = [lhs |-> lhs, op |-> f.op, rhs |-> rhs]
            BY <2>2, <2>3
        <3>7. render(f, ctx)
                \in {[lhs |-> l, op |-> c[1], rhs |-> c[2]] : l \in LeftHandSides, c \in Comparisons}
            <4> HIDE DEF lhs, rhs
            <4> QED
                BY <3>5, <3>6
        <3> QED
            BY <3>7 DEF StringFilterItems
    <2> QED
        BY <2>2, <2>3
<1> QED
    BY <1>3, <1>4, <1>5

(* The document can express it if it survives.                                *)
LEMMA SurvivorIsRendered ==
    ASSUME NEW f \in StringFilterItems, f.lhs.type = "q", NEW ctx, Survives(f, ctx)
    PROVE  render(f, ctx) = f
<1> DEFINE lhs == renderedName(f.lhs, ctx)
           rhs == valueAsString(f.rhs)
<1>1. f.lhs \in LeftHandSides /\ (f.op \in Unary \/ IsComparison(f))
    BY Items
<1>2. lhs = f.lhs
    <2>1. /\ ctx = "plain" /\ f.lhs.attributeName # "dateCreated" /\ f.lhs.compoundPath = Empty
        BY DEF Survives
    <2>2. \/ f.lhs \in [type : {"q"}, attributeName : {"a"}, metadataName : {Empty},
                        compoundPath : {Empty, "p"}]
          \/ f.lhs \in [type : {"q"}, attributeName : {"dateCreated", "other"},
                        metadataName : {Empty}, compoundPath : {Empty}]
        BY <1>1 DEF LeftHandSides
    <2> QED
        BY <2>1, <2>2 DEF renderedName
<1>3. CASE f.op \in Unary
    <2>1. render(f, ctx) = [lhs |-> lhs, op |-> f.op]
        BY <1>3 DEF render, Unary
    <2> QED
        BY <1>2, <1>3, <2>1, ItemsAre
<1>4. CASE f.op \notin Unary
    <2>1. /\ f.rhs.form = "value" /\ (f.rhs.type = "Boolean" => f.rhs.v)
          /\ f.rhs.type = "String" => Unquoted[f.rhs.v] = f.rhs
        BY <1>4 DEF Survives
    <2>2. f.op \in {"Equals", "Differs"} \cup Ordering /\ f.rhs \in RightHandSides
        BY <1>1, <1>4, <2>1 DEF IsComparison, Patterns
    <2>3. f.op # "MatchPattern"
        BY <2>2 DEF Ordering
    <2>4. rhs = f.rhs
        <3>1. CASE f.rhs \in [type : {"Number", "String"}, form : {"value"}, v : Numbers]
            BY <2>1, <3>1 DEF valueAsString
        <3>2. CASE f.rhs \in [type : {"Boolean"}, form : {"value"}, v : BOOLEAN]
            <4>1. f.rhs.type = "Boolean" /\ f.rhs.v = TRUE
                BY <2>1, <3>2
            <4>2. rhs = [f.rhs EXCEPT !.v = TRUE]
                BY <2>1, <4>1 DEF valueAsString
            <4>3. f.rhs = [type |-> f.rhs.type, form |-> f.rhs.form, v |-> f.rhs.v]
                BY <3>2
            <4> QED
                BY <4>1, <4>2, <4>3
        <3>3. CASE f.rhs = [type |-> "Null", form |-> "value"]
            BY <3>3 DEF valueAsString
        <3> QED
            BY <2>1, <2>2, <3>1, <3>2, <3>3 DEF RightHandSides
    <2>5. rhs # Unparsable
        <3>1. "form" \in DOMAIN f.rhs
            BY <2>2 DEF RightHandSides
        <3>2. "form" \notin DOMAIN Unparsable
            BY DEF Unparsable
        <3> QED
            BY <2>4, <3>1, <3>2
    <2>6. parse(f.op, f.rhs)
        BY <1>1, <1>4, <2>1 DEF IsComparison, parse, valueParse
    <2> QED
        BY <1>2, <1>4, <2>3, <2>4, <2>5, <2>6, ItemsAre DEF render
<1> QED
    BY <1>3, <1>4

-----------------------------------------------------------------------------
(* The document and the item.                                                 *)

LEMMA EmptyIsOther ==
    /\ Empty # "true" /\ Empty # "false" /\ Empty # "inactive"
    BY Zenon DEF Empty

(* An element of the list of entities of a document: without "isPattern" it   *)
(* has no id, and a pattern of types is not empty.                            *)
WellFormedEntity(en) ==
    /\ en.isPattern \in {"true", "false", Empty}
    /\ en.isPattern = Empty => en.id = Empty
    /\ en.isTypePattern \in BOOLEAN
    /\ en.isTypePattern => en.type # Empty

Filters == StringFilterItems \cup {None}

WellFormed(doc) ==
    /\ doc.servicePath \in ServicePaths
    /\ doc.expiration \in Int
    /\ doc.expression \in Filters \cup {Unparsable}
    /\ doc.ldContext = Empty => doc.expression # Unparsable
    /\ \A i \in DOMAIN doc.entities : WellFormedEntity(doc.entities[i])

IsItem(i) ==
    /\ i = [servicePath |-> i.servicePath, expirationTime |-> i.expirationTime,
            status |-> i.status, entityIdInfos |-> i.entityIdInfos,
            notifyConditionV |-> i.notifyConditionV, stringFilter |-> i.stringFilter,
            attributes |-> i.attributes, blacklist |-> i.blacklist, metadata |-> i.metadata]
    /\ i.stringFilter \in Filters

(* The same entities match two lists.                                         *)
SameMatch(ei1, ei2) ==
    \A u \in EntityUpdates : EntityInfoMatch(ei1, u) <=> EntityInfoMatch(ei2, u)

SameInfos(infos1, infos2) ==
    /\ DOMAIN infos1 = DOMAIN infos2
    /\ \A i \in DOMAIN infos1 : SameMatch(infos1[i], infos2[i])

(* The filter of an item, unless it is one that the document cannot express.  *)
LostFilter(it, doc) ==
    /\ doc.ldContext # Empty /\ it.stringFilter # None
    /\ ~Survives(it.stringFilter, doc.ldContext)

KeepsFilter(it, doc, s) ==
    \/ LostFilter(it, doc)
    \/ /\ "subject" \in s => it.stringFilter = doc.expression
       /\ doc.expression # Unparsable

(* An item of which the sections s are as up to date as in a fresh one.       *)
Agrees(it, fresh, s) ==
    /\ "servicePath" \in s => it.servicePath = fresh.servicePath
    /\ it.expirationTime = fresh.expirationTime
    /\ it.status = "inactive" <=> fresh.status = "inactive"
    /\ SameInfos(it.entityIdInfos, fresh.entityIdInfos)
    /\ it.notifyConditionV = fresh.notifyConditionV
    /\ it.attributes = fresh.attributes
    /\ it.blacklist = fresh.blacklist

(* The inductive invariant.                                                   *)
MatchingInv ==
    /\ csub # None => WellFormed(csub)
    /\ item # None => IsItem(item)
    /\ (csub # None /\ item # None /\ csub.entities # <<>>) =>
            Agrees(item, ItemOfRefresh(csub), from) /\ KeepsFilter(item, csub, from)

LEMMA SameInfosRefl ==
    ASSUME NEW infos
    PROVE  SameInfos(infos, infos)
    BY DEF SameInfos, SameMatch

LEMMA RequestIs ==
    ASSUME NEW r \in Creations \cup Updates
    PROVE  IsRequest(r)
    BY MatchingAssumption

LEMMA setServicePathIs ==
    ASSUME NEW v \in Seq(ServicePaths)
    PROVE  setServicePath(v) \in ServicePaths
<1>1. All \in ServicePaths
    BY DEF All, ServicePaths
<1>2. v # <<>> => v[1] \in ServicePaths
    OBVIOUS
<1> QED
    BY <1>1, <1>2 DEF setServicePath

LEMMA setEntitiesIs ==
    ASSUME NEW es \in Seq(EntIDs)
    PROVE  /\ DOMAIN setEntities(es) = DOMAIN es
           /\ \A i \in DOMAIN es : WellFormedEntity(setEntities(es)[i])
<1>1. DOMAIN setEntities(es) = DOMAIN es
    BY DEF setEntities
<1>2. ASSUME NEW i \in DOMAIN es
      PROVE  WellFormedEntity(setEntities(es)[i])
    <2> DEFINE en == es[i]
               d  == setEntities(es)[i]
    <2>1. d = [id            |-> IF en.idPattern # Empty THEN en.idPattern ELSE en.id,
               isPattern     |-> CASE en.idPattern # Empty -> "true"
                                   [] en.idPattern = Empty /\ en.id # Empty -> "false"
                                   [] en.idPattern = Empty /\ en.id = Empty -> Empty,
               type          |-> IF en.typePattern # Empty THEN en.typePattern ELSE en.type,
               isTypePattern |-> en.typePattern # Empty]
        BY <1>2 DEF setEntities
    <2>2. /\ d.isPattern = CASE en.idPattern # Empty -> "true"
                              [] en.idPattern = Empty /\ en.id # Empty -> "false"
                              [] en.idPattern = Empty /\ en.id = Empty -> Empty
          /\ d.id = IF en.idPattern # Empty THEN en.idPattern ELSE en.id
          /\ d.isTypePattern = (en.typePattern # Empty)
          /\ d.type = IF en.typePattern # Empty THEN en.typePattern ELSE en.type
        BY <2>1
    <2>3. d.isPattern \in {"true", "false", Empty} /\ (d.isPattern = Empty => d.id = Empty)
        BY <2>2, EmptyIsOther
    <2>4. d.isTypePattern \in BOOLEAN /\ (d.isTypePattern => d.type # Empty)
        BY <2>2
    <2> QED
        BY <2>3, <2>4 DEF WellFormedEntity
<1> QED
    BY <1>1, <1>2

(* Creation: the item made from the request is as the one made from the       *)
(* document that is made from the request.                                    *)
LEMMA CreatedInfosAgree ==
    ASSUME NEW r, IsRequest(r)
    PROVE  SameInfos(subCacheItemInsert(r).entityIdInfos, EntityInfos(Document(r)))
<1> DEFINE es    == r.subject.entities
           infos == subCacheItemInsert(r).entityIdInfos
           fresh == EntityInfos(Document(r))
<1>1. es \in Seq(EntIDs)
    BY DEF IsRequest
<1>2. DOMAIN infos = DOMAIN es
    BY DEF subCacheItemInsert
<1>3. Document(r).entities = setEntities(es)
    BY DEF Document
<1>4. DOMAIN fresh = DOMAIN es
    BY <1>1, <1>3, setEntitiesIs DEF EntityInfos
<1>5. ASSUME NEW i \in DOMAIN es, NEW u \in EntityUpdates
      PROVE  EntityInfoMatch(infos[i], u) <=> EntityInfoMatch(fresh[i], u)
    <2> DEFINE en  == es[i]
               d   == setEntities(es)[i]
               any == d.isPattern = Empty /\ d.id = Empty
    <2>1. en \in EntIDs
        BY <1>1
    <2>2. infos[i] = [entityId      |-> IF en.id = Empty THEN en.idPattern ELSE en.id,
                      entityType    |-> IF en.type = Empty THEN en.typePattern ELSE en.type,
                      isPattern     |-> (IF en.id = Empty THEN "true" ELSE "false") = "true",
                      isTypePattern |-> en.type = Empty]
        BY DEF subCacheItemInsert, EntityInfo
    <2>3. d = [id            |-> IF en.idPattern # Empty THEN en.idPattern ELSE en.id,
               isPattern     |-> CASE en.idPattern # Empty -> "true"
                                   [] en.idPattern = Empty /\ en.id # Empty -> "false"
                                   [] en.idPattern = Empty /\ en.id = Empty -> Empty,
               type          |-> IF en.typePattern # Empty THEN en.typePattern ELSE en.type,
               isTypePattern |-> en.typePattern # Empty]
        BY DEF setEntities
    <2>4. fresh[i] = [entityId      |-> IF any THEN ".*" ELSE d.id,
                      entityType    |-> d.type,
                      isPattern     |-> (IF any THEN "true" ELSE d.isPattern) = "true",
                      isTypePattern |-> d.isTypePattern]
        BY <1>3, <1>4 DEF EntityInfos, EntityInfo
    <2>5. /\ regexec(Empty, u.id) /\ regexec(".*", u.id)
          /\ regexec(Empty, u.type)
        BY MatchingAssumption DEF regexec, EntityUpdates
    <2>6. (en.id = Empty \/ en.idPattern = Empty) /\ (en.type = Empty \/ en.typePattern = Empty)
        BY <2>1 DEF EntIDs
    <2>7. (IF infos[i].isPattern THEN regexec(infos[i].entityId, u.id) ELSE u.id = infos[i].entityId)
          <=> (IF fresh[i].isPattern THEN regexec(fresh[i].entityId, u.id)
               ELSE u.id = fresh[i].entityId)
        <3>1. /\ infos[i].isPattern = (en.id = Empty)
              /\ infos[i].entityId = IF en.id = Empty THEN en.idPattern ELSE en.id
            BY <2>2
        <3>2. /\ fresh[i].isPattern = ((IF any THEN "true" ELSE d.isPattern) = "true")
              /\ fresh[i].entityId = IF any THEN ".*" ELSE d.id
            BY <2>4
        <3>3. CASE en.id # Empty
            <4>1. d.id = en.id /\ d.isPattern = "false"
                BY <2>3, <2>6, <3>3
            <4> QED
                BY <3>1, <3>2, <3>3, <4>1
        <3>4. CASE en.id = Empty /\ en.idPattern # Empty
            <4>1. d.id = en.idPattern /\ d.isPattern = "true"
                BY <2>3, <3>4
            <4> QED
                BY <3>1, <3>2, <3>4, <4>1
        <3>5. CASE en.id = Empty /\ en.idPattern = Empty
            <4>1. d.id = Empty /\ d.isPattern = Empty
                BY <2>3, <3>5
            <4> QED
                BY <2>5, <3>1, <3>2, <3>5, <4>1
        <3> QED
            BY <3>3, <3>4, <3>5
    <2>8. (IF infos[i].isTypePattern THEN regexec(infos[i].entityType, u.type)
           ELSE u.type = Empty \/ infos[i].entityType = Empty \/ infos[i].entityType = u.type)
          <=> (IF fresh[i].isTypePattern THEN regexec(fresh[i].entityType, u.type)
               ELSE u.type = Empty \/ fresh[i].entityType = Empty \/ fresh[i].entityType = u.type)
        <3>1. /\ infos[i].isTypePattern = (en.type = Empty)
              /\ infos[i].entityType = IF en.type = Empty THEN en.typePattern ELSE en.type
            BY <2>2
        <3>2. /\ fresh[i].isTypePattern = (en.typePattern # Empty)
              /\ fresh[i].entityType = IF en.typePattern # Empty THEN en.typePattern ELSE en.type
            <4>1. /\ d.isTypePattern = (en.typePattern # Empty)
                  /\ d.type = IF en.typePattern # Empty THEN en.typePattern ELSE en.type
                BY <2>3
            <4> QED
                BY <2>4, <4>1
        <3> QED
            BY <2>5, <2>6, <3>1, <3>2
    <2> QED
        BY <2>7, <2>8 DEF EntityInfoMatch
<1> QED
    BY <1>2, <1>4, <1>5 DEF SameInfos, SameMatch

(* The filter in the document is the one of the request unless it is lost.    *)
LEMMA ExpressionIs ==
    ASSUME NEW r, IsRequest(r)
    PROVE  /\ Expression(r) \in Filters \cup {Unparsable}
           /\ (\/ r.ldContext = Empty \/ r.subject.filter = None
               \/ Survives(r.subject.filter, r.ldContext)) =>
                    Expression(r) = r.subject.filter /\ Expression(r) # Unparsable
<1> DEFINE f == r.subject.filter
<1>1. f \in StringFilterItems \cup {None}
    BY DEF IsRequest
<1>2. None # Unparsable
    BY DEF None, Unparsable
<1>3. CASE r.ldContext = Empty \/ f = None
    BY <1>1, <1>2, <1>3, ItemIsParsed DEF Expression, Filters
<1>4. CASE r.ldContext # Empty /\ f # None
    <2>1. f.lhs.type = "q" /\ f \in StringFilterItems
        BY <1>1, <1>4 DEF IsRequest
    <2>2. Expression(r) = render(f, r.ldContext)
        BY <1>4 DEF Expression
    <2>3. Expression(r) \in Filters \cup {Unparsable}
        BY <2>1, <2>2, RenderedIs DEF Filters
    <2>4. Survives(f, r.ldContext) => Expression(r) = f /\ Expression(r) # Unparsable
        BY <2>1, <2>2, SurvivorIsRendered, ItemIsParsed
    <2> QED
        BY <1>4, <2>3, <2>4
<1> QED
    BY <1>3, <1>4

LEMMA CreateInv ==
    ASSUME NEW r \in Creations, Create(r)
    PROVE  MatchingInv'
<1> DEFINE it    == subCacheItemInsert(r)
           doc   == Document(r)
           fresh == ItemOfRefresh(doc)
<1>1. IsRequest(r)
    BY RequestIs
<1>2. item' = it /\ (csub' = doc \/ csub' = None) /\ from' = Sections
    BY DEF Create
<1>3. IsItem(it)
    BY <1>1 DEF IsItem, subCacheItemInsert, IsRequest, Filters
<1>4. WellFormed(doc)
    <2>1. /\ doc.servicePath = setServicePath(r.servicePathV) /\ doc.expiration = r.expires
          /\ doc.expression = Expression(r) /\ doc.entities = setEntities(r.subject.entities)
          /\ doc.ldContext = r.ldContext
        BY DEF Document
    <2> QED
        BY <1>1, <2>1, ExpressionIs, setServicePathIs, setEntitiesIs DEF WellFormed, IsRequest
<1>5. Agrees(it, fresh, Sections)
    <2>1. SameInfos(it.entityIdInfos, fresh.entityIdInfos)
        BY <1>1, CreatedInfosAgree DEF ItemOfRefresh
    <2>2. it.status = "inactive" <=> fresh.status = "inactive"
        <3>1. it.status = r.status /\ fresh.status = setStatus(r.status)
            BY DEF subCacheItemInsert, ItemOfRefresh, Document
        <3> QED
            BY <3>1, EmptyIsOther DEF setStatus
    <2>3. /\ it.servicePath = fresh.servicePath
          /\ it.expirationTime = fresh.expirationTime
          /\ it.notifyConditionV = fresh.notifyConditionV
          /\ it.attributes = fresh.attributes /\ it.blacklist = fresh.blacklist
        BY DEF subCacheItemInsert, ItemOfRefresh, Document
    <2> QED
        BY <2>1, <2>2, <2>3 DEF Agrees
<1>6. KeepsFilter(it, doc, Sections)
    <2>1. /\ it.stringFilter = r.subject.filter
          /\ doc.expression = Expression(r) /\ doc.ldContext = r.ldContext
        BY DEF subCacheItemInsert, Document
    <2> QED
        BY <1>1, <2>1, ExpressionIs DEF KeepsFilter, LostFilter
<1> QED
    BY <1>2, <1>3, <1>4, <1>5, <1>6 DEF MatchingInv

LEMMA UpdateInv ==
    ASSUME MatchingInv, NEW r \in Updates, Update(r)
    PROVE  MatchingInv'
<1> DEFINE doc   == UpdatedDocument(r, csub)
           it    == ItemOfUpdate(r, doc, item)
           fresh == ItemOfRefresh(doc)
<1>1. IsRequest(r)
    BY RequestIs
<1>2. /\ csub # None /\ WellFormed(csub) /\ csub' = doc
      /\ csub.ldContext = Empty /\ r.ldContext = Empty
    BY MatchingAssumption DEF Update, MatchingInv
<1>3. WellFormed(doc)
    <2>1. doc.servicePath \in ServicePaths
        BY <1>1, setServicePathIs DEF UpdatedDocument, IsRequest
    <2>2. doc.expiration \in Int
        BY <1>1, <1>2 DEF UpdatedDocument, IsRequest, WellFormed
    <2>3. doc.expression \in Filters \cup {Unparsable} /\ doc.expression # Unparsable
        <3>1. doc.expression \in {Expression(r), csub.expression}
            BY DEF UpdatedDocument
        <3> QED
            BY <1>1, <1>2, <3>1, ExpressionIs DEF WellFormed
    <2>4. \A i \in DOMAIN doc.entities : WellFormedEntity(doc.entities[i])
        <3>1. doc.entities \in {setEntities(r.subject.entities), csub.entities}
            BY DEF UpdatedDocument
        <3> QED
            BY <1>1, <1>2, <3>1, setEntitiesIs DEF IsRequest, WellFormed
    <2> QED
        BY <2>1, <2>2, <2>3, <2>4 DEF WellFormed
<1>4. CASE item = None \/ doc.entities = <<>>
    <2>1. item' = item
        BY <1>2, <1>4 DEF Update
    <2> QED
        BY <1>2, <1>3, <1>4, <2>1 DEF MatchingInv
<1>5. CASE item # None /\ doc.entities # <<>>
    <2>1. item' = it /\ from' = r.sections
        BY <1>2, <1>5 DEF Update
    <2>2. IsItem(it)
        BY <1>1 DEF IsItem, ItemOfUpdate, IsRequest, Filters
    <2>3. Agrees(it, fresh, r.sections)
        <3>1. "servicePath" \notin r.sections
            BY MatchingAssumption
        <3>3. /\ it.expirationTime = fresh.expirationTime /\ it.status = fresh.status
              /\ it.entityIdInfos = fresh.entityIdInfos
              /\ it.notifyConditionV = fresh.notifyConditionV
              /\ it.attributes = fresh.attributes /\ it.blacklist = fresh.blacklist
            BY DEF ItemOfUpdate, ItemOfRefresh
        <3> QED
            BY <3>1, <3>3, SameInfosRefl DEF Agrees
    <2>4. KeepsFilter(it, doc, r.sections)
        <3>1. "subject" \in r.sections => it.stringFilter = r.subject.filter
            BY DEF ItemOfUpdate
        <3>2. "subject" \in r.sections => doc.expression = r.subject.filter
            BY <1>2 DEF UpdatedDocument, Expression
        <3>3. doc.expression # Unparsable
            BY <1>2, <1>3 DEF WellFormed, UpdatedDocument
        <3> QED
            BY <3>1, <3>2, <3>3 DEF KeepsFilter
    <2> QED
        BY <1>2, <1>3, <2>1, <2>2, <2>3, <2>4 DEF MatchingInv
<1> QED
    BY <1>4, <1>5

LEMMA RefreshInv ==
    ASSUME MatchingInv, Refresh
    PROVE  MatchingInv'
<1> DEFINE fresh == ItemOfRefresh(csub)
<1>1. /\ csub' = csub
      /\ item' = None \/ (csub # None /\ csub.expression # Unparsable /\ item' = fresh)
    BY DEF Refresh, mongoSubCacheItemInsert
<1>2. (csub # None /\ csub.expression # Unparsable) =>
        IsItem(fresh) /\ KeepsFilter(fresh, csub, from')
    BY DEF MatchingInv, WellFormed, IsItem, ItemOfRefresh, KeepsFilter
<1>3. Agrees(fresh, fresh, from')
    BY SameInfosRefl DEF Agrees
<1> QED
    BY <1>1, <1>2, <1>3 DEF MatchingInv

(* MatchingInv holds in every state.                                          *)
THEOREM MatchingInvariant == Spec => []MatchingInv
<1>1. Init => MatchingInv
    BY DEF Init, MatchingInv
<1>2. MatchingInv /\ [Next]_vars => MatchingInv'
    <2> SUFFICES ASSUME MatchingInv, [Next]_vars PROVE MatchingInv'
        OBVIOUS
    <2>1. CASE \E r \in Creations : Create(r)
        BY <2>1, CreateInv
    <2>2. CASE \E r \in Updates : Update(r)
        BY <2>2, UpdateInv
    <2>3. CASE Refresh
        BY <2>3, RefreshInv
    <2>4. CASE UNCHANGED vars
        BY <2>4 DEF vars, MatchingInv
    <2> QED
        BY <2>1, <2>2, <2>3, <2>4 DEF Next
<1> QED
    BY <1>1, <1>2, PTL DEF Spec

(* Whatever filters come with the requests, a filter in the cache accepts the *)
(* entities that the same filter finds in a query, up to the known exceptions. *)
THEOREM FilterAgrees == Spec => []FilterDecidesAsQuery
<1>1. MatchingInv => FilterDecidesAsQuery
    BY FilterMatchIs DEF MatchingInv, IsItem, Filters, FilterDecidesAsQuery
<1> QED
    BY <1>1, MatchingInvariant, PTL

(* Two items that agree are triggered by the same updates of entities, if     *)
(* they have the same service path.                                           *)
LEMMA SameTriggers ==
    ASSUME NEW it, NEW fresh, NEW s, Agrees(it, fresh, s), it.servicePath = fresh.servicePath,
           NEW u \in EntityUpdates
    PROVE  withCache(it, u) <=> withCache(fresh, u)
<1>1. servicePathMatch(it, u) <=> servicePathMatch(fresh, u)
    BY DEF servicePathMatch
<1>2. attributeMatch(it, u) <=> attributeMatch(fresh, u)
    BY DEF attributeMatch, Agrees
<1>3. (\E i \in DOMAIN it.entityIdInfos : EntityInfoMatch(it.entityIdInfos[i], u))
      <=> (\E i \in DOMAIN fresh.entityIdInfos : EntityInfoMatch(fresh.entityIdInfos[i], u))
    BY DEF Agrees, SameInfos, SameMatch
<1>4. /\ it.expirationTime = fresh.expirationTime
      /\ it.status = "inactive" <=> fresh.status = "inactive"
    BY DEF Agrees
<1> QED
    BY <1>1, <1>2, <1>3, <1>4 DEF withCache, subMatch

(* A refresh is not visible, whatever requests made the item and whatever     *)
(* filter it has, but for the filters of NGSI-LD that a document cannot       *)
(* express, and the exceptions that RefreshChangesNoDecision names.           *)
THEOREM RefreshIsInvisible == Spec => []RefreshChangesNoDecision
<1>1. MatchingInv => RefreshChangesNoDecision
    <2> SUFFICES ASSUME MatchingInv, csub # None, item # None, csub.entities # <<>>
                 PROVE  LET loaded == mongoSubCacheItemInsert(csub)
                            lost   == LostFilter(item, csub)
                        IN  /\ lost \/ loaded # None
                            /\ loaded # None =>
                                /\ ("subject" \in from /\ ~lost) =>
                                        item.stringFilter = loaded.stringFilter
                                /\ "servicePath" \in from => item.servicePath = loaded.servicePath
                                /\ item.attributes = loaded.attributes
                                /\ item.blacklist = loaded.blacklist
                                /\ \A u \in EntityUpdates :
                                    withCache([item EXCEPT !.servicePath = loaded.servicePath], u)
                                        = withCache(loaded, u)
        BY DEF RefreshChangesNoDecision, LostFilter
    <2> DEFINE fresh == ItemOfRefresh(csub)
               moved == [item EXCEPT !.servicePath = fresh.servicePath]
    <2>1. Agrees(item, fresh, from) /\ IsItem(item) /\ KeepsFilter(item, csub, from)
        BY DEF MatchingInv
    <2>5. mongoSubCacheItemInsert(csub) = IF csub.expression = Unparsable THEN None ELSE fresh
        BY DEF mongoSubCacheItemInsert
    <2>6. fresh # None
        BY DEF ItemOfRefresh, None
    <2>7. fresh.stringFilter = csub.expression
        BY DEF ItemOfRefresh
    <2>8. LostFilter(item, csub) \/ mongoSubCacheItemInsert(csub) # None
        BY <2>1, <2>5, <2>6 DEF KeepsFilter
    <2>9. ("subject" \in from /\ ~LostFilter(item, csub)) => item.stringFilter = fresh.stringFilter
        BY <2>1, <2>7 DEF KeepsFilter
    <2>2. /\ moved.servicePath = fresh.servicePath
          /\ moved.expirationTime = item.expirationTime /\ moved.status = item.status
          /\ moved.entityIdInfos = item.entityIdInfos
          /\ moved.notifyConditionV = item.notifyConditionV
          /\ moved.stringFilter = item.stringFilter
          /\ moved.attributes = item.attributes /\ moved.blacklist = item.blacklist
        BY <2>1 DEF IsItem
    <2>3. Agrees(moved, fresh, from)
        BY <2>1, <2>2 DEF Agrees
    <2>4. ASSUME NEW u \in EntityUpdates
          PROVE  withCache(moved, u) = withCache(fresh, u)
        <3>1. withCache(moved, u) <=> withCache(fresh, u)
            BY <2>2, <2>3, SameTriggers
        <3>2. withCache(moved, u) \in BOOLEAN /\ withCache(fresh, u) \in BOOLEAN
            BY DEF withCache
        <3> QED
            BY <3>1, <3>2
    <2>10. /\ "servicePath" \in from => item.servicePath = fresh.servicePath
           /\ item.attributes = fresh.attributes /\ item.blacklist = fresh.blacklist
        BY <2>1 DEF Agrees
    <2>11. CASE csub.expression = Unparsable
        BY <2>5, <2>8, <2>11
    <2>12. CASE csub.expression # Unparsable
        <3>1. mongoSubCacheItemInsert(csub) = fresh
            BY <2>5, <2>12
        <3> HIDE DEF fresh
        <3> QED
            BY <2>4, <2>8, <2>9, <2>10, <3>1
    <2> QED
        BY <2>11, <2>12
<1> QED
    BY <1>1, MatchingInvariant, PTL

-----------------------------------------------------------------------------
(* The cache and the query.                                                   *)

LEMMA PrefixIs ==
    ASSUME NEW s \in Seq(STRING), NEW t \in Seq(STRING)
    PROVE  /\ IsPrefix(s, t) <=> (Len(s) <= Len(t) /\ s = SubSeq(t, 1, Len(s)))
           /\ t = SubSeq(t, 1, Len(t))
           /\ \A n \in 1 .. Len(t) : Len(SubSeq(t, 1, n)) = n
<1>1. s = SubSeq(s, 1, Len(s)) /\ t = SubSeq(t, 1, Len(t))
    OBVIOUS
<1>2. ASSUME NEW n \in 1 .. Len(t)
      PROVE  Len(SubSeq(t, 1, n)) = n
    BY <1>2
<1> QED
    BY <1>1, <1>2 DEF IsPrefix

(* The regular expression of the query stands for the service paths that      *)
(* servicePathMatch accepts.                                                  *)
LEMMA ServicePathsAgree ==
    ASSUME NEW cSub, NEW u, cSub.servicePath \in ServicePaths, u.path \in Seq(STRING)
    PROVE  servicePathMatch(cSub, u) <=> cSub.servicePath \in servicePathSubscriptionRegex(u.path)
<1> DEFINE spath == cSub.servicePath
           path  == u.path
<1>1. /\ spath = [at |-> spath.at, all |-> spath.all]
      /\ spath.at \in Seq(STRING) /\ spath.all \in BOOLEAN
    BY DEF ServicePaths
<1>2. spath \in servicePathSubscriptionRegex(path)
      <=> \/ spath = All \/ spath = [at |-> path, all |-> FALSE]
          \/ \E n \in 1 .. Len(path) : spath = [at |-> SubSeq(path, 1, n), all |-> TRUE]
    BY DEF servicePathSubscriptionRegex
<1>3. ASSUME NEW p, NEW b \in BOOLEAN
      PROVE  spath = [at |-> p, all |-> b] <=> spath.at = p /\ spath.all = b
    BY <1>1
<1>4. spath \in servicePathSubscriptionRegex(path)
      <=> \/ spath.at = <<>> /\ spath.all = TRUE
          \/ spath.at = path /\ spath.all = FALSE
          \/ \E n \in 1 .. Len(path) : spath.at = SubSeq(path, 1, n) /\ spath.all = TRUE
    BY <1>2, <1>3 DEF All
<1>5. CASE spath.all = FALSE
    BY <1>4, <1>5 DEF servicePathMatch
<1>6. CASE spath.all = TRUE /\ spath.at = <<>>
    <2>1. IsPrefix(spath.at, path)
        BY <1>6, PrefixIs DEF IsPrefix
    <2> QED
        BY <1>4, <1>6, <2>1 DEF servicePathMatch
<1>7. CASE spath.all = TRUE /\ spath.at # <<>>
    <2> DEFINE k == Len(spath.at)
    <2>1. k \in Nat /\ k >= 1 /\ Len(path) \in Nat
        BY <1>1, <1>7
    <2>2. servicePathMatch(cSub, u) <=> path = spath.at \/ (IsPrefix(spath.at, path) /\ Len(path) > k)
        BY <1>7 DEF servicePathMatch
    <2>3. ASSUME servicePathMatch(cSub, u)
          PROVE  \E n \in 1 .. Len(path) : spath.at = SubSeq(path, 1, n)
        BY <1>1, <2>1, <2>2, <2>3, PrefixIs
    <2>4. ASSUME NEW n \in 1 .. Len(path), spath.at = SubSeq(path, 1, n)
          PROVE  servicePathMatch(cSub, u)
        <3>1. k = n
            BY <2>4, PrefixIs
        <3>2. CASE n = Len(path)
            BY <2>2, <2>4, <3>2, PrefixIs
        <3>3. CASE n # Len(path)
            <4>1. k < Len(path) /\ spath.at = SubSeq(path, 1, k)
                BY <2>1, <2>4, <3>1, <3>3
            <4>2. IsPrefix(spath.at, path)
                BY <1>1, <2>1, <4>1, PrefixIs
            <4> QED
                BY <2>1, <2>2, <4>1, <4>2
        <3> QED
            BY <3>2, <3>3
    <2> QED
        BY <1>4, <1>7, <2>3, <2>4
<1> QED
    BY <1>1, <1>5, <1>6, <1>7

(* What one element of the list says of an entity.                            *)
IdFits(en, u) == IF en.isPattern = "true" THEN regexec(en.id, u.id) ELSE en.id = u.id
TypeFits(en, u) ==
    IF en.isTypePattern THEN regexec(en.type, u.type) ELSE en.type \in {Empty, u.type}

LEMMA InfosSay ==
    ASSUME NEW doc, WellFormed(doc), NEW u \in EntityUpdates, u.type # Empty,
           \A i \in DOMAIN doc.entities : doc.entities[i].isPattern # Empty
    PROVE  LET infos == EntityInfos(doc)
           IN  (\E i \in DOMAIN infos : EntityInfoMatch(infos[i], u))
               <=> (\E i \in DOMAIN doc.entities :
                        IdFits(doc.entities[i], u) /\ TypeFits(doc.entities[i], u))
<1> DEFINE infos == EntityInfos(doc)
<1>1. DOMAIN infos = DOMAIN doc.entities
    BY DEF EntityInfos
<1>2. ASSUME NEW i \in DOMAIN doc.entities
      PROVE  EntityInfoMatch(infos[i], u) <=> IdFits(doc.entities[i], u) /\ TypeFits(doc.entities[i], u)
    <2> DEFINE en == doc.entities[i]
               any == en.isPattern = Empty /\ en.id = Empty
    <2>1. infos[i] = [entityId      |-> IF any THEN ".*" ELSE en.id,
                      entityType    |-> en.type,
                      isPattern     |-> (IF any THEN "true" ELSE en.isPattern) = "true",
                      isTypePattern |-> en.isTypePattern]
        BY DEF EntityInfos, EntityInfo
    <2>2. ~any
        OBVIOUS
    <2>3. /\ infos[i].entityId = en.id /\ infos[i].entityType = en.type
          /\ infos[i].isPattern = (en.isPattern = "true")
          /\ infos[i].isTypePattern = en.isTypePattern
        BY <2>1, <2>2
    <2> QED
        BY <2>3 DEF EntityInfoMatch, IdFits, TypeFits
<1> QED
    BY <1>1, <1>2

(* The exceptions of CacheDecidesAsQuery, apart from the times.               *)
OneType(doc) ==
    \A i, j \in DOMAIN doc.entities :
        /\ doc.entities[i].type = doc.entities[j].type
        /\ doc.entities[i].isTypePattern = doc.entities[j].isTypePattern

Misspelt(doc, u) ==
    \E i \in DOMAIN doc.entities :
        LET en == doc.entities[i]
        IN  en.isPattern = "true" /\ en.id = u.id /\ ~regexec(en.id, u.id)

(* The four parts of the query, one for each kind of element, find together   *)
(* what some element of the list says.                                        *)
LEMMA PartsAgree ==
    ASSUME NEW doc, WellFormed(doc), NEW u \in EntityUpdates, u.type # Empty,
           \A i \in DOMAIN doc.entities : doc.entities[i].isPattern # Empty,
           OneType(doc), ~Misspelt(doc, u)
    PROVE  (\E i \in DOMAIN doc.entities :
                IdFits(doc.entities[i], u) /\ TypeFits(doc.entities[i], u))
           <=> (\/ fill_idNPtypeNP(doc, u) \/ fill_idPtypeNP(doc, u)
                \/ fill_idNPtypeP(doc, u) \/ fill_idPtypeP(doc, u))
<1> DEFINE es == doc.entities
           Says(i) == IdFits(es[i], u) /\ TypeFits(es[i], u)
<1>1. \A i \in DOMAIN es : es[i].isPattern \in {"true", "false"}
    BY DEF WellFormed, WellFormedEntity
<1>2. \A i, j \in DOMAIN es : es[i].type = es[j].type /\ es[i].isTypePattern = es[j].isTypePattern
    BY DEF OneType
<1>3. \A i \in DOMAIN es : (es[i].isPattern = "true" /\ es[i].id = u.id) => regexec(es[i].id, u.id)
    BY DEF Misspelt
<1>4. ASSUME NEW i \in DOMAIN es, Says(i), es[i].isTypePattern
      PROVE  fill_idNPtypeP(doc, u) \/ fill_idPtypeP(doc, u)
    BY <1>1, <1>4 DEF IdFits, TypeFits, fill_idNPtypeP, fill_idPtypeP, Some
<1>5. ASSUME NEW i \in DOMAIN es, Says(i), ~es[i].isTypePattern
      PROVE  fill_idNPtypeNP(doc, u) \/ fill_idPtypeNP(doc, u)
    <2>1. \A j \in DOMAIN es : ~es[j].isTypePattern /\ es[j].type = es[i].type
        BY <1>2, <1>5
    <2>2. es[i].type \in {Empty, u.type}
        BY <1>5 DEF TypeFits
    <2>3. CASE es[i].isPattern = "true"
        BY <1>5, <2>1, <2>2, <2>3 DEF IdFits, fill_idPtypeNP, Some
    <2>4. CASE es[i].isPattern = "false"
        <3>1. es[i].id = u.id
            BY <1>5, <2>4 DEF IdFits
        <3> QED
            BY <1>5, <2>1, <2>2, <2>4, <3>1 DEF fill_idNPtypeNP, Some
    <2> QED
        BY <1>1, <2>3, <2>4
<1>6. ASSUME fill_idNPtypeNP(doc, u)
      PROVE  \E i \in DOMAIN es : Says(i)
    <2>1. PICK i \in DOMAIN es : es[i].id = u.id
        BY <1>6 DEF fill_idNPtypeNP, Some
    <2>2. ~es[i].isTypePattern
        BY <1>6 DEF fill_idNPtypeNP, Some
    <2>3. IdFits(es[i], u)
        BY <1>3, <2>1 DEF IdFits
    <2>4. es[i].type \in {Empty, u.type}
        BY <1>2, <1>6 DEF fill_idNPtypeNP, Some
    <2> QED
        BY <2>2, <2>3, <2>4 DEF TypeFits
<1>7. ASSUME fill_idPtypeNP(doc, u)
      PROVE  \E i \in DOMAIN es : Says(i)
    BY <1>7 DEF fill_idPtypeNP, Some, IdFits, TypeFits
<1>8. ASSUME fill_idNPtypeP(doc, u)
      PROVE  \E i \in DOMAIN es : Says(i)
    BY <1>8 DEF fill_idNPtypeP, Some, IdFits, TypeFits
<1>9. ASSUME fill_idPtypeP(doc, u)
      PROVE  \E i \in DOMAIN es : Says(i)
    BY <1>9 DEF fill_idPtypeP, Some, IdFits, TypeFits
<1> QED
    BY <1>4, <1>5, <1>6, <1>7, <1>8, <1>9

(* Outside the exceptions, a refreshed item and its document are found for    *)
(* the same updates of entities.                                              *)
LEMMA RefreshedAgrees ==
    ASSUME NEW doc, WellFormed(doc), doc.ldContext = Empty, NEW u \in EntityUpdates,
           u.type # Empty, u.now # doc.expiration,
           \A i \in DOMAIN doc.entities : doc.entities[i].isPattern # Empty,
           OneType(doc), ~Misspelt(doc, u)
    PROVE  withCache(ItemOfRefresh(doc), u) <=> noCache(doc, u) = "trigger"
<1> DEFINE it == ItemOfRefresh(doc)
<1>1. /\ it.servicePath = doc.servicePath /\ it.expirationTime = doc.expiration
      /\ it.status = doc.status /\ it.entityIdInfos = EntityInfos(doc)
      /\ it.notifyConditionV = doc.conditions
    BY DEF ItemOfRefresh
<1>2. u.path \in Seq(STRING) /\ u.now \in Int /\ doc.expiration \in Int
    BY MatchingAssumption DEF EntityUpdates, WellFormed
<1>3. servicePathMatch(it, u) <=> doc.servicePath \in servicePathSubscriptionRegex(u.path)
    BY <1>1, <1>2, ServicePathsAgree DEF WellFormed
<1>4. attributeMatch(it, u) <=> condValueAttrMatch(doc, u)
    BY <1>1 DEF attributeMatch, condValueAttrMatch
<1>5. (\E i \in DOMAIN it.entityIdInfos : EntityInfoMatch(it.entityIdInfos[i], u))
      <=> (\/ fill_idNPtypeNP(doc, u) \/ fill_idPtypeNP(doc, u)
           \/ fill_idNPtypeP(doc, u) \/ fill_idPtypeP(doc, u))
    BY <1>1, InfosSay, PartsAgree
<1>6. ~(it.expirationTime < u.now) <=> doc.expiration > u.now
    BY <1>1, <1>2
<1> QED
    BY <1>1, <1>3, <1>4, <1>5, <1>6 DEF withCache, subMatch, noCache, Found, Common

(* Outside the known exceptions the cache and the query decide alike about    *)
(* NGSIv2 subscriptions, for every list of entities, pattern, service path, condition and expiration,   *)
(* whichever requests and refreshes made the item.                            *)
THEOREM CacheAgreesWithQuery == Spec => []CacheDecidesAsQuery
<1>1. MatchingInv => CacheDecidesAsQuery
    <2> SUFFICES ASSUME MatchingInv, csub # None, item # None, csub.ldContext = Empty,
                        csub.entities # <<>>, OneType(csub),
                        ~Some(csub, LAMBDA en : en.isPattern = Empty),
                        item.servicePath = csub.servicePath,
                        NEW u \in EntityUpdates, u.type # Empty, u.now # csub.expiration,
                        ~Some(csub, LAMBDA en : /\ en.isPattern = "true" /\ en.id = u.id
                                                /\ ~regexec(en.id, u.id))
                 PROVE  withCache(item, u) <=> noCache(csub, u) = "trigger"
        BY DEF CacheDecidesAsQuery, OneType
    <2> DEFINE fresh == ItemOfRefresh(csub)
    <2>1. WellFormed(csub) /\ Agrees(item, fresh, from)
        BY DEF MatchingInv
    <2>2. fresh.servicePath = csub.servicePath
        BY DEF ItemOfRefresh
    <2>3. withCache(item, u) <=> withCache(fresh, u)
        BY <2>1, <2>2, SameTriggers
    <2>4. \A i \in DOMAIN csub.entities : csub.entities[i].isPattern # Empty
        BY DEF Some
    <2>5. ~Misspelt(csub, u)
        BY DEF Some, Misspelt
    <2>6. withCache(fresh, u) <=> noCache(csub, u) = "trigger"
        BY <2>1, <2>4, <2>5, RefreshedAgrees
    <2> QED
        BY <2>3, <2>6
<1> QED
    BY <1>1, MatchingInvariant, PTL
=============================================================================
