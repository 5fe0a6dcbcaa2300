----------------------- MODULE MCSubscriptionMatching -----------------------
(* Requests that differ from a plain one in one section.                      *)
EXTENDS SubscriptionMatching

MCRegex == [p \in Ids \cup Types \cup {"", ".*", "e1|e2", "e+1", "T1|"} |->
    CASE p \in {"", ".*"} -> Ids \cup Types \cup {""}
      [] p = "e1|e2"      -> {"e1", "e2"}
      [] p = "e+1"        -> {"e1"}
      [] p = "T1|"        -> {"T1", ""}
      [] p \in (Ids \cup Types) \ {"e+1"} -> {p}]

Entities ==
    LET id   == [id : {"e1", "e2"}, idPattern : {""}] \cup [id : {""}, idPattern : {"", ".*", "e1|e2", "e+1"}]
        type == [type : {"T1", "T2"}, typePattern : {""}] \cup [type : {""}, typePattern : {"", "T1|"}]
    IN  {[id |-> i.id, idPattern |-> i.idPattern, type |-> t.type, typePattern |-> t.typePattern] :
            i \in id, t \in type}

PlainEntity == [id |-> "e1", idPattern |-> "", type |-> "T1", typePattern |-> ""]
Plain == [entities |-> <<PlainEntity>>, conditions |-> {}, filter |-> None]

Subjects ==
    {[Plain EXCEPT !.entities = <<en>>] : en \in Entities}
        \cup {[Plain EXCEPT !.entities = <<en1, en2>>] : en1, en2 \in Entities}
        \cup {[Plain EXCEPT !.entities = <<>>]}
        \cup {[Plain EXCEPT !.conditions = c] : c \in SUBSET Attrs}
        \cup {[Plain EXCEPT !.filter = f] : f \in StringFilterItems}

PlainNotification ==
    [attributes |-> {}, blacklist |-> FALSE, blacklistProvided |-> FALSE, metadata |-> {}]

Notifications ==
    {PlainNotification}
        \cup [attributes : {{}, {"a"}}, blacklist : {FALSE}, blacklistProvided : {TRUE},
              metadata : {{"m"}}]
        \cup [attributes : {{"a"}}, blacklist : {TRUE}, blacklistProvided : {TRUE},
              metadata : {{}}]

ServicePathVs == {<<>>} \cup {<<p>> : p \in [at : Paths, all : BOOLEAN]}

PlainRequest ==
    [ldContext |-> "", sections |-> {}, subject |-> Plain, notification |-> PlainNotification,
     expires |-> Permanent, status |-> "", servicePathV |-> <<>>]

(* In NGSI-LD a subscription is at "/", and is "active" or "paused".          *)
LdRequests ==
    LET Entity(en) == en.type # "" /\ en.typePattern = ""
        Filter(f)  == f.lhs.type = "q" /\ (f.op \in Unary => f.lhs.attributeName # "dateCreated")
        At(s)      == [PlainRequest EXCEPT !.subject = s, !.servicePathV = <<[at |-> <<>>, all |-> FALSE]>>]
        plain      == {[At(Plain) EXCEPT !.status = s] : s \in {"active", "paused"}}
                        \cup {At([Plain EXCEPT !.entities = <<en>>]) : en \in {x \in Entities : Entity(x)}}
                        \cup {At([Plain EXCEPT !.entities = <<>>])}
                        \cup {At([Plain EXCEPT !.filter = f]) : f \in {x \in StringFilterItems : Filter(x)}}
    IN  {[r EXCEPT !.ldContext = c] : r \in plain, c \in {"dotted", "plain"}}

(* The string 0, the empty one, makes the text unparsable without its quotes; *)
(* 1 reads as a number, 2 as the string it is.                                *)
MCUnquoted ==
    [s \in Numbers |-> CASE s = 0 -> Unparsable
                         [] s = 1 -> [type |-> "Number", form |-> "value", v |-> 1]
                         [] s > 1 -> [type |-> "String", form |-> "value", v |-> s]]

MCNotImplemented == [form \in {"range", "list"} |-> 2]

MCCreations == LdRequests \cup
    {[PlainRequest EXCEPT !.subject = s] : s \in Subjects}
        \cup {[PlainRequest EXCEPT !.notification = n] : n \in Notifications}
        \cup {[PlainRequest EXCEPT !.expires = t] : t \in Times}
        \cup {[PlainRequest EXCEPT !.status = s] : s \in {"active", "inactive"}}
        \cup {[PlainRequest EXCEPT !.servicePathV = v] : v \in ServicePathVs}

MCUpdates ==
    {[PlainRequest EXCEPT !.sections = {"subject"}, !.subject = s] : s \in Subjects}
        \cup {[PlainRequest EXCEPT !.sections = {"notification"}, !.notification = n] :
                n \in Notifications}
        \cup {[PlainRequest EXCEPT !.sections = {"expires"}, !.expires = t] : t \in Times}
        \cup {[PlainRequest EXCEPT !.sections = {"status"}, !.status = s] :
                s \in {"active", "inactive"}}
        \cup {[PlainRequest EXCEPT !.servicePathV = v] : v \in ServicePathVs}

MCPaths == {<<>>, <<"p">>, <<"p", "q">>, <<"pq">>}
=============================================================================
