---------------------------- MODULE SchemaMeaning ----------------------------
(* What the files of a schema define: which definitions come out of includes *)
(* and overrides, in which order, and what the definitions of one name come  *)
(* to together.                                                              *)
EXTENDS SchemaLoader, FiniteSets

CONSTANT
    Listing  \* the definitions that contents come to, where some names are overridden

-----------------------------------------------------------------------------
NamesIn(list) == {list[i].name : i \in {j \in DOMAIN list : list[j].kind = "definition"}}

(* An include stands for the definitions of its file that it does not        *)
(* redefine, and then its own.  One of a file that is no grammar is listed   *)
(* itself, and nobody can load it.                                           *)
ListingOfContent(content, overridden) ==
    CASE content.kind = "definition" ->
            IF content.name \in overridden THEN <<>> ELSE <<content>>
      [] content.kind = "div" -> Listing[<<content.contents, overridden>>]
      [] content.kind = "include" ->
            IF content.file \in DOMAIN Contents
            THEN Listing[<<Contents[content.file],
                           overridden \cup NamesIn(Listing[<<content.contents, {}>>])>>]
                   \o Listing[<<content.contents, overridden>>]
            ELSE <<content>>
      [] OTHER -> <<>>

ListingOf(contents, overridden) ==
    IF contents = <<>> THEN <<>>
    ELSE ListingOfContent(Head(contents), overridden) \o Listing[<<Tail(contents), overridden>>]

(* What else is to be listed to list some contents.                          *)
Needed(contents, overridden) ==
    IF contents = <<>> THEN {}
    ELSE LET content == Head(contents)
         IN  {<<Tail(contents), overridden>>}
               \cup (IF content.kind \in {"div", "include"}
                     THEN {<<content.contents, overridden>>} ELSE {})
               \cup (IF content.kind = "include"
                     THEN {<<content.contents, {}>>}
                            \cup (IF content.file \in DOMAIN Contents
                                  THEN {<<Contents[content.file], overridden \cup content.redefined>>}
                                  ELSE {})
                     ELSE {})

IsList(list) == list \in Seq({list[i] : i \in DOMAIN list})

(* The operators that definitions state, and the patterns that have operands. *)
IsDefinition(content) ==
    /\ content.combine \in {"plain", "choice", "interleave"}
    /\ content.pattern[1] \in {"choice", "interleave"} => IsList(content.pattern[2])

(* Listing lists all that there is to load, and the names that an include    *)
(* overrides are those that it defines.                                      *)
ListingAssumption ==
    /\ \A start \in Roots \cap DOMAIN Contents : <<Contents[start], {}>> \in DOMAIN Listing
    /\ \A key \in DOMAIN Listing :
          /\ IsList(key[1])
          /\ IsList(Listing[key])
          /\ key = <<key[1], key[2]>>
          /\ Needed(key[1], key[2]) \subseteq DOMAIN Listing
          /\ Listing[key] = ListingOf(key[1], key[2])
          /\ \A i \in DOMAIN key[1] :
                /\ key[1][i].kind = "definition" => IsDefinition(key[1][i])
                /\ key[1][i].kind = "include" =>
                      key[1][i].redefined = NamesIn(Listing[<<key[1][i].contents, {}>>])
ASSUME ListingAssumption

-----------------------------------------------------------------------------
(* The places of a name in a list, and those that state an operator.         *)
Places(list, name) == {i \in DOMAIN list : list[i].kind = "definition" /\ list[i].name = name}
Stated(list, places) == {i \in places : list[i].combine # "plain"}

(* The definitions of a name agree on the operator that combines them, and   *)
(* no file is missing.                                                       *)
Consistent(list) ==
    /\ \A i \in DOMAIN list : list[i].kind = "definition"
    /\ \A i, j \in DOMAIN list :
          list[i].name = list[j].name /\ "plain" \notin {list[i].combine, list[j].combine} =>
              list[i].combine = list[j].combine

(* Until an operator is stated, a definition replaces those before it.       *)
Kept(list, places) ==
    {i \in places :
        ~ \E j \in places : j > i /\ \A k \in Stated(list, places) : k > j}

(* The first definitions that are not allowed give way to the others.        *)
OperandPlaces(list, places) ==
    {i \in Kept(list, places) :
        \/ \A j \in Kept(list, places) : j <= i
        \/ \E j \in Kept(list, places) : j <= i /\ list[j].pattern[1] # "notAllowed"}

(* The patterns at some places, in their order.                              *)
Ranked(places, k) == {i \in places : Cardinality({j \in places : j <= i}) = k}
InOrder(list, places) ==
    [k \in 1 .. Cardinality(places) |-> list[CHOOSE i \in Ranked(places, k) : TRUE].pattern]

(* Patterns as operands of an operator, the first one unfolded if it is of   *)
(* the operator itself.                                                      *)
Joined(operator, patterns) ==
    CASE Len(patterns) = 1                              -> patterns[1]
      [] Len(patterns) > 1 /\ patterns[1][1] = operator ->
            <<operator, patterns[1][2] \o Tail(patterns)>>
      [] OTHER                                          -> <<operator, patterns>>

(* The operator that the definitions at some places state, if any, and what  *)
(* they come to by it.                                                       *)
IsMeant(entry, list, places) ==
    /\ IF Stated(list, places) = {} THEN entry.operator = "plain"
       ELSE \A i \in Stated(list, places) : entry.operator = list[i].combine
    /\ entry = Entry(entry.operator,
                     Joined(entry.operator, InOrder(list, OperandPlaces(list, places))))

(* The names that the files define are loaded, each with the operands that   *)
(* its definitions state, in the order of the files, however these include   *)
(* and override each other; and missing files and conflicting operators make *)
(* the loading fail, nothing else does.                                      *)
LoadsAsWritten ==
    IF root \in DOMAIN Contents
    THEN \A list \in {Listing[<<Contents[root], {}>>]} :
            /\ conflict => ~Consistent(list)
            /\ Loaded =>
                  /\ Consistent(list)
                  /\ DOMAIN definitions = NamesIn(list)
                  /\ \A name \in NamesIn(list) :
                        IsMeant(definitions[name], list, Places(list, name))
    ELSE ~Loaded
=============================================================================
