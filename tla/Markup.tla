------------------------------- MODULE Markup -------------------------------
(* The validation of markup: a schema is parsed and loaded out of its files, *)
(* compiled definition by definition into the rules of elements, and         *)
(* elements are validated against the rules.  All but the last happens in    *)
(* the macro at build time (muffy-validation-macro's lib.rs), validating in  *)
(* muffy-validation's validation.rs.  An element is built one child at a     *)
(* time, and validated as it stands after each.                              *)
EXTENDS SchemaCompiler, ContentModel, SchemaLoader

CONSTANTS
    ElementNames,  \* names of elements to validate
    Attributes,    \* attributes of elements: functions from names to texts
    ChildNames,    \* names of children, and the text token
    Ignored,       \* names to ignore: [attributes, elements]
    MaxChildren    \* bound: children of an element

VARIABLES
    compiled,   \* names of the definitions compiled so far
    failed,     \* has the macro failed on a pattern?
    rules,      \* element_rules: variants of elements by name
    element,    \* the element under validation, or NoElement
    verdict     \* Ok, UnknownTag, or the errors of the element

vars == <<root, agenda, definitions, conflict, compiled, failed, rules, element, verdict>>

NoElement == [name |-> <<"", "">>]
Ok == [kind |-> "ok"]
UnknownTag == [kind |-> "unknownTag"]

Init ==
    /\ LoaderInit
    /\ compiled = {}
    /\ failed = FALSE
    /\ rules = <<>>
    /\ element = NoElement
    /\ verdict = Ok

LoadSchema ==
    /\ Load
    /\ UNCHANGED <<compiled, failed, rules, element, verdict>>

-----------------------------------------------------------------------------
(* generate_validation: the variants of the elements of a definition, by     *)
(* name.  Elements of any name constrain only their parents.                 *)
NamesOfElement(pattern) == ClassNames(pattern[2]) \ {AnyName}

CompileDefinition ==
    \E name \in DOMAIN definitions \ compiled :
        LET patterns == IntoPatterns
            elements == {e \in CollectElements(patterns[name]) : NamesOfElement(e) # {}}
            variants(e) == Compile(e[3], patterns)
            named(n) == UNION {variants(e) : e \in {f \in elements : n \in NamesOfElement(f)}}
            old(n) == IF n \in DOMAIN rules THEN rules[n] ELSE {}
            names == {n \in UNION {NamesOfElement(e) : e \in elements} : named(n) # {}}
        IN  /\ Loaded
            /\ ~failed
            /\ failed' = \E e \in elements : Error \in variants(e)
            /\ compiled' = compiled \cup {name}
            /\ rules' = IF failed' THEN rules
                        ELSE [n \in DOMAIN rules \cup names |-> old(n) \cup named(n)]
            /\ UNCHANGED <<root, agenda, definitions, conflict, element, verdict>>

(* The lists of names of a rule.                                             *)
RuleAttributes(rule) ==
    UNION {DOMAIN s.required \cup DOMAIN s.optional : s \in UNION {v[1] : v \in rule}}
RuleChildren(rule) == UNION {Children(v[2]) : v \in rule}

(* The rule of an element: exact names go before wildcards.                  *)
RulesOf(name) ==
    IF name \in DOMAIN rules THEN {rules[name]}
    ELSE {rules[n] : n \in {m \in DOMAIN rules : MatchesWildcard(m, name)}}

-----------------------------------------------------------------------------
(* Faulty: names of a wildcard are not found.                                *)
FindExactName(names, name) == {name} \cap names

(* find_name: the name itself, or the first wildcard that matches it: any    *)
(* name, then the names of its prefix.  {} stands for None.                  *)
FindName(names, name) ==
    LET wildcards == {n \in names : MatchesWildcard(n, name)}
    IN  CASE name \in names                            -> {name}
          [] name \notin names /\ AnyName \in wildcards -> {AnyName}
          [] OTHER                                      -> wildcards

ExemptAttributes(e, rule) ==
    UNION {FindName(RuleAttributes(rule), n) : n \in DOMAIN e.attributes \cap e.ignored.attributes}

CheckedNames(e, rule) ==
    {n \in DOMAIN e.attributes \ e.ignored.attributes : FindName(RuleAttributes(rule), n) # {}}

(* classify_attributes: attributes found by the same name are deduplicated,  *)
(* and the value of the first one is kept, here of any one.                  *)
CheckedAttributes(e, rule) ==
    LET found(n) == Only(FindName(RuleAttributes(rule), n))
        keys == {found(n) : n \in CheckedNames(e, rule)}
        texts(k) == {e.attributes[n] : n \in {m \in CheckedNames(e, rule) : found(m) = k}}
    IN  {f \in [keys -> Range(e.attributes)] : \A k \in keys : f[k] \in texts(k)}

DisallowedAttributes(e, rule) ==
    {n \in DOMAIN e.attributes \ e.ignored.attributes : FindName(RuleAttributes(rule), n) = {}}

(* classify_children: a known child with whether its name is ignored.        *)
KnownChildren(e, rule) ==
    LET known == SelectSeq(e.children, LAMBDA n : FindName(RuleChildren(rule), n) # {})
    IN  [i \in DOMAIN known |-> <<Only(FindName(RuleChildren(rule), known[i])),
                                  known[i] \in e.ignored.elements>>]

DisallowedChildren(e, rule) ==
    {n \in ToSet(e.children) \ e.ignored.elements : FindName(RuleChildren(rule), n) = {}}

-----------------------------------------------------------------------------
(* A text is words, perhaps surrounded by spaces; a word may be in capitals. *)
SameWord(one, other) == one.letters = other.letters

MatchesLiteral(literal, text) ==
    CASE literal[1] = "exact"           -> text = literal[2]
      [] literal[1] = "token"           -> text.words = literal[2].words
      [] literal[1] = "caseInsensitive" ->
            /\ text.padded = literal[2].padded
            /\ Len(text.words) = Len(literal[2].words)
            /\ \A i \in DOMAIN text.words : SameWord(text.words[i], literal[2].words[i])

(* Value::matches: any text, one of the literals, or a word that is one.     *)
MatchesValue(value, text) ==
    CASE value[1] = "any"      -> TRUE
      [] value[1] = "literals" -> \E l \in value[2] : MatchesLiteral(l, text)
      [] value[1] = "tokens"   ->
            \E i \in DOMAIN text.words, l \in value[2] :
                MatchesLiteral(l, [padded |-> FALSE, words |-> <<text.words[i]>>])

(* AttributeSet::find looks among the required attributes first.             *)
Allows(set, name) == name \in DOMAIN set.required \cup DOMAIN set.optional
ValueOf(set, name) ==
    IF name \in DOMAIN set.required THEN set.required[name] ELSE set.optional[name]

Conflicting(set, attributes) == {n \in DOMAIN attributes : ~Allows(set, n)}
Mismatching(set, attributes) ==
    {n \in DOMAIN attributes : Allows(set, n) /\ ~MatchesValue(ValueOf(set, n), attributes[n])}
MissingAttributes(set, attributes, exempt) ==
    DOMAIN set.required \ (DOMAIN attributes \cup exempt)

(* Faulty: missing attributes and children are no errors of a variant.       *)
ScoreOfPresent(set, attributes, exempt, placed) ==
    LET misplaced == Cardinality(placed.misplaced)
        conflicts == Cardinality(Conflicting(set, attributes))
    IN  << conflicts + Cardinality(Mismatching(set, attributes)) + misplaced,
           conflicts + misplaced, 0 >>

(* The scores of a variant, an attribute set of it and its placed children:  *)
(* errors, conflicts and requirements, the fewest first.                     *)
Score(set, attributes, exempt, placed) ==
    LET misplaced == Cardinality(placed.misplaced)
        conflicts == Cardinality(Conflicting(set, attributes))
        incomplete == IF misplaced = 0 /\ ~IsNullable[placed.state] THEN 1 ELSE 0
    IN  << conflicts + Cardinality(Mismatching(set, attributes))
             + Cardinality(MissingAttributes(set, attributes, exempt)) + misplaced + incomplete,
           conflicts + misplaced,
           Cardinality(DOMAIN set.required) >>

Precedes(one, other) ==
    \/ one[1] < other[1]
    \/ one[1] = other[1] /\ one[2] < other[2]
    \/ one[1] = other[1] /\ one[2] = other[2] /\ one[3] < other[3]

(* The evaluations of the variants of a rule.  evaluate_variant takes the    *)
(* best attribute set of each variant, and validate_rule the best variant;   *)
(* among equals, which the code orders, any may be taken.                    *)
Evaluations(rule, attributes, exempt, children) ==
    UNION {LET placed == ValidateChildren(v[2], children)
           IN  {[set |-> s, placed |-> placed,
                 score |-> Score(s, attributes, exempt, placed)] : s \in v[1]} : v \in rule}

Best(evaluations) == {e \in evaluations : \A f \in evaluations : ~Precedes(f.score, e.score)}

Errors(e, rule, attributes, evaluation) ==
    LET set == evaluation.set
        placed == evaluation.placed
        missing == MissingAttributes(set, attributes, ExemptAttributes(e, rule))
    IN  [kind |-> "invalid",
         attributes |-> (DisallowedAttributes(e, rule) \X {"notAllowed"})
                          \cup (Conflicting(set, attributes) \X {"conflict"})
                          \cup (Mismatching(set, attributes) \X {"invalidValue"}),
         children |-> (DisallowedChildren(e, rule) \X {"notAllowed"})
                          \cup (placed.misplaced \X {"misplaced"}),
         missingAttributes |-> missing \ e.ignored.attributes,
         missingChildren |->
            IF placed.misplaced # {} THEN {}
            ELSE CollectMissingChildren(placed.state, RuleChildren(rule)) \ e.ignored.elements]

NoErrors == [kind |-> "invalid", attributes |-> {}, children |-> {},
             missingAttributes |-> {}, missingChildren |-> {}]

(* validate_rule                                                             *)
ValidateRule(e, rule) ==
    UNION {{LET errors == Errors(e, rule, attributes, evaluation)
            IN  IF errors = NoErrors THEN Ok ELSE errors :
              evaluation \in Best(Evaluations(rule, attributes, ExemptAttributes(e, rule),
                                              KnownChildren(e, rule)))} :
             attributes \in CheckedAttributes(e, rule)}

(* The generated function; more than one verdict where ties are left open.   *)
ValidateElement(e) ==
    IF e.name \in e.ignored.elements THEN {Ok}
    ELSE IF RulesOf(e.name) = {} THEN {UnknownTag}
    ELSE UNION {ValidateRule(e, rule) : rule \in RulesOf(e.name)}

-----------------------------------------------------------------------------
Ready == Loaded /\ ~failed /\ compiled = DOMAIN definitions
Unchanged == UNCHANGED <<root, agenda, definitions, conflict, compiled, failed, rules>>

OpenElement ==
    /\ Ready /\ element = NoElement
    /\ \E name \in ElementNames, attributes \in Attributes, ignored \in Ignored :
          element' = [name |-> name, attributes |-> attributes, children |-> <<>>,
                      ignored |-> ignored]
    /\ verdict' \in ValidateElement(element')
    /\ Unchanged

AppendChild ==
    /\ element # NoElement /\ Len(element.children) < MaxChildren
    /\ \E child \in ChildNames : element' = [element EXCEPT !.children = Append(@, child)]
    /\ verdict' \in ValidateElement(element')
    /\ Unchanged

CloseElement ==
    /\ element # NoElement
    /\ element' = NoElement
    /\ verdict' = Ok
    /\ Unchanged

Next == LoadSchema \/ CompileDefinition \/ OpenElement \/ AppendChild \/ CloseElement

Spec == Init /\ [][Next]_vars
=============================================================================
