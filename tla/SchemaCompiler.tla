--------------------------- MODULE SchemaCompiler ---------------------------
(* The compilation of RELAX NG patterns into the rules of elements, which    *)
(* muffy-validation-macro runs at build time.  The many wordings of one      *)
(* error are one.                                                            *)
EXTENDS Patterns

-----------------------------------------------------------------------------
(* Names are <<prefix, local name>>.                                         *)
AnyName == <<"*", "*">>
NamesOf(prefix) == <<prefix, "*">>
IsWildcard(name) == name[2] = "*"

MatchesWildcard(pattern, name) ==
    IsWildcard(pattern) /\ pattern[1] \in {"*", name[1]}

RECURSIVE ClassNames(_)
ClassNames(class) ==
    CASE class[1] = "any"       -> {AnyName}
      [] class[1] = "choice"    -> UNION {ClassNames(c) : c \in ToSet(class[2])}
      [] class[1] = "except"    -> {}
      [] class[1] = "name"      -> {<<class[2], class[3]>>}
      [] class[1] = "namespace" -> {NamesOf(class[2])}

-----------------------------------------------------------------------------
(* Values of attributes: <<"any">>, <<"literals", set>> or <<"tokens", set>>.*)
AnyValue == <<"any">>

(* Value::merge, of any number of values.                                    *)
MergeValues(values) ==
    CASE \A v \in values : v[1] = "literals" -> <<"literals", UNION {v[2] : v \in values}>>
      [] \A v \in values : v[1] = "tokens"   -> <<"tokens", UNION {v[2] : v \in values}>>
      [] OTHER                               -> AnyValue

(* Literal::new and the value around it.  The prefix w is not looked up.     *)
LiteralValue(type, text) ==
    CASE type \in {<<>>, <<"token">>}  -> <<"literals", {<<"token", text>>}>>
      [] type = <<"string">>          -> <<"literals", {<<"exact", text>>}>>
      [] type = <<"w", "string">>     -> <<"literals", {<<"caseInsensitive", text>>}>>
      [] OTHER                        -> AnyValue

EmptyText == [padded |-> FALSE, words |-> <<>>]

RECURSIVE ResolveValue(_, _)
ResolveValue(pattern, defs) ==
    CASE pattern[1] = "choice" ->
            LET values == {ResolveValue(p, defs) : p \in ToSet(pattern[2])}
            IN  IF Error \in values THEN Error
                ELSE MergeValues(values \cup {<<"literals", {}>>})
      [] pattern[1] = "empty" -> <<"literals", {<<"exact", EmptyText>>}>>
      [] pattern[1] = "ref" ->
            IF pattern[2] \in DOMAIN defs THEN ResolveValue(defs[pattern[2]], defs) ELSE Error
      [] pattern[1] = "notAllowed" -> <<"literals", {}>>
      [] pattern[1] = "value" -> LiteralValue(pattern[2], pattern[3])
      [] OTHER -> AnyValue

TokenListAttributes == {<<"", "role">>}

IntoTokenList(value) == IF value[1] = "literals" THEN <<"tokens", value[2]>> ELSE value

ResolveAttribute(names, value) ==
    IF names = {} THEN NotAllowed
    ELSE IF value = Error THEN Error
    ELSE <<"attribute", names,
           IF names \cap TokenListAttributes = {} THEN value ELSE IntoTokenList(value)>>

ResolveElement(names) == IF names = {} THEN NotAllowed ELSE <<"element", names>>

(* Compiler::resolve: references are followed, names are collected, and data *)
(* among children counts as text.  Its cache only saves time.                *)
RECURSIVE Resolve(_, _)
Resolve(pattern, defs) ==
    LET operands == [i \in DOMAIN pattern[2] |-> Resolve(pattern[2][i], defs)]
        failed == Error \in ToSet(operands)
        operand == Resolve(pattern[2], defs)
    IN  CASE pattern[1] = "attribute" ->
                ResolveAttribute(ClassNames(pattern[2]), ResolveValue(pattern[3], defs))
          [] pattern[1] = "element" -> ResolveElement(ClassNames(pattern[2]))
          [] pattern[1] = "choice" -> IF failed THEN Error ELSE ChoiceOf(ToSet(operands))
          [] pattern[1] = "group" -> IF failed THEN Error ELSE GroupOf(operands)
          [] pattern[1] = "interleave" -> IF failed THEN Error ELSE InterleaveOf(operands)
          [] pattern[1] \in {"many0", "many1", "optional"} ->
                (CASE operand = Error        -> Error
                   [] operand # Error /\ pattern[1] = "many0"    -> Many0(operand)
                   [] operand # Error /\ pattern[1] = "many1"    -> Many1(operand)
                   [] operand # Error /\ pattern[1] = "optional" -> Optional(operand))
          [] pattern[1] = "ref" ->
                IF pattern[2] \in DOMAIN defs THEN Resolve(defs[pattern[2]], defs) ELSE Error
          [] pattern[1] \in {"external", "grammar"} -> Error
          [] pattern[1] \in {"empty", "notAllowed"} -> pattern
          [] OTHER -> Text

-----------------------------------------------------------------------------
(* normalize_pattern: the variants of a pattern, which are pairs of an       *)
(* attribute pattern and a content pattern, or {Error}.                      *)
Products(variants, others, interleaved) ==
    IF Error \in variants \cup others THEN {Error}
    ELSE {<<InterleaveOf(<<v[1], o[1]>>),
            IF interleaved THEN InterleaveOf(<<v[2], o[2]>>) ELSE GroupOf(<<v[2], o[2]>>)>> :
             v \in variants, o \in others}

(* Faulty: the parts of a mixed choice are separated from each other.        *)
SeparatedVariants(variants) ==
    IF Error \in variants THEN {Error}
    ELSE {<<ChoiceOf({v[1] : v \in variants}), ChoiceOf({v[2] : v \in variants})>>}

(* The variants of a choice stay apart when attributes and contents mix.     *)
ChoiceVariants(variants) ==
    IF Error \in variants THEN {Error}
    ELSE
    CASE \A v \in variants : v[2] = Empty  -> {<<ChoiceOf({v[1] : v \in variants}), Empty>>}
      [] \A v \in variants : v[1] = Empty  -> {<<Empty, ChoiceOf({v[2] : v \in variants})>>}
      [] OTHER                             -> variants

OptionalVariants(variants) ==
    IF Error \in variants THEN {Error}
    ELSE
    CASE Cardinality(variants) = 1 /\ Only(variants)[2] = Empty ->
            {<<Optional(Only(variants)[1]), Empty>>}
      [] Cardinality(variants) = 1 /\ Only(variants)[1] = Empty ->
            {<<Empty, Optional(Only(variants)[2])>>}
      [] OTHER -> variants \cup {<<Empty, Empty>>}

RepeatedVariants(variants, many1) ==
    LET attributes == {v[1] : v \in variants} \ {Empty}
        contents == {v[2] : v \in variants} \ {Empty}
    IN  IF Error \in variants \/ \E v \in variants : v[1] # Empty /\ v[2] # Empty
        THEN {Error}
        ELSE {<<IF attributes = {} THEN Empty
                ELSE IF many1 /\ contents = {} THEN ChoiceOf(attributes)
                ELSE Optional(ChoiceOf(attributes)),
                IF contents = {} THEN Empty
                ELSE IF many1 /\ attributes = {} THEN Many1(ChoiceOf(contents))
                ELSE Many0(ChoiceOf(contents))>>}

RECURSIVE NormalizePattern(_)
NormalizePattern(pattern) ==
    CASE pattern[1] = "attribute"           -> {<<pattern, Empty>>}
      [] pattern[1] \in {"element", "text"} -> {<<Empty, pattern>>}
      [] pattern[1] = "empty"               -> {<<Empty, Empty>>}
      [] pattern[1] = "notAllowed"          -> {}
      [] pattern[1] \in {"group", "interleave"} ->
            FoldLeft(LAMBDA variants, p :
                         Products(variants, NormalizePattern(p), pattern[1] = "interleave"),
                     {<<Empty, Empty>>},
                     IF pattern[1] = "group" THEN pattern[2] ELSE Listed(pattern[2]))
      [] pattern[1] = "choice" -> ChoiceVariants(UNION {NormalizePattern(p) : p \in pattern[2]})
      [] pattern[1] = "optional" -> OptionalVariants(NormalizePattern(pattern[2]))
      [] OTHER -> RepeatedVariants(NormalizePattern(pattern[2]), pattern[1] = "many1")

-----------------------------------------------------------------------------
(* Attribute sets: the values of required and of optional attributes.        *)
AttributeSet(required, optional) == [required |-> required, optional |-> optional]
NoAttributes == AttributeSet(<<>>, <<>>)

MergeAttributes(maps) ==
    [name \in UNION {DOMAIN m : m \in maps} |->
       MergeValues({m[name] : m \in {n \in maps : name \in DOMAIN n}})]

MergeAll(sets) ==
    AttributeSet(MergeAttributes({s.required : s \in sets}),
                 MergeAttributes({s.optional : s \in sets}))

(* Sets of the same names become one.                                        *)
MergeSets(sets) ==
    {MergeAll({s \in sets : /\ DOMAIN s.required = DOMAIN t.required
                            /\ DOMAIN s.optional = DOMAIN t.optional}) : t \in sets}

(* Any one of the names is required, the others are optional.                *)
NameChoice(values) ==
    {AttributeSet([n \in {name} |-> values[n]],
                  [n \in DOMAIN values \ {name} |-> values[n]]) : name \in DOMAIN values}

OptionalSets(sets) ==
    LET merged == MergeSets(sets)
        values == MergeAttributes({s.required : s \in merged} \cup {s.optional : s \in merged})
    IN  IF merged = NameChoice(values) THEN {AttributeSet(<<>>, values)}
        ELSE IF \E s \in merged : DOMAIN s.required = {} THEN merged
        ELSE merged \cup {NoAttributes}

RECURSIVE AttributeSets(_)
AttributeSets(pattern) ==
    CASE pattern[1] = "empty"      -> {NoAttributes}
      [] pattern[1] = "notAllowed" -> {}
      [] pattern[1] = "attribute"  -> NameChoice([name \in pattern[2] |-> pattern[3]])
      [] pattern[1] = "choice"     -> UNION {AttributeSets(p) : p \in pattern[2]}
      [] pattern[1] \in {"group", "interleave"} ->
            FoldLeft(LAMBDA sets, p : {MergeAll({s, t}) : s \in sets, t \in AttributeSets(p)},
                     {NoAttributes},
                     IF pattern[1] = "group" THEN pattern[2] ELSE Listed(pattern[2]))
      [] pattern[1] \in {"optional", "many0"} -> OptionalSets(AttributeSets(pattern[2]))
      [] pattern[1] = "many1"      -> AttributeSets(pattern[2])

NormalizeAttributes(pattern) == MergeSets(AttributeSets(pattern))

(* Compiler::compile: the variants of an element, pairs of its attribute     *)
(* sets and its content, or {Error}.                                         *)
Compile(pattern, defs) ==
    LET resolved == Resolve(pattern, defs)
        variants == IF resolved = Error THEN {Error} ELSE NormalizePattern(resolved)
    IN  IF Error \in variants THEN {Error}
        ELSE {v \in {<<NormalizeAttributes(w[1]), w[2]>> : w \in variants} :
                v[1] # {} /\ v[2] # NotAllowed}

(* collect_elements: the element patterns of a definition, outside others.   *)
RECURSIVE CollectElements(_)
CollectElements(pattern) ==
    CASE pattern[1] = "element" -> {pattern}
      [] pattern[1] \in {"choice", "group", "interleave"} ->
            UNION {CollectElements(p) : p \in ToSet(pattern[2])}
      [] pattern[1] \in {"many0", "many1", "optional"} -> CollectElements(pattern[2])
      [] OTHER -> {}

(* children: the names that a content model mentions.                        *)
RECURSIVE Children(_)
Children(content) ==
    CASE content[1] = "text"                  -> {TextToken}
      [] content[1] = "element"               -> content[2]
      [] content[1] = "choice"                -> UNION {Children(p) : p \in content[2]}
      [] content[1] = "group"                 -> UNION {Children(p) : p \in ToSet(content[2])}
      [] content[1] = "interleave"            -> UNION {Children(p) : p \in DOMAIN content[2]}
      [] content[1] \in {"many0", "many1", "optional"} -> Children(content[2])
      [] OTHER                                -> {}
=============================================================================
