------------------------------- MODULE RelaxNG ------------------------------
(* What a RELAX NG pattern means: the reference the markup validator is      *)
(* compared with.  The language of a pattern is the set of attributes and    *)
(* children it matches, <<set of <<name, text>>, sequence of names>>, over   *)
(* the names and texts given and for at most MaxWord children.  Patterns are *)
(* schema patterns, see SchemaCompiler, with their namespaces resolved.      *)
EXTENDS Integers, Sequences, FiniteSets, SequencesExt

CONSTANTS
    Names,    \* names of elements
    Keys,     \* names of attributes
    Texts,    \* texts of attributes
    MaxWord   \* bound: length of the sequences of children

RECURSIVE Members(_, _)
Members(class, names) ==
    CASE class[1] = "any"       -> names
      [] class[1] = "choice"    -> UNION {Members(c, names) : c \in ToSet(class[2])}
      [] class[1] = "except"    -> Members(class[2][1], names) \ Members(class[2][2], names)
      [] class[1] = "name"      -> {<<class[2], class[3]>>} \cap names
      [] class[1] = "namespace" -> {n \in names : n[1] = class[2]}

(* Texts are words, perhaps in capitals, perhaps surrounded by spaces.       *)
InLowerCase(text) == [i \in DOMAIN text.words |-> text.words[i].letters]

RECURSIVE TextsOf(_, _)
TextsOf(pattern, defs) ==
    CASE pattern[1] = "choice"     -> UNION {TextsOf(p, defs) : p \in ToSet(pattern[2])}
      [] pattern[1] = "empty"      -> {t \in Texts : t.words = <<>> /\ ~t.padded}
      [] pattern[1] = "notAllowed" -> {}
      [] pattern[1] = "ref"        -> TextsOf(defs[pattern[2]], defs)
      [] pattern[1] = "value"      ->
            {t \in Texts :
                CASE pattern[2] = <<"string">>      -> t = pattern[3]
                  [] pattern[2] = <<"w", "string">> -> /\ t.padded = pattern[3].padded
                                                       /\ InLowerCase(t) = InLowerCase(pattern[3])
                  [] OTHER                          -> t.words = pattern[3].words}
      [] OTHER                     -> Texts

-----------------------------------------------------------------------------
AttributeNames(attributes) == {a[1] : a \in attributes}

(* Pairs that fit together: no attribute twice, and not too many children.   *)
Fits(one, other) ==
    /\ AttributeNames(one[1]) \cap AttributeNames(other[1]) = {}
    /\ Len(one[2]) + Len(other[2]) <= MaxWord

Concatenation(L, M) ==
    {<<p[1][1] \cup p[2][1], p[1][2] \o p[2][2]>> : p \in {q \in L \X M : Fits(q[1], q[2])}}

RECURSIVE Shuffles(_, _)
Shuffles(v, w) ==
    IF v = <<>> \/ w = <<>> THEN {v \o w}
    ELSE {<<Head(v)>> \o s : s \in Shuffles(Tail(v), w)}
            \cup {<<Head(w)>> \o s : s \in Shuffles(v, Tail(w))}

Shuffling(L, M) ==
    UNION {{<<p[1][1] \cup p[2][1], word>> : word \in Shuffles(p[1][2], p[2][2])} :
             p \in {q \in L \X M : Fits(q[1], q[2])}}

RECURSIVE Repetition(_, _)
Repetition(L, M) ==
    LET longer == L \cup Concatenation(L, M)
    IN  IF longer = L THEN L ELSE Repetition(longer, M)

Nothing == {<<{}, <<>>>>}

RECURSIVE Language(_, _)
Language(pattern, defs) ==
    CASE pattern[1] = "attribute" ->
            {<<{<<n, t>>}, <<>>>> : n \in Members(pattern[2], Keys), t \in TextsOf(pattern[3], defs)}
      [] pattern[1] = "element"    -> {<<{}, <<n>>>> : n \in Members(pattern[2], Names)}
      [] pattern[1] = "text"       ->
            {<<{}, [i \in 1 .. k |-> <<"", "#text">>]>> : k \in 0 .. MaxWord}
      [] pattern[1] = "empty"      -> Nothing
      [] pattern[1] = "notAllowed" -> {}
      [] pattern[1] = "ref"        -> Language(defs[pattern[2]], defs)
      [] pattern[1] = "choice"     -> UNION {Language(p, defs) : p \in ToSet(pattern[2])}
      [] pattern[1] = "group"      ->
            FoldLeft(LAMBDA all, p : Concatenation(all, Language(p, defs)), Nothing, pattern[2])
      [] pattern[1] = "interleave" ->
            FoldLeft(LAMBDA all, p : Shuffling(all, Language(p, defs)), Nothing, pattern[2])
      [] pattern[1] = "optional"   -> Nothing \cup Language(pattern[2], defs)
      [] pattern[1] = "many0"      -> Repetition(Nothing, Language(pattern[2], defs))
      [] pattern[1] = "many1"      ->
            LET once == Language(pattern[2], defs) IN Repetition(once, once)

(* The element patterns of a pattern, outside other elements.                *)
RECURSIVE Elements(_)
Elements(pattern) ==
    CASE pattern[1] = "element" -> {pattern}
      [] pattern[1] \in {"choice", "group", "interleave"} ->
            UNION {Elements(p) : p \in ToSet(pattern[2])}
      [] pattern[1] \in {"many0", "many1", "optional"} -> Elements(pattern[2])
      [] OTHER -> {}

(* What an element of a name may hold.  An element that only a wildcard of   *)
(* any name matches is not constrained by it.                                *)
ModelsOf(name, defs) ==
    UNION {Language(e[3], defs) :
             e \in {f \in UNION {Elements(defs[d]) : d \in DOMAIN defs} :
                      f[2] # <<"any">> /\ name \in Members(f[2], {name})}}
=============================================================================
