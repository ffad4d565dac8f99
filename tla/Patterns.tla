------------------------------ MODULE Patterns ------------------------------
(* Patterns of schemas, as they are written and as they are compiled: tuples *)
(* whose first component names their operator.  Lists whose order the code   *)
(* does not depend on are sets, sorted lists of operands are bags.           *)
(*                                                                           *)
(*   Schema patterns                        Compiled patterns                *)
(*   <<"choice", seq>>                      <<"choice", set>>                *)
(*   <<"group", seq>>                       <<"group", seq>>                 *)
(*   <<"interleave", seq>>                  <<"interleave", bag>>            *)
(*   <<"many0", p>>, <<"many1", p>>, <<"optional", p>>     as schema patterns*)
(*   <<"attribute", class, p>>              <<"attribute", names, value>>    *)
(*   <<"element", class, p>>                <<"element", names>>             *)
(*   <<"ref", name>>, <<"value", type, text>>, <<"data", ...>>,              *)
(*   <<"list", p>>, <<"external", file>>, <<"grammar", ...>>                 *)
(*   <<"text">>, <<"empty">>, <<"notAllowed">>             as schema patterns*)
EXTENDS Integers, Sequences, FiniteSets, SequencesExt, BagsExt

Empty == <<"empty">>
NotAllowed == <<"notAllowed">>
Text == <<"text">>
Error == <<"error">>

(* The name of a child that is a text.                                       *)
TextToken == <<"", "#text">>

(* The one member of a set.                                                  *)
Only(set) == CHOOSE member \in set : TRUE

(* A list of operands in no particular order.                                *)
Listed(bag) ==
    LET members == SetToSeq(DOMAIN bag)
    IN  FlattenSeq([i \in DOMAIN members |-> [k \in 1 .. bag[members[i]] |-> members[i]]])

-----------------------------------------------------------------------------
(* The constructors of pattern.rs.                                           *)
Optional(pattern) ==
    CASE pattern \in {Empty, NotAllowed}           -> Empty
      [] pattern[1] \in {"many0", "many1"}         -> <<"many0", pattern[2]>>
      [] pattern[1] = "optional"                   -> pattern
      [] OTHER                                     -> <<"optional", pattern>>

Many0(pattern) ==
    CASE pattern \in {Empty, NotAllowed}               -> Empty
      [] pattern[1] \in {"many0", "many1", "optional"} -> <<"many0", pattern[2]>>
      [] OTHER                                         -> <<"many0", pattern>>

Many1(pattern) ==
    CASE pattern \in {Empty, NotAllowed}      -> pattern
      [] pattern[1] \in {"many0", "optional"} -> <<"many0", pattern[2]>>
      [] pattern[1] = "many1"                 -> pattern
      [] OTHER                                -> <<"many1", pattern>>

(* Alternatives are flattened, and all element names become one term.        *)
ChoiceOf(patterns) ==
    LET parts == UNION {IF p[1] = "choice" THEN p[2] ELSE {p} : p \in patterns}
        names == UNION {p[2] : p \in {q \in parts : q[1] = "element"}}
        alternatives ==
            {p \in parts : p[1] \notin {"element", "empty", "notAllowed"}}
                \cup (IF names = {} THEN {} ELSE {<<"element", names>>})
        pattern == CASE alternatives = {}              -> NotAllowed
                     [] Cardinality(alternatives) = 1  -> Only(alternatives)
                     [] OTHER                          -> <<"choice", alternatives>>
    IN  IF Empty \in patterns THEN Optional(pattern) ELSE pattern

GroupOf(patterns) ==
    LET operands(p) == CASE p = Empty -> <<>>
                         [] p[1] = "group" -> p[2]
                         [] OTHER -> <<p>>
        sequence == FlattenSeq([i \in DOMAIN patterns |-> operands(patterns[i])])
    IN  IF NotAllowed \in ToSet(patterns) THEN NotAllowed
        ELSE CASE sequence = <<>>   -> Empty
               [] Len(sequence) = 1 -> sequence[1]
               [] OTHER             -> <<"group", sequence>>

InterleaveOf(patterns) ==
    LET operands(p) == CASE p = Empty -> EmptyBag
                         [] p[1] = "interleave" -> p[2]
                         [] OTHER -> SetToBag({p})
        bag == FoldLeft(LAMBDA all, p : all (+) operands(p), EmptyBag, patterns)
    IN  IF NotAllowed \in ToSet(patterns) THEN NotAllowed
        ELSE CASE bag = EmptyBag          -> Empty
               [] BagCardinality(bag) = 1 -> Only(BagToSet(bag))
               [] OTHER                   -> <<"interleave", bag>>
=============================================================================
