------------------------------ MODULE MCMarkup ------------------------------
(* Markup over a few small schemas, compared with what RELAX NG says they    *)
(* mean.                                                                     *)
EXTENDS MarkupMeaning

El(local, pattern) == <<"element", <<"name", "", local>>, pattern>>
At(local, pattern) == <<"attribute", <<"name", "", local>>, pattern>>
Ref(name) == <<"ref", name>>
Word(letters) == [letters |-> letters, upper |-> FALSE]
Plain(words) == [padded |-> FALSE, words |-> words]
One == Plain(<<Word("one")>>)
Two == Plain(<<Word("two")>>)
OneInCapitals == Plain(<<[letters |-> "one", upper |-> TRUE]>>)
PaddedOne == [One EXCEPT !.padded = TRUE]
OtherTwo == Plain(<<Word("other"), Word("two")>>)
Value(type, text) == <<"value", type, text>>

StringButOne == <<"data", <<"w", "string">>, Value(<<>>, One)>>

Define(name, combine, pattern) ==
    [kind |-> "definition", name |-> name, combine |-> combine, pattern |-> pattern]
Include(file, contents) == [kind |-> "include", file |-> file, contents |-> contents]
Div(contents) == [kind |-> "div", contents |-> contents]

Leaves == << Define("y", "plain", El("y", <<"text">>)),
             Define("z", "plain", El("z", <<"empty">>)) >>

MCAuthored ==
  [ choices |-> Leaves \o
      << Define("attrs", "plain", <<"choice",
           << <<"group", << At("a", <<"choice", << Value(<<>>, One), Value(<<"w", "string">>, Two) >> >>),
                            <<"optional", At("b", <<"text">>)>> >> >>,
              At("b", Value(<<"string">>, One)) >> >>),
         Define("x", "plain", El("x", <<"group", << Ref("attrs"), <<"choice",
           << <<"group", << Ref("y"), <<"optional", Ref("z")>> >> >>,
              <<"many1", <<"group", << Ref("z"), <<"many0", Ref("y")>>, <<"text">> >> >> >> >> >> >> >>)) >>,
    mixed |-> Leaves \o
      << Define("x", "plain", El("x", <<"choice",
           << <<"group", << At("a", Value(<<"string">>, One)), Ref("y") >> >>,
              <<"group", << At("a", Value(<<"token">>, Two)), At("b", <<"text">>),
                            <<"many1", Ref("z")>> >> >>,
              <<"group", << <<"optional", At("role", <<"choice",
                                << Value(<<>>, One), Value(<<>>, Two) >> >>)>>,
                            <<"text">> >> >> >> >>)) >>,
    core |->
      << [kind |-> "start"],
         Define("inner", "choice", El("y", <<"empty">>)),
         Define("attrs", "interleave", <<"optional", At("a", Value(<<"w", "string">>, One))>>),
         Define("x", "plain", <<"element",
                                <<"choice", << <<"name", "", "x">>, <<"name", "", "y">> >> >>,
                                <<"interleave", << Ref("attrs"), <<"many1", Ref("inner")>> >> >> >>),
         Define("inner", "plain", El("z", <<"empty">>)),
         Define("attrs", "interleave",
                <<"many0", <<"attribute", <<"namespace", "s">>, <<"text">> >> >>) >>,
    overriding |->
      << Include("core", << Define("spare", "plain", <<"empty">>),
                            Div(<< Define("inner", "plain", Ref("flag")) >>) >>),
         Div(<< Define("flag", "choice", <<"notAllowed">>),
                Define("flag", "choice", <<"group", << El("z", <<"empty">>), <<"text">> >> >>) >>),
         Define("attrs", "interleave", <<"optional", At("b", <<"text">>)>>) >>,
    nested |->
      << Include("overriding", << Define("attrs", "interleave", At("role", Value(<<>>, Two))) >>),
         Define("attrs", "interleave", <<"empty">>) >>,
    interleaved |-> Leaves \o
      << Define("x", "plain", El("x", <<"interleave",
           << <<"group", << Ref("y"), Ref("z") >> >>, <<"many0", Ref("y")>>,
              <<"optional", <<"element", <<"namespace", "s">>, <<"empty">> >> >>,
              <<"optional", <<"choice", << At("a", Ref("list")), At("b", StringButOne) >> >> >> >> >>)),
         Define("list", "plain", <<"choice", << <<"notAllowed">>, Value(<<"string">>, Two), Value(<<"w", "string">>, One) >> >>) >>,
    conflicting |-> << Define("x", "choice", El("x", <<"empty">>)),
                       Define("x", "interleave", El("y", <<"empty">>)) >>,
    repeating |-> << Define("x", "plain", El("x", <<"many0",
                       <<"group", << At("a", <<"text">>), El("y", <<"empty">>) >> >> >>)) >>,
    alternatives |-> << Define("x", "plain", El("x", <<"many0",
                          <<"choice", << At("a", <<"text">>), At("b", <<"text">>) >> >> >>)) >>,
    obliged |-> << Define("x", "plain", El("x", <<"many1",
                     <<"choice", << At("a", <<"text">>), El("y", <<"empty">>) >> >> >>)) >>,
    eitherName |-> << Define("x", "plain", El("x", <<"attribute",
                        <<"choice", << <<"name", "", "a">>, <<"name", "", "b">> >> >>, <<"text">> >>)) >>,
    dangling |-> << Define("x", "plain", El("x", Ref("nowhere"))) >> ]

-----------------------------------------------------------------------------
(* How an author writes these contents, with no more parentheses than there  *)
(* must be, and with annotations where they may be.                          *)
Symbol(text) == <<"symbol", text>>
Keyword(text) == <<"word", text>>
Keywords == {"list", "text", "start"}
Identifier(name) == IF name \in Keywords THEN <<"escaped", name>> ELSE <<"word", name>>
Qualified(prefix, token) ==
    IF prefix = "" THEN <<token>> ELSE <<Identifier(prefix), Symbol(":"), token>>
Note == Qualified("n", Identifier("note"))
Annotation == <<Symbol("[")>> \o Note \o <<Symbol("="), <<"literal", One>>, Symbol("]")>>
AnnotationElement ==
    Note \o <<Symbol("[")>> \o Note \o
        <<Symbol("["), <<"literal", One>>, Symbol("~"), <<"literal", Two>>, Symbol("]"), Symbol("]")>>

Separated(symbol, list) ==
    FlattenSeq([i \in DOMAIN list |-> (IF i = 1 THEN <<>> ELSE <<Symbol(symbol)>>) \o list[i]])
Within(tokens, loose) == IF loose THEN <<Symbol("(")>> \o tokens \o <<Symbol(")")>> ELSE tokens

WrittenText(text) ==
    Separated("~", [i \in DOMAIN text.words |-> << <<"literal", [text EXCEPT !.words = <<@[i]>>]>> >>])
WrittenType(type) ==
    CASE Len(type) = 0 -> <<>>
      [] Len(type) = 1 -> <<Keyword(type[1])>>
      [] Len(type) = 2 -> Qualified(type[1], Identifier(type[2]))

RECURSIVE WrittenClass(_)
WrittenClass(class) ==
    CASE class[1] = "name"      -> Qualified(class[2], Identifier(class[3]))
      [] class[1] = "namespace" -> Qualified(class[2], Symbol("*"))
      [] class[1] = "choice"    -> Separated("|", [i \in DOMAIN class[2] |-> WrittenClass(class[2][i])])

Signs == [choice |-> "|", interleave |-> "&", group |-> ",",
          optional |-> "?", many0 |-> "*", many1 |-> "+"]
Binding == [choice |-> 1, interleave |-> 2, group |-> 3, optional |-> 4, many0 |-> 4, many1 |-> 4]

(* A pattern where only operators that bind tighter need no parentheses.     *)
RECURSIVE Written(_, _)
Written(p, outer) ==
    CASE p[1] \in {"choice", "interleave", "group"} ->
            Within(Separated(Signs[p[1]], [i \in DOMAIN p[2] |-> Written(p[2][i], Binding[p[1]])]),
                   Binding[p[1]] <= outer)
      [] p[1] \in {"optional", "many0", "many1"} ->
            Within(Written(p[2], 4) \o <<Symbol(">>")>> \o AnnotationElement
                     \o <<Symbol(Signs[p[1]])>>,
                   outer = 4)
      [] p[1] \in {"element", "attribute"} ->
            Annotation \o <<Keyword(p[1])>> \o WrittenClass(p[2])
              \o <<Symbol("{")>> \o Written(p[3], 0) \o <<Symbol("}")>>
      [] p[1] = "ref"   -> <<Identifier(p[2])>>
      [] p[1] = "value" -> WrittenType(p[2]) \o WrittenText(p[3])
      [] p[1] = "data"  ->
            Within(WrittenType(p[2]) \o <<Symbol("{"), Identifier("length"), Symbol("="),
                        <<"literal", One>>, Symbol("}"), Symbol("-")>> \o Written(p[3], 0),
                   outer > 0)
      [] p[1] \in {"text", "empty", "notAllowed"} -> <<Keyword(p[1])>>

Assignment == [plain |-> "=", choice |-> "|=", interleave |-> "&="]

RECURSIVE WrittenContents(_)
WrittenContents(contents) ==
    FlattenSeq([i \in DOMAIN contents |->
      LET content == contents[i]
          block == <<Symbol("{")>> \o WrittenContents(content.contents) \o <<Symbol("}")>>
      IN  CASE content.kind = "definition" ->
                 Annotation \o <<Identifier(content.name), Symbol(Assignment[content.combine])>>
                   \o Written(content.pattern, 0)
            [] content.kind = "start"   -> <<Keyword("start"), Symbol("="), Identifier("x")>>
            [] content.kind = "div"     -> AnnotationElement \o <<Keyword("div")>> \o block
            [] content.kind = "include" ->
                 <<Keyword("include"), <<"literal", content.file>>, Keyword("inherit"), Symbol("="),
                   Identifier("s")>> \o (IF content.contents = <<>> THEN <<>> ELSE block)])

Declarations ==
    <<Keyword("namespace"), Identifier("s"), Symbol("="), <<"literal", "uri:svg">>,
      Keyword("default"), Keyword("namespace"), Identifier("t"), Symbol("="), <<"literal", "">>,
      Keyword("datatypes"), Identifier("w"), Symbol("="), <<"literal", "uri:types">> >>
Nested(tokens) == <<Keyword("grammar"), Symbol("{")>> \o tokens \o <<Symbol("}")>>

MCFiles ==
    [f \in DOMAIN MCAuthored |->
       LET contents == WrittenContents(MCAuthored[f])
       IN  Declarations \o (IF f = "interleaved" THEN Nested(contents) ELSE contents)]
    @@ [pattern |-> Written(El("x", <<"empty">>), 0),
        unclosed |-> Front(Nested(WrittenContents(Leaves))),
        includingTwice |-> WrittenContents(<<Include("core", <<Include("mixed", <<>>)>>)>>),
        includingPattern |-> WrittenContents(<<Include("pattern", <<>>)>>)]

MCNamespaces == [f \in DOMAIN MCAuthored |-> [s |-> "uri:svg", t |-> ""]]

MCContents == ParsedContents

(* All that is to be listed to list the contents of the schemas.             *)
RECURSIVE KeysFrom(_, _)
KeysFrom(contents, overridden) ==
    {<<contents, overridden>>} \cup UNION {KeysFrom(key[1], key[2]) : key \in Needed(contents, overridden)}
MCListing ==
    [key \in UNION {KeysFrom(Contents[start], {}) : start \in Roots \cap DOMAIN Contents} |->
       Flattened(key[1], key[2])]

MCCanonical == ("uri:svg" :> "svg")

Y == <<"", "y">>
Z == <<"", "z">>
SvgG == <<"svg", "g">>
A == <<"", "a">>
B == <<"", "b">>
Role == <<"", "role">>

SvgK == <<"svg", "k">>
SvgL == <<"svg", "l">>
MCNames == {Y, Z, SvgG}
MCKeys == {A, B, Role, SvgK, SvgL}
MCTexts == {One, Two, OneInCapitals, PaddedOne, OtherTwo}

MCElementNames == {<<"", "x">>, Y}
MCChildNames == {Y, Z, TextToken, SvgG}
MCAttributes ==
    { <<>>, A :> One, A :> OneInCapitals, A :> PaddedOne, B :> One,
             A :> Two @@ B :> One, Role :> OtherTwo, A :> One @@ SvgK :> Two,
             SvgK :> One @@ SvgL :> Two }
MCIgnored ==
    {[attributes |-> {}, elements |-> {}],
     [attributes |-> {A}, elements |-> {Y}],
     [attributes |-> {A, B}, elements |-> {SvgG}]}

-----------------------------------------------------------------------------
(* The content models of the schemas, a choice of those of one, which a      *)
(* compiler might take it for, and models whose operands are repeated.       *)
OfY == <<"element", {Y}>>
OfZ == <<"element", {Z}>>
Both == <<"group", <<OfY, OfZ>> >>
Mixed == {Text, <<"many1", OfZ>>, OfY}
MCModels ==
    Mixed \cup
    { Empty, <<"choice", Mixed>>,
      <<"choice", { <<"group", <<OfY, <<"optional", OfZ>> >> >>,
                    <<"many1", <<"group", <<OfZ, <<"many0", OfY>>, Text>> >> >> }>>,
      <<"many1", <<"element", {Y, Z}>> >>,
      <<"many1", <<"group", <<OfZ, Text>> >> >>,
      <<"interleave", SetToBag({ Both, <<"optional", <<"element", {NamesOf("svg")}>> >>,
                                 <<"many0", OfY>> })>>,
      <<"interleave", BagAdd(SetToBag({OfZ, Both}), OfZ)>>,
      <<"many0", <<"group", << <<"interleave", SetToBag({OfY, OfZ})>>, <<"optional", OfY>> >> >> >> }

MCContentNames == {Y, Z, NamesOf("svg"), TextToken}

RECURSIVE WithParts(_)
WithParts(states) ==
    LET parts == UNION {Parts(s) : s \in states} \ states
    IN  IF parts = {} THEN states ELSE WithParts(states \cup parts)

RECURSIVE Closure(_, _)
Closure(states, fresh) ==
    LET nullable[s \in states] == NullableBy(nullable, s)
        step[key \in states \X MCContentNames] == StepBy(step, nullable, key[1], key[2])
        all == WithParts(states \cup {step[key] : key \in fresh \X MCContentNames})
    IN  IF all = states THEN states ELSE Closure(all, all \ states)

MCStates ==
    LET first == WithParts({StateOf(model) : model \in MCModels} \cup {Empty, NotAllowed})
    IN  Closure(first, first)

RECURSIVE DepthOf(_)
DepthOf(state) == 1 + Max({0} \cup {DepthOf(s) : s \in Parts(state)})
MCDepth == [s \in MCStates |-> DepthOf(s)]

ASSUME
    \A model \in MCModels, n \in 0 .. 3 : \A word \in [1 .. n -> MCContentNames] :
        Accepts(model, [i \in 1 .. n |-> <<word[i], FALSE>>]) = Permits(word, StateOf(model), 1 .. n)

(* The completions of some length.                                           *)
CompletionsOf(state, n) ==
    {word \in [1 .. n -> MCContentNames] : Permits(word, state, DOMAIN word)}

ASSUME
    \A model \in {m \in MCModels : ~IsNullable[StateOf(m)]} :
        \E n \in 1 .. 4 :
            /\ Search(StateOf(model), MCContentNames) = Beginnings(CompletionsOf(StateOf(model), n))
            /\ CompletionsOf(StateOf(model), n) # {}
            /\ \A m \in 0 .. n - 1 : CompletionsOf(StateOf(model), m) = {}
=============================================================================
