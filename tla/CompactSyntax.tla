---------------------------- MODULE CompactSyntax ----------------------------
(* The RELAX NG compact syntax: muffy-rnc's parser.rs, over tokens instead   *)
(* of characters.  A token is a word, an escaped word (\word), a literal or  *)
(* a symbol; blanks and comments between tokens are gone, and a colon is one *)
(* that has none around it.                                                  *)
(*                                                                           *)
(* Parsers are tuples, built with the combinators of nom as in the source.   *)
(* From a position, a parser gives the trees it makes and the position after *)
(* them, or nothing.  Symbols and keywords make no tree.                     *)
EXTENDS Naturals, Sequences, SequencesExt

Symbol(text) == <<"symbol", text>>
Keyword(word) == <<"keyword", word>>
Identifier == <<"identifier">>
Segment == <<"segment">>
Give(tree) == <<"give", tree>>
All(parsers) == <<"all", parsers>>
First(parsers) == <<"first", parsers>>
Many0(parser) == <<"many0", parser>>
Rule(name) == <<"rule", name>>
Make(kind, parser) == <<"make", kind, parser>>

Nothing == All(<<>>)
Opt(parser) == First(<<parser, Nothing>>)
Many1(parser) == All(<<parser, Many0(parser)>>)
Separated(separator, parser) == All(<<parser, Many0(All(<<separator, parser>>))>>)
Enclosed(left, parser, right) == All(<<Symbol(left), parser, Symbol(right)>>)
Braced(parser) == Enclosed("{", parser, "}")
Bracketed(parser) == Enclosed("[", parser, "]")
Parenthesized(parser) == Enclosed("(", parser, ")")

-----------------------------------------------------------------------------
(* The segments of a literal, which are cut between words.                   *)
Joined(segments) ==
    IF Len(segments) = 1 THEN segments[1]
    ELSE [segments[1] EXCEPT !.words = FoldLeft(LAMBDA words, s : words \o s.words, <<>>, segments)]

(* What comes of the trees of a parser.                                      *)
Made(kind, trees) ==
    CASE kind = "definition" -> << [kind |-> kind, name |-> trees[1], combine |-> trees[2],
                                    pattern |-> trees[3]] >>
      [] kind = "include"    -> << [kind |-> kind, file |-> trees[1], contents |-> trees[2]] >>
      [] kind = "div"        -> << [kind |-> kind, contents |-> trees] >>
      [] kind \in {"start", "annotation"} -> << [kind |-> kind] >>
      [] kind = "binding"    -> << [prefix |-> trees[1], uri |-> trees[2]] >>
      [] kind = "joined"     -> << Joined(trees) >>
      [] kind = "list of"    -> << trees >>
      [] kind = "ignored"    -> <<>>
      [] kind = "quantified" -> IF Len(trees) = 1 THEN trees ELSE << <<trees[2], trees[1]>> >>
      [] kind \in {"choice", "interleave", "group", "except"} ->
            IF Len(trees) = 1 THEN trees ELSE << <<kind, trees>> >>
      [] OTHER               -> << <<kind>> \o trees >>

ListOf(parser) == Make("list of", parser)
Ignore(parser) == Make("ignored", parser)

(* A word is a name whatever it means elsewhere, and a keyword if nothing    *)
(* escapes it.                                                               *)
Accepts(parser, token) ==
    CASE parser[1] = "symbol"     -> token[1] = "symbol" /\ token[2] = parser[2]
      [] parser[1] = "keyword"    -> token[1] = "word" /\ token[2] = parser[2]
      [] parser[1] = "identifier" -> token[1] \in {"word", "escaped"}
      [] parser[1] = "segment"    -> token[1] = "literal"

-----------------------------------------------------------------------------
Literal == Make("joined", Separated(Symbol("~"), Segment))
PrefixedName == All(<<Identifier, Symbol(":"), Identifier>>)
Name == First(<<PrefixedName, All(<<Give(""), Identifier>>)>>)

AssignmentOperator ==
    First(<< All(<<Symbol("|="), Give("choice")>>), All(<<Symbol("&="), Give("interleave")>>),
             All(<<Symbol("="), Give("plain")>>) >>)

AnnotationAttribute == All(<<Name, Symbol("="), Literal>>)
AnnotationElement ==
    Ignore(All(<< Name, Bracketed(All(<< Many0(AnnotationAttribute),
                          Many0(First(<<Rule("annotation_element"), Literal>>)) >>)) >>))
Annotation ==
    Bracketed(All(<<Many0(AnnotationAttribute), Many0(Rule("annotation_element"))>>))
Annotated(parser) == All(<<Ignore(Many0(Annotation)), parser>>)
FollowAnnotation == All(<<Symbol(">>"), Rule("annotation_element")>>)

-----------------------------------------------------------------------------
PrimaryNameClass ==
    First(<< Make("any", Symbol("*")),
             Make("namespace", All(<<Identifier, Symbol(":"), Symbol("*")>>)),
             Make("name", Name),
             Parenthesized(Rule("name_class")) >>)
NameClassChoice ==
    Make("except", All(<<PrimaryNameClass, Opt(All(<<Symbol("-"), PrimaryNameClass>>))>>))
NameClass == Make("choice", Separated(Symbol("|"), NameClassChoice))

(* A name is the type of a value or of data only with a prefix.              *)
DatatypeName ==
    ListOf(First(<< All(<<Keyword("string"), Give("string")>>),
                    All(<<Keyword("token"), Give("token")>>), PrefixedName >>))
Parameter == All(<<Name, Symbol("="), Literal>>)
Parameters == Braced(Opt(Separated(Opt(Symbol(",")), Parameter)))

Element == Make("element", All(<<Keyword("element"), Rule("name_class"), Braced(Rule("pattern"))>>))
Attribute ==
    Make("attribute", All(<<Keyword("attribute"), Rule("name_class"), Braced(Rule("pattern"))>>))
List == Make("list", All(<<Keyword("list"), Braced(Rule("pattern"))>>))
Grammar == Make("grammar", All(<<Keyword("grammar"), Braced(Many0(Rule("grammar_content")))>>))
External == Make("external", All(<<Keyword("external"), Literal>>))
Value == Make("value", All(<<First(<<DatatypeName, Give(<<>>)>>), Literal>>))
Data ==
    Make("data", All(<<DatatypeName, Ignore(Opt(Parameters)),
                       Opt(All(<<Symbol("-"), Rule("pattern")>>))>>))
(* Name, without a prefix since data took those with one.                    *)
Reference == Make("ref", Identifier)

PrimaryPattern ==
    Annotated(First(<< Element, Attribute, List, Grammar, External, Make("text", Keyword("text")),
                       Make("empty", Keyword("empty")), Make("notAllowed", Keyword("notAllowed")),
                       Value, Data, Reference, Parenthesized(Rule("pattern")) >>))

Quantifier ==
    First(<< All(<<Symbol("?"), Give("optional")>>), All(<<Symbol("*"), Give("many0")>>),
             All(<<Symbol("+"), Give("many1")>>) >>)
QuantifiedPattern ==
    Make("quantified", All(<<Rule("primary_pattern"), Many0(FollowAnnotation), Opt(Quantifier)>>))
GroupPattern == Make("group", Separated(Symbol(","), Rule("quantified_pattern")))
InterleavePattern == Make("interleave", Separated(Symbol("&"), GroupPattern))
Pattern == Make("choice", Separated(Symbol("|"), InterleavePattern))

-----------------------------------------------------------------------------
Start == Make("start", Ignore(All(<<Keyword("start"), AssignmentOperator, Rule("pattern")>>)))
Definition == Make("definition", All(<<Identifier, AssignmentOperator, Rule("pattern")>>))
Div(content) == Make("div", All(<<Keyword("div"), Braced(Many0(Rule(content)))>>))
Inherit == All(<<Keyword("inherit"), Symbol("="), Identifier>>)
Include ==
    Make("include", All(<< Keyword("include"), Literal, Ignore(Opt(Inherit)),
                           ListOf(Opt(Braced(Many0(Rule("include_content"))))) >>))

GrammarContent ==
    Annotated(First(<< Make("annotation", AnnotationElement), Start, Definition,
                       Div("grammar_content"), Include >>))
IncludeContent ==
    Annotated(First(<< Make("annotation", AnnotationElement), Start, Definition,
                       Div("include_content") >>))

NamespaceDeclaration ==
    Make("binding", All(<<Keyword("namespace"), Identifier, Symbol("="), Literal>>))
(* Without a prefix it says nothing to muffy.                                *)
DefaultNamespaceDeclaration ==
    LET default(prefix) == All(<<Keyword("default"), Keyword("namespace"), prefix, Symbol("="), Literal>>)
    IN  First(<<Make("binding", default(Identifier)), Ignore(default(Nothing))>>)
DatatypesDeclaration ==
    Ignore(All(<<Keyword("datatypes"), Opt(Identifier), Symbol("="), Literal>>))
Declaration == First(<<NamespaceDeclaration, DefaultNamespaceDeclaration, DatatypesDeclaration>>)

Schema ==
    All(<< ListOf(Many0(Declaration)),
           First(<< Make("grammar", Many1(Rule("grammar_content"))), Rule("pattern"),
                    Make("grammar", Nothing) >>) >>)

Named(rule) ==
    CASE rule = "pattern"            -> Pattern
      [] rule = "quantified_pattern" -> QuantifiedPattern
      [] rule = "primary_pattern"    -> PrimaryPattern
      [] rule = "name_class"         -> NameClass
      [] rule = "grammar_content"    -> GrammarContent
      [] rule = "include_content"    -> IncludeContent
      [] rule = "annotation_element" -> AnnotationElement

-----------------------------------------------------------------------------
(* The one member of a set.                                                  *)
Only(set) == CHOOSE member \in set : TRUE

Result(trees, next) == [trees |-> trees, next |-> next]

(* The results of a parser after another result, at most one: the trees of   *)
(* the parser go behind those there are.                                     *)
RECURSIVE Parse(_, _, _)
Parse(parser, tokens, before) ==
    LET parsers == parser[2]
        accepted == before.next <= Len(tokens) /\ Accepts(parser, tokens[before.next])
        head == Parse(Head(parsers), tokens, before)
        item == Parse(parser[2], tokens, before)
    IN  CASE parser[1] \in {"symbol", "keyword"} ->
                IF accepted THEN {[before EXCEPT !.next = @ + 1]} ELSE {}
          [] parser[1] \in {"identifier", "segment"} ->
                IF accepted
                THEN {Result(Append(before.trees, tokens[before.next][2]), before.next + 1)}
                ELSE {}
          [] parser[1] = "give" -> {[before EXCEPT !.trees = Append(@, parser[2])]}
          [] parser[1] = "all" ->
                IF parsers = <<>> THEN {before}
                ELSE IF head = {} THEN {}
                ELSE Parse(<<"all", Tail(parsers)>>, tokens, Only(head))
          [] parser[1] = "first" ->
                LET ways == UNION {{<<k, r>> : r \in Parse(parsers[k], tokens, before)} :
                                     k \in DOMAIN parsers}
                IN  {way[2] : way \in {w \in ways : \A v \in ways : w[1] <= v[1]}}
          [] parser[1] = "many0" ->
                IF item = {} THEN {before} ELSE Parse(parser, tokens, Only(item))
          [] parser[1] = "make" ->
                {Result(before.trees \o Made(parser[2], r.trees), r.next) :
                   r \in Parse(parser[3], tokens, Result(<<>>, before.next))}
          [] parser[1] = "rule" -> Parse(Named(parser[2]), tokens, before)

(* parse_schema: all tokens are parsed, or none.  A schema is its            *)
(* declarations and its body.                                                *)
ParseSchema(tokens) ==
    {result.trees : result \in {r \in Parse(Schema, tokens, Result(<<>>, 1)) :
                                   r.next = Len(tokens) + 1}}
=============================================================================
