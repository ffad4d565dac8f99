---------------------------- MODULE MarkupMeaning ---------------------------
(* What RELAX NG says of the schemas and elements of Markup, and the         *)
(* properties that compare the validator with it.                            *)
EXTENDS Markup, SchemaFiles, SchemaMeaning, ContentMeaning

CONSTANTS
    Authored,    \* the contents that the readable files are meant to have
    Namespaces,  \* the namespace that each prefix of a file stands for
    Names,    \* names of elements that the reference knows
    Keys,     \* names of attributes that the reference knows
    Texts,    \* texts of attributes
    MaxWord   \* bound: children that the reference looks ahead to

ASSUME ContentsAreParsed == Contents = ParsedContents

Reference == INSTANCE RelaxNG

-----------------------------------------------------------------------------
AuthoredContents ==
    [file \in DOMAIN Authored |-> ResolveContents(Authored[file], Namespaces[file])]

(* The definitions of a schema: an include stands for the definitions of its *)
(* file that it does not redefine, and then its own.                         *)
RECURSIVE Flattened(_, _)
Flattened(contents, overridden) ==
    FlattenSeq([i \in DOMAIN contents |->
      LET content == contents[i]
      IN  CASE content.kind = "definition" ->
                  IF content.name \in overridden THEN <<>> ELSE <<content>>
            [] content.kind = "div" -> Flattened(content.contents, overridden)
            [] content.kind = "include" /\ content.file \notin DOMAIN Authored -> <<content>>
            [] content.kind = "include" /\ content.file \in DOMAIN Authored ->
                  LET own == Flattened(content.contents, {})
                  IN  Flattened(AuthoredContents[content.file],
                                overridden \cup {own[k].name : k \in DOMAIN own})
                      \o Flattened(content.contents, overridden)
            [] OTHER -> <<>>])

DefinitionsOf(start) == Flattened(AuthoredContents[start], {})

Pieces(defs, name) == SelectSeq(defs, LAMBDA d : d.name = name)
Operators(defs, name) == {d.combine : d \in ToSet(Pieces(defs, name))} \ {"plain"}

(* The definitions of a name are operands of the one operator they state.    *)
Combined(defs, name) ==
    LET pieces == Pieces(defs, name)
    IN  IF Operators(defs, name) = {} THEN Last(pieces).pattern
        ELSE <<Only(Operators(defs, name)), [i \in DOMAIN pieces |-> pieces[i].pattern]>>

DefinedIn(defs) == {d.name : d \in ToSet(defs)}

(* The patterns of the schemas whose operators do not conflict.              *)
Meant ==
    [start \in {r \in Roots \cap DOMAIN Authored : Consistent(DefinitionsOf(r))} |->
       LET defs == DefinitionsOf(start)
       IN  [name \in DefinedIn(defs) |-> Combined(defs, name)]]

(* RELAX NG has no meaning for a reference to nothing, nor for attributes    *)
(* that are repeated together with children.                                 *)
RECURSIVE Sound(_, _)
Sound(pattern, defs) ==
    CASE pattern[1] = "ref" -> pattern[2] \in DOMAIN defs /\ Sound(defs[pattern[2]], defs)
      [] pattern[1] \in {"choice", "group", "interleave"} ->
            \A p \in ToSet(pattern[2]) : Sound(p, defs)
      [] pattern[1] \in {"many0", "many1"} ->
            /\ Sound(pattern[2], defs)
            /\ \A m \in Reference!Language(pattern[2], defs) : m[1] = {} \/ m[2] = <<>>
      [] pattern[1] \in {"attribute", "element"} -> Sound(pattern[3], defs)
      [] pattern[1] = "optional" -> Sound(pattern[2], defs)
      [] OTHER -> TRUE

AllSound(defs) == \A name \in DOMAIN defs : Sound(defs[name], defs)
SoundRoots == {start \in DOMAIN Meant : AllSound(Meant[start])}

-----------------------------------------------------------------------------
(* Three uses of attributes that the compiler does not give their meaning.   *)
(* The first two are of the TODO in pattern/normal.rs:91-98.                 *)

(* The parts of a pattern outside the elements in it, through the patterns   *)
(* of some kinds.                                                            *)
RECURSIVE PartsThrough(_, _, _)
PartsThrough(kinds, pattern, defs) ==
    {pattern} \cup
      CASE pattern[1] = "ref" -> PartsThrough(kinds, defs[pattern[2]], defs)
        [] pattern[1] \in kinds /\ pattern[1] \in {"choice", "group", "interleave"} ->
              UNION {PartsThrough(kinds, p, defs) : p \in ToSet(pattern[2])}
        [] pattern[1] \in kinds /\ pattern[1] \in {"many0", "many1", "optional"} ->
              PartsThrough(kinds, pattern[2], defs)
        [] OTHER -> {}

Once == {"choice", "group", "interleave", "optional"}
Often == Once \cup {"many0", "many1"}
AttributesAmong(parts) == {p \in parts : p[1] = "attribute"}

(* What the elements of a schema hold, and its repetitions.                  *)
RECURSIVE Bodies(_, _)
Bodies(pattern, defs) ==
    UNION {{p[3]} \cup Bodies(p[3], defs) :
             p \in {q \in PartsThrough(Often, pattern, defs) : q[1] = "element"}}
AllBodies(defs) == UNION {Bodies(defs[name], defs) : name \in DOMAIN defs}
Repetitions(defs) ==
    {p \in UNION {PartsThrough(Often, body, defs) : body \in AllBodies(defs)} :
       p[1] \in {"many0", "many1"}}

(* (attribute a { text } | attribute b { text })* compiles into at most one  *)
(* of the attributes, and allows any of them.                                *)
RepeatsAlternatives(defs) ==
    \E p \in Repetitions(defs) :
        Cardinality(AttributesAmong(PartsThrough(Often, p[2], defs))) > 1

(* (attribute a { text } | y)+ compiles into what may be nothing.            *)
RepeatsMixture(defs) ==
    \E p \in Repetitions(defs) :
        LET parts == PartsThrough(Often, p[2], defs)
        IN  /\ p[1] = "many1"
            /\ AttributesAmong(parts) # {}
            /\ \E q \in parts : q[1] \in {"element", "text", "value", "data", "list"}

(* attribute a | b { text } compiles as if it were repeated.                 *)
ChoosesNameOnce(defs) ==
    \E body \in AllBodies(defs) :
        \E a \in AttributesAmong(PartsThrough(Once, body, defs)) :
            Cardinality(Reference!Members(a[2], Keys)) > 1

(* The schemas whose elements are allowed no more than what compiles, and no *)
(* less.                                                                     *)
ComplyingRoots == {start \in SoundRoots : ~RepeatsAlternatives(Meant[start])}
DemandingRoots ==
    {start \in SoundRoots : ~RepeatsMixture(Meant[start]) /\ ~ChoosesNameOnce(Meant[start])}

-----------------------------------------------------------------------------
(* What elements of a name may hold, which of it are names alone, and which  *)
(* texts an attribute has beside them.                                       *)
Models ==
    [start \in SoundRoots |->
       [name \in ElementNames |-> Reference!ModelsOf(name, Meant[start])]]
Shapes ==
    [start \in SoundRoots |->
       [name \in ElementNames |->
          {<<Reference!AttributeNames(m[1]), m[2]>> : m \in Models[start][name]}]]
Details ==
    [start \in SoundRoots |->
       [name \in ElementNames |->
          UNION {{<<Reference!AttributeNames(m[1]), m[2], a>> : a \in m[1]} :
                   m \in Models[start][name]}]]

AttributesOf(e) == {<<n, e.attributes[n]>> : n \in DOMAIN e.attributes}

Valid(e) == <<AttributesOf(e), e.children>> \in Models[root][e.name]

NothingIgnored(e) == e.ignored.attributes = {} /\ e.ignored.elements = {}

-----------------------------------------------------------------------------
(* The loader defines the names, and the elements, that the files mean,      *)
(* however their patterns nest and are annotated, whatever the order of      *)
(* definitions and the nesting of includes and of overrides; and files that  *)
(* are no grammars and conflicting operators make it fail, nothing else.     *)
LoadsAsMeant ==
    /\ conflict => root \notin DOMAIN Meant
    /\ Loaded => root \in DOMAIN Meant
    /\ Loaded /\ compiled = {} /\ root \in SoundRoots =>
          LET patterns == IntoPatterns
          IN  /\ DOMAIN patterns = DOMAIN Meant[root]
              /\ \A name \in ElementNames :
                    Reference!ModelsOf(name, patterns) = Models[root][name]

(* A schema that has a meaning compiles; and unless it repeats alternatives  *)
(* of attributes, an element that it allows is never rejected, whatever      *)
(* names are ignored.                                                        *)
RejectsNoValid ==
    /\ failed => root \notin SoundRoots
    /\ element # NoElement /\ Valid(element) /\ root \in ComplyingRoots => verdict = Ok

(* A text of a role is allowed when one of its words is, see compiler.rs.    *)
Readings(a) ==
    IF a[1] \in TokenListAttributes
    THEN {<<a[1], [padded |-> FALSE, words |-> <<word>>]>> : word \in ToSet(a[2].words)}
    ELSE {a}

(* Unless the schema repeats attributes and children together at least once, *)
(* or leaves the name of a single attribute open, an element is accepted     *)
(* only if the schema allows its children with its attributes, each of which *)
(* has a text the schema allows there.                                       *)
AcceptsOnlyValid ==
    element # NoElement /\ verdict = Ok /\ NothingIgnored(element) /\ root \in DemandingRoots =>
        LET names == DOMAIN element.attributes
        IN  /\ <<names, element.children>> \in Shapes[root][element.name]
            /\ \A a \in AttributesOf(element) :
                  \E reading \in Readings(a) :
                      <<names, element.children, reading>> \in Details[root][element.name]

(* A child that is reported as missing begins a way to complete the element, *)
(* but for the children reported as not allowed, and no other way with the   *)
(* same attributes is shorter.                                               *)
MissingChildFits ==
    element # NoElement /\ verdict.kind = "invalid" /\ NothingIgnored(element) =>
        LET reported == {error[1] : error \in verdict.children}
            kept == SelectSeq(element.children, LAMBDA n : n \notin reported)
            completions == {s \in Shapes[root][element.name] : IsStrictPrefix(kept, s[2])}
        IN  \A child \in verdict.missingChildren :
                \E s \in completions :
                    /\ s[2][Len(kept) + 1] = child
                    /\ \A t \in completions : t[1] = s[1] => Len(t[2]) >= Len(s[2])

(* An attribute or a child reported as not allowed is in no valid element of *)
(* this name, so that removing it is never wrong.                            *)
NotAllowedNowhere ==
    element # NoElement /\ verdict.kind = "invalid" =>
        /\ \A error \in verdict.attributes :
              error[2] = "notAllowed" => \A s \in Shapes[root][element.name] : error[1] \notin s[1]
        /\ \A error \in verdict.children :
              error[2] = "notAllowed" =>
                 \A s \in Shapes[root][element.name] : error[1] \notin ToSet(s[2])

=============================================================================
