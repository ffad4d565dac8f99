----------------------------- MODULE SchemaFiles -----------------------------
(* What the files of a schema hold: parsed, with the prefixes of names       *)
(* resolved (muffy-validation-macro's namespace.rs) and the names that each  *)
(* include overrides collected (muffy-rnc's schema.rs).                      *)
EXTENDS Naturals, Sequences, SequencesExt, TLC

CONSTANTS
    Files,     \* the tokens of every file
    Canonical  \* the canonical prefixes of the namespaces muffy recognises

Syntax == INSTANCE CompactSyntax

-----------------------------------------------------------------------------
(* namespace.rs: a prefix becomes the canonical one of its namespace; the    *)
(* empty namespace has no prefix, and other prefixes stay as they are.       *)
ResolvePrefix(prefix, namespaces) ==
    CASE prefix \notin DOMAIN namespaces             -> prefix
      [] namespaces[prefix] = ""                     -> ""
      [] namespaces[prefix] \in DOMAIN Canonical     -> Canonical[namespaces[prefix]]
      [] OTHER                                       -> prefix

RECURSIVE ResolveNameClass(_, _)
ResolveNameClass(class, namespaces) ==
    CASE class[1] \in {"choice", "except"} ->
            <<class[1], [i \in DOMAIN class[2] |->
                           ResolveNameClass(class[2][i], namespaces)]>>
      [] class[1] \in {"name", "namespace"} ->
            [class EXCEPT ![2] = ResolvePrefix(@, namespaces)]
      [] OTHER -> class

RECURSIVE ResolveNamespaces(_, _)
ResolveNamespaces(pattern, namespaces) ==
    CASE pattern[1] \in {"attribute", "element"} ->
            <<pattern[1], ResolveNameClass(pattern[2], namespaces),
                          ResolveNamespaces(pattern[3], namespaces)>>
      [] pattern[1] \in {"choice", "group", "interleave"} ->
            <<pattern[1], [i \in DOMAIN pattern[2] |->
                             ResolveNamespaces(pattern[2][i], namespaces)]>>
      [] pattern[1] \in {"many0", "many1", "optional"} ->
            <<pattern[1], ResolveNamespaces(pattern[2], namespaces)>>
      [] OTHER -> pattern

(* defined_names: the names that the contents of an include define, in div   *)
(* blocks too.                                                               *)
RECURSIVE DefinedNames(_)
DefinedNames(contents) ==
    UNION {CASE content.kind = "definition" -> {content.name}
             [] content.kind = "div"        -> DefinedNames(content.contents)
             [] OTHER                       -> {} : content \in ToSet(contents)}

RECURSIVE ResolveContents(_, _)
ResolveContents(contents, namespaces) ==
    [i \in DOMAIN contents |->
       LET content == contents[i]
       IN  CASE content.kind = "definition" ->
                   [content EXCEPT !.pattern = ResolveNamespaces(@, namespaces)]
             [] content.kind = "div" ->
                   [content EXCEPT !.contents = ResolveContents(@, namespaces)]
             [] content.kind = "include" ->
                   [kind |-> "include", file |-> content.file,
                    contents |-> ResolveContents(content.contents, namespaces),
                    redefined |-> DefinedNames(content.contents)]
             [] OTHER -> content]

(* The namespaces of prefixes by the declarations of a file, of which the    *)
(* last one counts.                                                          *)
NamespacesOf(declarations) ==
    FoldLeft(LAMBDA all, d : d.prefix :> d.uri @@ all, <<>>, declarations)

(* The files that can be parsed, as declarations and a body, and the         *)
(* contents of those whose body is a grammar and not another pattern.        *)
Schemas == [file \in DOMAIN Files |-> Syntax!ParseSchema(Files[file])]
IsGrammar(schema) == schema[2][1] = "grammar"
ContentsOf(schemas) ==
    [file \in {f \in DOMAIN schemas : \E schema \in schemas[f] : IsGrammar(schema)} |->
        LET schema == CHOOSE s \in schemas[file] : TRUE
        IN  ResolveContents(Tail(schema[2]), NamespacesOf(schema[1]))]
ParsedContents == ContentsOf(Schemas)
=============================================================================
