---------------------------- MODULE SchemaLoader ----------------------------
(* The loading of a RELAX NG schema out of its files, which the macro of the *)
(* markup validator runs at build time: muffy-validation-macro's             *)
(* definition.rs, and the definition set of muffy-rnc's schema.rs.  The      *)
(* recursion of load_schema, load_grammar and load_include_contents is an    *)
(* agenda, a stack of frames: the contents still to load and the names that  *)
(* an enclosing include overrides.                                           *)
EXTENDS Naturals, Sequences

CONSTANTS
    Contents,  \* the contents of the files that hold a grammar, see SchemaFiles
    Roots      \* the files that schemas start from

VARIABLES
    root,         \* the file this schema starts from
    agenda,       \* frames of contents to load, innermost first
    definitions,  \* DefinitionSet: [operator, pattern] of every defined name
    conflict      \* has a definition or a file failed?

loaderVars == <<root, agenda, definitions, conflict>>

-----------------------------------------------------------------------------
Frame(contents, overridden) == [contents |-> contents, overridden |-> overridden]

LoaderInit ==
    /\ root \in Roots
    /\ agenda = IF root \in DOMAIN Contents THEN << Frame(Contents[root], {}) >> ELSE <<>>
    /\ definitions = <<>>
    /\ conflict = (root \notin DOMAIN Contents)

-----------------------------------------------------------------------------
(* A definition joins an existing one as a further operand of the same       *)
(* operator; a pattern that is not allowed gives way to the new one.         *)
CombinePatterns(existing, new, operator) ==
    CASE existing[1] = operator     -> <<operator, Append(existing[2], new)>>
      [] existing[1] = "notAllowed" -> new
      [] OTHER                      -> <<operator, <<existing, new>>>>

Entry(operator, pattern) == [operator |-> operator, pattern |-> pattern]

(* DefinitionSet::define; "plain" stands for no combine operator.            *)
Conflicts(definition) ==
    /\ definition.combine # "plain"
    /\ definition.name \in DOMAIN definitions
    /\ definitions[definition.name].operator \notin {"plain", definition.combine}

(* Faulty: a definition that states no operator replaces those before it.    *)
DefinedAnew(definition) ==
    LET existing == definitions[definition.name]
    IN  IF definition.name \in DOMAIN definitions /\ definition.combine # "plain"
        THEN Entry(definition.combine,
                   CombinePatterns(existing.pattern, definition.pattern, definition.combine))
        ELSE Entry(definition.combine, definition.pattern)

Defined(definition) ==
    LET existing == definitions[definition.name]
        operator == IF definition.combine = "plain" THEN existing.operator
                                                    ELSE definition.combine
    IN  IF definition.name \in DOMAIN definitions /\ operator # "plain"
        THEN Entry(operator, CombinePatterns(existing.pattern, definition.pattern, operator))
        ELSE Entry(definition.combine, definition.pattern)

-----------------------------------------------------------------------------
Top == Head(agenda)
Content == Head(Top.contents)
Loading == agenda # <<>> /\ ~conflict

(* The agenda once the first content of the top frame is taken.              *)
Rest == << [Top EXCEPT !.contents = Tail(@)] >> \o Tail(agenda)

LoadDefinition ==
    /\ Loading /\ Top.contents # <<>> /\ Content.kind = "definition"
    /\ LET skipped == Content.name \in Top.overridden
           fails == ~skipped /\ Conflicts(Content)
       IN  /\ conflict' = fails
           /\ definitions' = IF skipped \/ fails THEN definitions
                             ELSE [name \in DOMAIN definitions \cup {Content.name} |->
                                     IF name = Content.name THEN Defined(Content) ELSE definitions[name]]
    /\ agenda' = Rest
    /\ UNCHANGED root

(* Start patterns and annotations are skipped.                               *)
SkipContent ==
    /\ Loading /\ Top.contents # <<>> /\ Content.kind \in {"start", "annotation"}
    /\ agenda' = Rest
    /\ UNCHANGED <<root, definitions, conflict>>

EnterDiv ==
    /\ Loading /\ Top.contents # <<>> /\ Content.kind = "div"
    /\ agenda' = << Frame(Content.contents, Top.overridden) >> \o Rest
    /\ UNCHANGED <<root, definitions, conflict>>

(* Faulty: what an outer include overrides is forgotten.                     *)
EnterIncludeAnew ==
    /\ Loading /\ Top.contents # <<>> /\ Content.kind = "include"
    /\ conflict' = (Content.file \notin DOMAIN Contents)
    /\ agenda' =
         IF conflict' THEN Rest
         ELSE << Frame(Contents[Content.file], Content.redefined),
                 Frame(Content.contents, Top.overridden) >> \o Rest
    /\ UNCHANGED <<root, definitions>>

(* The included file is loaded without what the include defines, and what    *)
(* the include defines after it.                                             *)
EnterInclude ==
    /\ Loading /\ Top.contents # <<>> /\ Content.kind = "include"
    /\ conflict' = (Content.file \notin DOMAIN Contents)
    /\ agenda' =
         IF conflict' THEN Rest
         ELSE << Frame(Contents[Content.file], Top.overridden \cup Content.redefined),
                 Frame(Content.contents, Top.overridden) >> \o Rest
    /\ UNCHANGED <<root, definitions>>

LeaveFrame ==
    /\ Loading /\ Top.contents = <<>>
    /\ agenda' = Tail(agenda)
    /\ UNCHANGED <<root, definitions, conflict>>

Load == LoadDefinition \/ SkipContent \/ EnterDiv \/ EnterInclude \/ LeaveFrame

LoaderSpec == LoaderInit /\ [][Load]_loaderVars

(* The patterns of a schema that is loaded.                                  *)
Loaded == agenda = <<>> /\ ~conflict
IntoPatterns == [name \in DOMAIN definitions |-> definitions[name].pattern]
=============================================================================
