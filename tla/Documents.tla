------------------------------ MODULE Documents ------------------------------
(***************************************************************************)
(* What a document is made of, by the type that it is validated as: the    *)
(* validate_* functions of muffy/src/web_validator.rs, its srcset parser,  *)
(* muffy/src/sitemap.rs and the entries of muffy-css.                      *)
(*                                                                         *)
(* The parsers of the formats are external: a document is the tree, the    *)
(* events or the entries that they give.  A URL, a value of an attribute   *)
(* or a text is a sequence of tokens, among them a space and a comma.      *)
(*                                                                         *)
(* The result is the elements of the document's output, each a sequence of *)
(* items: a link, with the type it declares, or an item in error already.  *)
(***************************************************************************)
EXTENDS Naturals, Sequences, FiniteSets, SequencesExt

Untyped == "none"       \* No declared type, no namespace, no base.
ErrorItem == <<"error">> \* An item that is an error from the start.
Space == " "
Comma == ","

HrefAttributes == <<"href", "xlink:href">>
OriginRelations == {<<"dns-prefetch">>, <<"preconnect">>}
LinkProperties == {<<"og:image">>, <<"twitter:image">>}
FragmentAttributes == {"id", "name", "xml:id"}
SvgNamespace == "svg"
SvgRoot == "svg"

Item(url, type) == <<"link", url, type>>

\* Url::join: a value with a host is a URL, and any other is relative to the base.
Join(base, value) == IF value # <<>> /\ value[1] = "//" THEN value ELSE base \o value

-----------------------------------------------------------------------------
\* What of s is in set, in the order of s: SelectSeq by a set, as a recursive function.
Those(s, set) ==
    LET those[i \in 0..Len(s)] ==
            IF i = 0 THEN <<>>
            ELSE IF s[i] \in set THEN Append(those[i - 1], s[i]) ELSE those[i - 1]
    IN  those[Len(s)]

Earliest(places) == CHOOSE i \in places : \A j \in places : i <= j
Latest(places) == CHOOSE i \in places : \A j \in places : j <= i

TrimStart(s, tokens) ==
    LET kept == {i \in DOMAIN s : s[i] \notin tokens}
    IN  IF kept = {} THEN <<>> ELSE SubSeq(s, Earliest(kept), Len(s))

TrimEnd(s, tokens) ==
    LET kept == {i \in DOMAIN s : s[i] \notin tokens}
    IN  IF kept = {} THEN <<>> ELSE SubSeq(s, 1, Latest(kept))

\* The length of s before the first token, all of s if there is none.
Until(s, token) ==
    LET places == {i \in DOMAIN s : s[i] = token}
    IN  IF places = {} THEN Len(s) ELSE Earliest(places) - 1

\* Faulty: URLs end at the first comma.
ParseAtCommas(srcset) ==
    LET Suffix(n) == SubSeq(srcset, Len(srcset) - n + 1, Len(srcset))
        parse[n \in 0..Len(srcset)] ==
            LET rest == TrimStart(Suffix(n), {Space, Comma})
                comma == Until(rest, Comma)
                url == SubSeq(rest, 1, IF comma < Until(rest, Space) THEN comma ELSE Until(rest, Space))
            IN  IF url = <<>> THEN <<>> ELSE <<url>> \o parse[Len(rest) - comma]
    IN  parse[Len(srcset)]

\* parse_srcset: a URL ends at a space, less the commas at its end; what follows
\* up to the next comma is its descriptor.  parse[n] is of the last n tokens.
ParseSrcset(srcset) ==
    LET Suffix(n) == SubSeq(srcset, Len(srcset) - n + 1, Len(srcset))
        parse[n \in 0..Len(srcset)] ==
            LET rest == TrimStart(Suffix(n), {Space, Comma})
                url == TrimEnd(SubSeq(rest, 1, Until(rest, Space)), {Comma})
                after == SubSeq(rest, Len(url) + 1, Len(rest))
            IN  IF url = <<>> THEN <<>> ELSE <<url>> \o parse[Len(after) - Until(after, Comma)]
    IN  parse[Len(srcset)]

-----------------------------------------------------------------------------
\* A document is its nodes in the order that their tags begin, each a text or an
\* element with its depth, a name, a namespace, attributes and what muffy_validation
\* says of it.
IsElement(node) == node.kind = "element"
Has(element, key) == key \in DOMAIN element.attributes

\* The walk of validate_html_element and the like: an element, then its children.
Elements(nodes) == {i \in DOMAIN nodes : IsElement(nodes[i])}

\* Document::base: the href of the first base element, if it has one.
BaseOf(url, nodes) ==
    LET bases == {i \in Elements(nodes) : nodes[i].name = "base"}
        first == nodes[Earliest(bases)]
    IN  IF bases # {} /\ Has(first, "href") THEN Join(url, first.attributes["href"]) ELSE url

\* has_element
HasElement(nodes, fragment) ==
    \E i \in Elements(nodes) :
        \E key \in DOMAIN nodes[i].attributes \cap FragmentAttributes :
            nodes[i].attributes[key] = fragment

\* spawn_markup_errors: an item for each attribute and each child in error, one
\* for all missing attributes and one for all missing children.
MarkupItems(errors) ==
    LET names(pairs) == Cardinality({p[1] : p \in pairs})
        once(missing) == IF missing = {} THEN 0 ELSE 1
        count == CASE errors.kind = "ok"         -> 0
                   [] errors.kind = "unknownTag" -> 1
                   [] errors.kind = "invalid"    ->
                        names(errors.attributes) + names(errors.children)
                            + once(errors.missingAttributes) + once(errors.missingChildren)
    IN  [i \in 1..count |-> ErrorItem]

RelationType(element) ==
    IF Has(element, "rel") THEN
        IF element.attributes["rel"] = <<"sitemap">> THEN "sitemap"
        ELSE IF element.attributes["rel"] = <<"stylesheet">> THEN "css" ELSE Untyped
    ELSE Untyped

HrefItems(element, base) ==
    LET keys == Those(HrefAttributes, DOMAIN element.attributes)
    IN  [i \in DOMAIN keys |-> Item(Join(base, element.attributes[keys[i]]), Untyped)]

\* validate_html_element_content: the links of an element ...
HtmlLinks(element, base) ==
    LET value(key) == element.attributes[key]
        source == IF Has(element, "src") THEN <<Item(Join(base, value("src")), Untyped)>> ELSE <<>>
        urls == IF Has(element, "srcset") THEN ParseSrcset(value("srcset")) ELSE <<>>
    IN  CASE element.name = "base" -> <<>>
          [] element.name = "link" ->
                IF Has(element, "href") /\ ~(Has(element, "rel") /\ value("rel") \in OriginRelations)
                THEN <<Item(Join(base, value("href")), RelationType(element))>> ELSE <<>>
          [] element.name = "meta" ->
                IF /\ Has(element, "content") /\ Has(element, "property")
                   /\ value("property") \in LinkProperties
                THEN <<Item(Join(base, value("content")), Untyped)>> ELSE <<>>
          [] element.name \notin {"base", "link", "meta"} ->
                HrefItems(element, base) \o source
                    \o [i \in DOMAIN urls |-> Item(Join(base, urls[i]), Untyped)]

NonEmpty(elements) == Those(elements, ToSet(elements) \ {<<>>})

\* ... and its items, for all elements that have one.  validation is what the site
\* of the base configures: whether markup is validated at all, and the elements exempt.
Html(url, nodes, validation) ==
    LET base == BaseOf(url, nodes)
        items(e) == HtmlLinks(e, base) \o (IF validation.on THEN MarkupItems(e.errors) ELSE <<>>)
    IN  NonEmpty([i \in DOMAIN nodes |-> IF i \in Elements(nodes) THEN items(nodes[i]) ELSE <<>>])

\* The errors of a root element, which its name may exempt it from.
RootItems(element, validation) ==
    IF ~validation.on \/ element.name \in validation.ignored THEN <<>>
    ELSE (IF element.namespace # SvgNamespace THEN <<ErrorItem>> ELSE <<>>)
            \o (IF element.name # SvgRoot THEN <<ErrorItem>> ELSE <<>>)

\* validate_svg.  Syntax errors come first, each once; the roots are the elements
\* at the top of the document.
Svg(url, syntaxErrors, nodes, validation) ==
    LET syntax == [i \in 1..Cardinality(syntaxErrors) |-> <<ErrorItem>>]
        items(e) ==
            (IF e.depth = 0 THEN RootItems(e, validation) ELSE <<>>)
                \o HrefItems(e, url) \o (IF validation.on THEN MarkupItems(e.errors) ELSE <<>>)
    IN  syntax \o NonEmpty([i \in DOMAIN nodes |->
                              IF i \in Elements(nodes) THEN items(nodes[i]) ELSE <<>>])

\* muffy_css::parse.  An empty URL, or one of a fragment only, is none of the style
\* sheet's.
CssEntries(sheet) ==
    Those(sheet.entries, {e \in ToSet(sheet.entries) : e.url # <<>> /\ e.url[1] # "#"})

\* validate_css
Css(url, sheet) ==
    LET entries == CssEntries(sheet)
        type(entry) == IF entry.kind = "import" THEN "css" ELSE Untyped
    IN  IF sheet.failed THEN <<<<ErrorItem>>>>
        ELSE [i \in 1..Cardinality(sheet.errors) |-> <<ErrorItem>>]
                \o [i \in DOMAIN entries |-> <<Item(Join(url, entries[i].url), type(entries[i]))>>]

\* validate_robots
Robots(sitemaps) ==
    [i \in DOMAIN sitemaps |-> <<Item(sitemaps[i], "sitemap")>>]

-----------------------------------------------------------------------------
\* The loop of sitemap::parse over the events of an XML reader, which checks that
\* tags match.  location is a text, or NoLocation.
NoLocation == <<"nowhere">>
SitemapStart == [elements |-> <<>>, location |-> NoLocation, entries |-> <<>>, failed |-> FALSE]

Top(state) == IF state.elements = <<>> THEN Untyped ELSE Last(state.elements)

Entry(parent, location) == [kind |-> IF parent = "sitemap" THEN "sitemap" ELSE "url",
                            url |-> location]

OnStart(state, tag) ==
    [state EXCEPT !.location = IF tag = "loc" /\ Top(state) \in {"sitemap", "url"} THEN <<>> ELSE @,
                  !.elements = Append(@, tag)]

OnText(state, text) ==
    IF state.location = NoLocation \/ Top(state) # "loc" THEN state
    ELSE [state EXCEPT !.location = @ \o text]

\* A text that cannot be decoded or unescaped is an error only where it is read.
OnBadText(state) ==
    [state EXCEPT !.failed = state.location # NoLocation /\ Top(state) = "loc"]

OnEnd(state) ==
    LET parents == Front(state.elements)
        location == TrimEnd(TrimStart(state.location, {Space}), {Space})
        parent == IF parents = <<>> THEN Untyped ELSE Last(parents)
    IN  IF Top(state) # "loc" \/ state.location = NoLocation
        THEN [state EXCEPT !.elements = parents]
        ELSE [state EXCEPT !.elements = parents, !.location = NoLocation,
                !.entries = IF location = <<>> THEN @ ELSE Append(@, Entry(parent, location))]

OnEvent(state, event) ==
    CASE state.failed        -> state
      [] ~state.failed ->
           (CASE event.kind = "start" -> OnStart(state, event.name)
              [] event.kind = "text"  -> OnText(state, event.text)
              [] event.kind = "badText" -> OnBadText(state)
              [] event.kind = "end"   -> OnEnd(state)
              [] event.kind = "bad"   -> [state EXCEPT !.failed = TRUE]
              [] event.kind = "other" -> state)

Loop(state, events) ==
    LET after[i \in 0..Len(events)] ==
            IF i = 0 THEN state ELSE OnEvent(after[i - 1], events[i])
    IN  after[Len(events)]

\* validate_sitemap: the entries, or one error for all of them.
Sitemap(events) ==
    LET final == Loop(SitemapStart, events)
    IN  IF final.failed THEN <<<<ErrorItem>>>>
        ELSE [i \in DOMAIN final.entries |->
                <<Item(final.entries[i].url,
                       IF final.entries[i].kind = "sitemap" THEN "sitemap" ELSE Untyped)>>]

=============================================================================
