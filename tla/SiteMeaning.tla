---------------------------- MODULE SiteMeaning ------------------------------
(***************************************************************************)
(* Sites as their authors mean them, what the parsers make of them, and    *)
(* that the crawl reports of each document what its author wrote.          *)
(***************************************************************************)
EXTENDS WebValidator, Documents, TLC

CONSTANTS
    Directory,  \* The URL that relative ones of these documents are relative to.
    Token       \* What URLs, values of attributes and texts are made of.

ASSUME TokenAssumption == NoLocation[1] \notin Token /\ "image" \in Token

NoErrors == [kind |-> "ok"]
Node(depth, tag, attributes, errors) ==
    [kind |-> "element", depth |-> depth, name |-> tag, namespace |-> SvgNamespace,
     attributes |-> attributes, errors |-> errors]
TextNode(depth) == [kind |-> "text", depth |-> depth]

\* An element as written: its attributes, the candidates of its srcset if any, what is
\* wrong with it, and how deep in the page it is.
Written(tag, attributes, candidates, errors, depth) ==
    [name |-> tag, attributes |-> attributes, candidates |-> candidates,
     errors |-> errors, depth |-> depth]

\* Candidates of a srcset, a URL with a descriptor, after one separator or another.
Separators == [plain |-> <<Comma, Space>>, tight |-> <<Comma>>, wide |-> <<Space, Comma, Space>>]
RenderCandidate(c) ==
    c.url \o (IF c.descriptor = Untyped THEN <<>> ELSE <<Space, c.descriptor>>)
RenderSrcset(candidates) ==
    FlattenSeq([i \in DOMAIN candidates |->
        (IF i = 1 THEN <<>> ELSE Separators[candidates[i].separator]) \o RenderCandidate(candidates[i])])

RenderElement(e) ==
    LET attributes == IF e.candidates = <<>> THEN e.attributes
                      ELSE [key \in DOMAIN e.attributes \cup {"srcset"} |->
                              IF key = "srcset" THEN RenderSrcset(e.candidates) ELSE e.attributes[key]]
        around == FlattenSeq([n \in 1..e.depth |-> <<Node(n - 1, "p", <<>>, NoErrors), TextNode(n)>>])
    IN  around \o <<Node(e.depth, e.name, attributes, e.errors)>>
RenderPage(elements) == FlattenSeq([i \in DOMAIN elements |-> RenderElement(elements[i])])

\* An entry of a sitemap: a parent, a nested element with a loc of its own or not, and the
\* pieces of its loc.  The reader trims texts, and not character data.
Strip(text) == TrimEnd(TrimStart(text, {Space}), {Space})
Start(tag) == [kind |-> "start", name |-> tag]
Close(tag) == [kind |-> "end"]
RenderPiece(piece) ==
    CASE piece.kind = "text"    -> <<[kind |-> "text", text |-> Strip(piece.text)]>>
      [] piece.kind = "data"    -> <<[kind |-> "text", text |-> piece.text]>>
      [] piece.kind = "bad"     -> <<[kind |-> "badText"]>>
      [] piece.kind = "element" -> <<Start("b"), [kind |-> "text", text |-> piece.text], Close("b")>>
Around(tag, events) == <<Start(tag)>> \o events \o <<Close(tag)>>
RenderEntry(e) ==
    Around(e.parent,
        (IF e.image THEN Around("image", Around("loc", <<[kind |-> "text", text |-> <<"image">>]>>))
                    ELSE <<[kind |-> "other"]>>)
          \o Around("loc", FlattenSeq([i \in DOMAIN e.pieces |-> RenderPiece(e.pieces[i])])))
Whole(entries) == Around("set", FlattenSeq([i \in DOMAIN entries |-> RenderEntry(entries[i])]))
RenderSitemap(s) ==
    CASE s.end = "whole"     -> Whole(s.entries)
      [] s.end = "mismatch"  -> Front(Whole(s.entries)) \o <<[kind |-> "bad"]>>
      [] s.end = "truncated" -> SubSeq(Whole(s.entries), 1, s.length)

\* What Documents makes of a document that was written so.
Rendered(type, written, validation) ==
    CASE type = "css"     -> Css(Directory, written)
      [] type = "html"    -> Html(Directory, RenderPage(written), validation)
      [] type = "robots"  -> Robots(written)
      [] type = "sitemap" -> Sitemap(RenderSitemap(written))
      [] type = "svg"     ->
            Svg(Directory, written.syntax,
                <<[RenderElement(written.root)[1] EXCEPT !.namespace = written.namespace]>>
                    \o [n \in DOMAIN RenderPage(written.elements) |->
                          [RenderPage(written.elements)[n] EXCEPT !.depth = @ + 1]],
                validation)

-----------------------------------------------------------------------------
\* Documents as they can be written, of any length.
IsSequence(s) == s \in Seq(ToSet(s))

\* A URL of a srcset has no space and no comma at its ends.  Without a descriptor or a space
\* a comma is part of a URL.
LegalCandidate(c) ==
    /\ c.url \in Seq(Token) /\ c.url # <<>>
    /\ \A i \in DOMAIN c.url : c.url[i] # Space
    /\ c.url[1] # Comma /\ c.url[Len(c.url)] # Comma
    /\ c.descriptor \in Token \cup {Untyped} /\ c.descriptor \notin {Space, Comma}
    /\ c.separator \in {"plain", "tight", "wide"}
LegalSrcset(cs) ==
    /\ IsSequence(cs)
    /\ \A i \in DOMAIN cs : LegalCandidate(cs[i])
    /\ \A i \in DOMAIN cs \ {1} : cs[i - 1].descriptor = Untyped => cs[i].separator # "tight"

\* What muffy_validation can say of an element.
LegalErrors(errors) ==
    \/ errors = NoErrors
    \/ errors.kind = "unknownTag"
    \/ /\ errors.kind = "invalid"
       /\ IsFiniteSet(errors.attributes) /\ IsFiniteSet(errors.children)
       /\ \/ errors.attributes # {} \/ errors.children # {}
          \/ errors.missingAttributes # {} \/ errors.missingChildren # {}

\* A srcset is written by its candidates.
LegalElement(e) ==
    /\ e.depth \in Nat
    /\ LegalSrcset(e.candidates) /\ "srcset" \notin DOMAIN e.attributes
    /\ LegalErrors(e.errors)
LegalPage(elements) == IsSequence(elements) /\ \A i \in DOMAIN elements : LegalElement(elements[i])
LegalImage(image) ==
    /\ IsFiniteSet(image.syntax)
    /\ LegalElement(image.root) /\ image.root.depth = 0
    /\ LegalPage(image.elements)
LegalSheet(sheet) ==
    IsSequence(sheet.entries) /\ IsFiniteSet(sheet.errors) /\ sheet.failed \in BOOLEAN

\* A sitemap that is cut off has no text that cannot be decoded.
Piece == [kind : {"text", "data", "element"}, text : Seq(Token)] \cup [kind : {"bad"}]
MapEntry(tags) == [parent : tags, image : BOOLEAN, pieces : Seq(Piece)]
HasBad(pieces) == \E i \in DOMAIN pieces : pieces[i].kind = "bad"
LegalSitemap(s) ==
    /\ s.entries \in Seq(MapEntry({s.entries[i].parent : i \in DOMAIN s.entries}))
    /\ s.end \in {"whole", "mismatch", "truncated"}
    /\ s.end = "truncated" =>
          /\ s.length \in 0..Len(Whole(s.entries))
          /\ \A i \in DOMAIN s.entries : ~HasBad(s.entries[i].pieces)

Legal(type, written) ==
    CASE type = "css"     -> LegalSheet(written)
      [] type = "html"    -> LegalPage(written)
      [] type = "robots"  -> IsSequence(written)
      [] type = "sitemap" -> LegalSitemap(written)
      [] type = "svg"     -> LegalImage(written)

\* The documents of a web are what Documents makes of its site.
IsOf(w, site) ==
    /\ site.validation.on \in BOOLEAN
    /\ \A d \in Doc, type \in Type :
          /\ Legal(type, site.written[d][type])
          /\ w.elements[d][type] = Rendered(type, site.written[d][type], site.validation)
ASSUME SiteAssumption == \A w \in Webs : IsOf(w, w.site)

-----------------------------------------------------------------------------
\* The links of a page: the resources that its elements name, relative to the first base of
\* the page even if it comes after them.
Values(e, names) == {e.attributes[n] : n \in DOMAIN e.attributes \cap names}
MeantBase(elements) ==
    LET bases == {i \in DOMAIN elements : elements[i].name = "base"}
    IN  IF bases = {} THEN Directory
        ELSE LET first == elements[Earliest(bases)]
             IN  IF "href" \in DOMAIN first.attributes THEN Join(Directory, first.attributes["href"])
                 ELSE Directory

MeantLinks(e) ==
    LET relations == Values(e, {"rel"})
        type == IF <<"stylesheet">> \in relations THEN "css"
                ELSE IF <<"sitemap">> \in relations THEN "sitemap" ELSE Untyped
    IN  CASE e.name = "link" ->
                (IF relations \cap OriginRelations # {} THEN {} ELSE Values(e, {"href"})) \X {type}
          [] e.name = "meta" ->
                (IF Values(e, {"property"}) \cap LinkProperties = {} THEN {}
                 ELSE Values(e, {"content"})) \X {Untyped}
          [] e.name = "base" -> {}
          [] e.name \notin {"link", "meta", "base"} ->
                (Values(e, {"href", "xlink:href", "src"})
                    \cup {e.candidates[i].url : i \in DOMAIN e.candidates}) \X {Untyped}

\* The entries of a sitemap that are complete, the text of their loc being all of its own text.
OwnText(piece) ==
    CASE piece.kind = "text"              -> Strip(piece.text)
      [] piece.kind = "data"              -> piece.text
      [] piece.kind \in {"bad", "element"} -> <<>>
MeantText(pieces) == Strip(FlattenSeq([i \in DOMAIN pieces |-> OwnText(pieces[i])]))
MeantEntries(s) ==
    LET before(i) == FlattenSeq([j \in 1..i |-> RenderEntry(s.entries[j])])
    IN  {i \in DOMAIN s.entries :
            /\ s.entries[i].parent \in {"url", "sitemap"}
            /\ s.end = "truncated" => Len(before(i)) <= s.length}
MeantSitemap(s) ==
    LET entries == {s.entries[i] : i \in MeantEntries(s)}
        texts == {e \in entries : MeantText(e.pieces) # <<>>}
    IN  IF s.end = "mismatch" \/ \E e \in entries : \E i \in DOMAIN e.pieces : e.pieces[i].kind = "bad"
        THEN {ErrorItem}
        ELSE {Item(MeantText(e.pieces), IF e.parent = "sitemap" THEN "sitemap" ELSE Untyped) : e \in texts}

ErrorIf(condition) == IF condition THEN {ErrorItem} ELSE {}
Meant(type, written, validation) ==
    CASE type = "css" ->
            IF written.failed THEN {ErrorItem}
            ELSE {Item(Join(Directory, e.url), IF e.kind = "import" THEN "css" ELSE Untyped) :
                    e \in {f \in ToSet(written.entries) : f.url # <<>> /\ f.url[1] # "#"}}
                   \cup ErrorIf(written.errors # {})
      [] type = "html" ->
            {Item(Join(MeantBase(written), l[1]), l[2]) : l \in UNION {MeantLinks(e) : e \in ToSet(written)}}
               \cup ErrorIf(validation.on /\ \E e \in ToSet(written) : e.errors # NoErrors)
      [] type = "robots" -> {Item(url, "sitemap") : url \in ToSet(written)}
      [] type = "sitemap" -> MeantSitemap(written)
      [] type = "svg" ->
            LET all == {written.root} \cup ToSet(written.elements)
            IN  {Item(Join(Directory, v), Untyped) : v \in UNION {Values(e, {"href", "xlink:href"}) : e \in all}}
                  \cup ErrorIf(written.syntax # {})
                  \cup ErrorIf(validation.on /\ \E e \in all : e.errors # NoErrors)
                  \cup ErrorIf(/\ validation.on /\ written.root.name \notin validation.ignored
                               /\ written.root.name # SvgRoot \/ written.namespace # SvgNamespace)

\* In a run that ended by itself each document was reported with the links that its author
\* wrote, with their types, and with an error of its own if and only if the author made one.
ReportsWhatIsWritten ==
    phase = "ended" =>
        \A d \in Reported :
            LET written == web.site.written[d][kind[d]]
            IN  Items(d, kind[d]) = Meant(kind[d], written, web.site.validation)

==============================================================================
