--------------------------- MODULE MCWebValidator ----------------------------
(***************************************************************************)
(* Small sites: a crawl with several ways to a page and links in error; a  *)
(* document without a content type; and one site for each way of writing a *)
(* document.                                                               *)
(***************************************************************************)
EXTENDS SiteMeaning

CONSTANTS robots, sitemap, home, page, other      \* Documents.

MCDoc == {robots, sitemap, home, page, other}
MCDirectory == <<"//">>
MCToken ==
    {Space, Comma, "//", "#", "page", "other", "sitemap", "data:", "x", "b", "image", "1x", "2x"}
At_(file) == <<"//", file>>       \* A URL of the directory.

Blank ==
    [css |-> [failed |-> FALSE, errors |-> {}, entries |-> <<>>], html |-> <<>>, robots |-> <<>>,
     sitemap |-> [entries |-> <<>>, end |-> "whole"],
     svg |-> [syntax |-> {}, root |-> Written("svg", <<>>, <<>>, NoErrors, 0),
              namespace |-> SvgNamespace, elements |-> <<>>]]
As(type, written) == [Blank EXCEPT ![type] = written]

A(href) == Written("a", "href" :> href, <<>>, NoErrors, 1)
Pages(hrefs) == As("html", [i \in DOMAIN hrefs |-> A(hrefs[i])])
Text(text) == [kind |-> "text", text |-> text]
Loc(parent, pieces) == [parent |-> parent, image |-> FALSE, pieces |-> pieces]
SitemapOf(entries) == As("sitemap", [entries |-> entries, end |-> "whole"])

\* A site by what is in its documents.  Its robots.txt is missing unless it names a sitemap.
Plain ==
    [written |-> [d \in MCDoc |-> Blank],
     media |-> (robots :> "text/plain") @@ (sitemap :> "application/xml") @@ (home :> "text/html")
               @@ (page :> "text/html") @@ (other :> "text/html"),
     validation |-> [on |-> TRUE, ignored |-> {}],
     missing |-> {<<"//", "dead">>, <<"//", "robots">>},
     images |-> {},
     broken |-> {}]

\* Two roots that lead to one page, a cycle, a link in error and a page out of bounds.
Crawl ==
    [Plain EXCEPT
        !.missing = {At_("dead")},
        !.written[home] = Pages(<<At_("page"), At_("far")>>),
        !.written[page] = Pages(<<At_("alias"), At_("dead")>>)]

\* A page that a sitemap and a root lead to.
Mapped ==
    [Plain EXCEPT
        !.missing = {},
        !.written[robots] = As("robots", <<At_("sitemap")>>),
        !.written[sitemap] = SitemapOf(<<Loc("url", <<Text(At_("page"))>>)>>),
        !.written[home] = Pages(<<At_("page")>>)]

\* Links to a fragment, which is there or not.
Fragment(attributes) ==
    [Plain EXCEPT
        !.written[home] = Pages(<<<<"page", "#", "top">>>>),
        !.written[page] = As("html", <<Written("p", attributes, <<>>, NoErrors, 2)>>)]

\* A document without a content type that is linked as a style sheet, as a sitemap and as
\* a page.
Typeless ==
    [Plain EXCEPT
        !.media[other] = Nothing,
        !.written[home] =
            As("html", << Written("link", [rel |-> <<"stylesheet">>, href |-> <<"other">>], <<>>, NoErrors, 0),
                          Written("link", [rel |-> <<"sitemap">>, href |-> <<"other">>], <<>>, NoErrors, 0),
                          A(<<"other", "#", "top">>) >>),
        !.written[other] =
            [Blank EXCEPT !.css = [failed |-> FALSE, errors |-> {"unexpected"}, entries |-> <<>>],
                          !.sitemap = SitemapOf(<<Loc("url", <<Text(At_("page"))>>)>>).sitemap]]

\* A site of one document, whose links lead to images.
Single == [Plain EXCEPT !.images = {At_("alias"), At_("page"), At_("other")}]
HomeAs(type, written) == [Single EXCEPT !.written[home] = As(type, written)]
HomeElements(elements) == HomeAs("html", elements)

\* What can be wrong with an element.
Invalid_(attributes, missing) ==
    [kind |-> "invalid", attributes |-> attributes, children |-> {<<"b", "misplaced">>},
     missingAttributes |-> missing, missingChildren |-> missing]
SomeErrors ==
    {NoErrors, [kind |-> "unknownTag"], Invalid_({}, {"c"}),
     Invalid_({<<"href", "conflict">>, <<"href", "notAllowed">>, <<"x", "notAllowed">>}, {})}

Candidate(url, descriptor, separator) ==
    [url |-> url, descriptor |-> descriptor, separator |-> separator]
Srcsets ==
    {<<Candidate(<<"page">>, d1, "plain"), Candidate(u2, d2, s2)>> :
        d1 \in {Untyped, "2x"}, u2 \in {<<"other">>, <<"data:", Comma, "x">>}, d2 \in {Untyped, "1x"},
        s2 \in {"plain", "tight", "wide"}}
\* Without a descriptor or a space a comma is part of a URL.
LegalSrcsets == {s \in Srcsets : s[1].descriptor = Untyped => s[2].separator # "tight"}

ElementSites ==
    {HomeElements(<<Written("a", ("href" :> <<"page">>), <<>>, e, 2)>>) : e \in SomeErrors}
    \cup {[HomeElements(<<Written("a", <<>>, <<>>, e, 0)>>) EXCEPT !.validation.on = FALSE] : e \in SomeErrors}
    \cup {HomeElements(<<Written("img", ("src" :> <<"other">>), s, NoErrors, 1)>>) : s \in LegalSrcsets}
    \cup {HomeElements(<<Written("link", [rel |-> r, href |-> <<"page">>], <<>>, NoErrors, 0),
                         Written("link", ("href" :> <<"other">>), <<>>, NoErrors, 0)>>) :
            r \in {<<"preconnect">>, <<"stylesheet">>, <<"sitemap">>, <<"icon">>}}
    \cup {HomeElements(<<Written("meta", [property |-> p, content |-> <<"page">>], <<>>, NoErrors, 0)>>) :
            p \in {<<"og:image">>, <<"title">>}}
    \cup {HomeElements(<<A(<<"page">>), Written("base", b, <<>>, NoErrors, 0),
                         Written("base", ("href" :> <<"//", "far">>), <<>>, NoErrors, 1),
                         A(<<"other">>)>>) :
            b \in {<<>>, "href" :> <<"lib">>, "href" :> <<"//", "lib">>}}

Pieces == {Text(<<Space, "//", "page", Space>>), [kind |-> "data", text |-> <<"//", "page">>],
           [kind |-> "element", text |-> <<"b">>], [kind |-> "bad"]}
SomeLocs ==
    {<<>>, <<Text(<<Space>>)>>} \cup {<<p>> : p \in Pieces}
        \cup {<<Text(<<"//">>), p, Text(<<"other", Space>>)>> : p \in {[kind |-> "element", text |-> <<"b">>],
                                                                     [kind |-> "data", text |-> <<>>]}}
Entries == {[parent |-> parent, image |-> image, pieces |-> pieces] :
                parent \in {"url", "sitemap", "image"}, image \in BOOLEAN, pieces \in SomeLocs}
SitemapSite(written) ==
    [Single EXCEPT !.missing = {}, !.written[robots] = As("robots", <<At_("sitemap")>>),
                  !.written[sitemap] = As("sitemap", written)]
SitemapSites ==
    {SitemapSite([entries |-> <<e>>, end |-> "whole"]) : e \in Entries}
    \cup {SitemapSite([entries |-> <<Loc("url", <<Text(At_("page"))>>), Loc("sitemap", <<Text(At_("sitemap"))>>)>>,
                       end |-> "truncated", length |-> n]) : n \in 0..14}
    \cup {SitemapSite([entries |-> <<Loc("url", <<Text(At_("page"))>>)>>, end |-> "mismatch"])}

CssSites ==
    {[Single EXCEPT !.media[home] = "text/css", !.written[home] =
        As("css", [failed |-> f, errors |-> {},
                   entries |-> <<[kind |-> k, url |-> u], [kind |-> "url", url |-> <<"page">>]>>])] :
        f \in BOOLEAN, k \in {"url", "import"}, u \in {<<>>, <<"#", "top">>, <<"other">>}}

SvgSites ==
    {[Single EXCEPT !.media[home] = "image/svg+xml", !.validation = [on |-> v, ignored |-> i],
        !.written[home] = As("svg", [syntax |-> s, namespace |-> n,
            root |-> Written(r, ("xlink:href" :> <<"page">>), <<>>, NoErrors, 0),
            elements |-> <<Written("a", [href |-> <<"other">>, src |-> <<"dead">>], <<>>, NoErrors, 1)>>])] :
        v \in BOOLEAN, i \in {{}, {"svg"}}, s \in {{}, {"error"}}, n \in {"svg", Untyped}, r \in {"svg", "x"}}

OneDocument == UNION {ElementSites, SitemapSites, CssSites, SvgSites}

MCSites ==
    { Crawl, [Crawl EXCEPT !.broken = {<<page, "html">>}],
      [Crawl EXCEPT !.missing = {At_("dead"), At_("alias")}],
      Mapped, Typeless, Fragment([id |-> <<"top">>]), Fragment([id |-> <<"x">>, name |-> <<"y">>]) }
    \cup OneDocument

-----------------------------------------------------------------------------
DocOf(url) ==
    LET file == url[Len(url)]
    IN  IF url = <<>> \/ Len(url) # 2 \/ url[1] # "//" THEN Invalid
        ELSE CASE file = "robots" -> robots [] file = "sitemap" -> sitemap
               [] file \in {"home", "alias"} -> home [] file = "page" -> page
               [] file \in {"other", "far"} -> other
               [] file \notin {"robots", "sitemap", "home", "alias", "page", "other", "far"} -> Invalid

\* TLC computes these once instead of at each use.
Row(s) == <<>> \o s
Rows(s) == Row([i \in DOMAIN s |-> Row(s[i])])
Table(f) == f @@ <<>>

ElementsOf(site) ==
    LET As_(d, type) == Rows(Rendered(type, site.written[d][type], site.validation))
        All(d) == [css |-> As_(d, "css"), html |-> As_(d, "html"), robots |-> As_(d, "robots"),
                   sitemap |-> As_(d, "sitemap"), svg |-> As_(d, "svg")]
    IN  (robots :> All(robots)) @@ (sitemap :> All(sitemap)) @@ (home :> All(home))
            @@ (page :> All(page)) @@ (other :> All(other))

RobotsLink == Item(At_("robots"), "robots")
MCRoots == {Item(At_("home"), Untyped), Item(At_("alias"), Untyped)}
MCLink ==
    {RobotsLink} \cup {Item(At_(file), type) : file \in {"sitemap", "page", "other"}, type \in {"sitemap", Untyped}}
        \cup {Item(At_(file), "css") : file \in {"page", "other"}}
        \cup {Item(At_(file), Untyped) : file \in {"home", "alias", "dead", "far"}}
        \cup {Item(<<"//", file, "#", "top">>, Untyped) : file \in {"home", "page", "other"}}
        \cup {Item(<<"//", "lib", file>>, Untyped) : file \in {"page", "other"}}
        \cup {Item(<<"//">> \o url, Untyped) : url \in {<<"data:", Comma, "x">>, <<"data:">>, <<"x">>}}

\* A URL without its fragment, and the fragment.
Bare(url) == SubSeq(url, 1, Until(url, "#"))
FragmentOf(url) == SubSeq(url, Until(url, "#") + 2, Len(url))

MCTarget(site) ==
    Table([l \in Link |-> IF Bare(l[2]) \in site.missing THEN Invalid
                          ELSE IF Bare(l[2]) \in site.images THEN Nothing
                          ELSE DocOf(Bare(l[2]))])
MCLacks(site) ==
    {l \in Link : /\ FragmentOf(l[2]) # <<>> /\ DocOf(Bare(l[2])) \in MCDoc
                    /\ ~HasElement(RenderPage(site.written[DocOf(Bare(l[2]))].html), FragmentOf(l[2]))}
WebOf(site) ==
    [site |-> site, target |-> MCTarget(site), media |-> site.media, elements |-> ElementsOf(site),
     lacks |-> MCLacks(site), broken |-> site.broken]
MCWebs == {WebOf(site) : site \in MCSites}

MCRecursive == {l \in Link : l[2] # <<"//", "far">>}
MCBefore == Table([l \in Link |-> IF l[3] = "robots" THEN Nothing ELSE RobotsLink])
MCDeclared == Table([l \in Link |-> IF l[3] = Untyped THEN Nothing ELSE l[3]])
==============================================================================
