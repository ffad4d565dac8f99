------------------------------ MODULE WebGraph ------------------------------
(***************************************************************************)
(* The web as a crawl meets it: what links lead to, the types of documents *)
(* and the links in them (muffy/src/web_validator.rs).                     *)
(*                                                                         *)
(* What a link leads to is settled by the HTTP client, once in a run (see  *)
(* HttpClient): a document, an error, or neither.  What a document is made *)
(* of as one type or another is what Documents computes.                   *)
(***************************************************************************)
EXTENDS Naturals, Sequences

CONSTANTS
    Doc,            \* Final URLs of documents.
    Link,           \* Links: URLs with what their element asks of them.
    Roots,          \* Config::roots.
    Webs,           \* The webs that a run may meet (see IsWeb).
    Invalid,        \* The link is in error: no document comes of it.
    Nothing,        \* The link is fine and no document comes of it; no type, no link.
    Wrong,          \* An item of a document that is in error by itself.
    Recursive,      \* Links under the path of a recursive site, and data links.
    Before,         \* The robots.txt link validated before each link, or Nothing.
    Declared        \* The type that a link's element declares, or Nothing.

\* Where the links of the roots come from.
Root == "root"

\* DocumentType
Type == {"css", "html", "robots", "sitemap", "svg"}
Media == {"text/css", "text/html", "text/plain", "application/xml", "image/svg+xml", "other"}

\* What a crawl tells at its end.
Outcome == {"success", "failure"}

\* The response of each link: its document, or Invalid, or Nothing; the content type of
\* each document; its elements and their items, by the type it is validated as; the
\* links with a fragment that no element of their document has; and the documents
\* whose task fails, as a page with an unusable base or a robots.txt that is not text.
\* An SVG image in a data URL is validated for the site of the document that inserts it
\* first; here the documents with the same image are of one site, so that its elements
\* are settled.
IsWeb(w) ==
    /\ w.target \in [Link -> Doc \cup {Invalid, Nothing}]
    /\ w.media \in [Doc -> Media \cup {Nothing}]
    /\ w.elements \in [Doc -> [Type -> Seq(Seq(Link \cup {Wrong}))]]
    /\ w.lacks \subseteq Link
    /\ w.broken \subseteq Doc \X Type

ASSUME LinkAssumption ==
    /\ Roots \subseteq Link /\ Recursive \subseteq Link
    /\ \A w \in Webs : IsWeb(w)
    /\ Before \in [Link -> Link \cup {Nothing}]
    /\ Declared \in [Link -> Type \cup {Nothing}]
ASSUME NoneAssumption ==
    /\ {Invalid, Nothing} \cap (Doc \cup Link \cup Type \cup Media \cup Outcome) = {}
    /\ Invalid # Nothing /\ Wrong \notin Link /\ Root \notin Doc

VARIABLE web        \* What links and documents turn out to be; it never changes.

-----------------------------------------------------------------------------
\* The content types that a declared type accepts.
AcceptedMedia(type) ==
    CASE type = "css"     -> {"text/css"}
      [] type = "html"    -> {"text/html"}
      [] type = "robots"  -> {"text/plain"}
      [] type = "sitemap" -> {"application/xml"}
      [] type = "svg"     -> {"image/svg+xml"}

\* The type that a content type has by itself.
OwnType(media) ==
    CASE media = "text/css"      -> "css"
      [] media = "text/html"     -> "html"
      [] media = "image/svg+xml" -> "svg"
      [] media \in {"text/plain", "application/xml", "other"} -> Nothing

\* validate_document_type
DocumentType(media, declared) ==
    IF media = Nothing THEN declared
    ELSE IF declared = Nothing THEN OwnType(media)
    ELSE IF media \in AcceptedMedia(declared) THEN declared
    ELSE Invalid

TypeOf(l) == DocumentType(web.media[web.target[l]], Declared[l])

\* The result of a link is an error, of the client, of its type or of its fragment.
Fails(l) ==
    \/ web.target[l] = Invalid
    \/ /\ web.target[l] \in Doc
       /\ TypeOf(l) = Invalid \/ (TypeOf(l) \in {"html", "svg"} /\ l \in web.lacks)

\* The link leads to a document to crawl.
Crawls(l) == l \in Recursive /\ web.target[l] \in Doc /\ ~Fails(l) /\ TypeOf(l) # Nothing

\* The places of a document's items as a type, the items, and the links among them.
Places(d, type) ==
    UNION {{i} \X DOMAIN web.elements[d][type][i] : i \in DOMAIN web.elements[d][type]}
ItemAt(d, type, p) == web.elements[d][type][p[1]][p[2]]
Items(d, type) == {ItemAt(d, type, p) : p \in Places(d, type)}
LinksOf(d, type) == IF type = Nothing THEN {} ELSE Items(d, type) \ {Wrong}

\* The places whose results are errors.
Errors(d, type) ==
    {p \in Places(d, type) : ItemAt(d, type, p) = Wrong \/ Fails(ItemAt(d, type, p))}

\* The documents that links lead to, robots.txt files included, if they are to be crawled.
Crawled(links) ==
    {web.target[l] : l \in {k \in links \cup {Before[l] : l \in links} : k \in Link /\ Crawls(k)}}

=============================================================================
