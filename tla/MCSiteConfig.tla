---------------------------- MODULE MCSiteConfig ------------------------------
(***************************************************************************)
(* Small configurations: three files that extend each other in every way,  *)
(* a file of three sites that do, and command lines that name no file.     *)
(***************************************************************************)
EXTENDS SiteConfig

\* A site that sets nothing, and a file that sets nothing.
Blank == [extend |-> Unset, roots |-> Unset, ignore |-> Unset, recurse |-> Unset,
          timeout |-> Unset, headers |-> Unset, fragments |-> Unset, retry |-> Unset,
          html |-> Unset, limit |-> Unset]
Empty == [extend |-> Unset, concurrency |-> Unset, sites |-> <<>>]

Interval(initial, cap) == [count |-> Unset, interval |-> [initial |-> initial, cap |-> cap]]
Markup1(elements) == [elements |-> elements]

MCValue == {"main", "base", "other", "up", "next", "gone", "x", "y", "z", "nobody", "h", "g",
            "t", Bad}
MCTarget ==
    [path \in {"main", "base", "other"} |->
        [spelling \in {"up", "next", "gone"} |->
            CASE spelling = "up" -> "main"
              [] spelling = "next" -> IF path = "base" THEN "other" ELSE "base"
              [] OTHER -> "missing"]]

\* What a file may say of the site "x".
Says(path) ==
    {Blank,
     [Blank EXCEPT !.timeout = path, !.retry = Interval(path, Unset), !.html = Markup1(Unset),
                   !.headers = "agent" :> path],
     [Blank EXCEPT !.fragments = {path}, !.html = Markup1({path}), !.retry = Interval(Unset, path),
                   !.headers = "accept" :> path]}

FileSystems ==
    LET Contents(path) ==
            {[Empty EXCEPT !.extend = extend, !.concurrency = limit, !.sites = x] :
                extend \in {Unset, "up", "next"} \cup IF path = "other" THEN {"gone"} ELSE {},
                limit \in {Unset, path},
                x \in {<<>>} \cup {"x" :> said : said \in Says(path)}}
    IN  {[main |-> a, base |-> b, other |-> c] :
            a \in Contents("main"), b \in Contents("base"), c \in Contents("other")}

Root(path) == [host |-> "h", path |-> path]

\* Two sites may have the same root, and a site may have two.
SiteSystems ==
    {[main |-> [Empty EXCEPT !.sites =
        [x |-> [Blank EXCEPT !.extend = ex, !.roots = {Root(<<>>)}, !.recurse = TRUE,
                             !.timeout = tx, !.limit = tx, !.retry = Interval("x", "x"), !.fragments = {"x"},
                             !.ignore = ignored = "x"],
         y |-> [Blank EXCEPT !.extend = ey, !.roots = ry, !.retry = ty, !.recurse = cy,
                             !.ignore = ignored = "y"],
         z |-> [Blank EXCEPT !.extend = ez, !.roots = rz, !.fragments = {"z"}, !.timeout = "z",
                             !.ignore = ignored = "z"]]],
      base |-> Empty, other |-> Empty] :
        ex \in {Unset, "x", "y", "z"},
        ey \in {Unset, "x", "y", "z"},
        ez \in {Unset, "x", "y", "z", "nobody"},
        ry \in {Unset, {Root(<<1>>)}, {Root(<<1>>), Root(<<2, 1>>)}},
        rz \in {Unset, {Root(<<1, 1>>)}, {}, {Root(<<1>>)}},
        tx \in {Unset, "x", Bad},
        ty \in {Unset, Interval("y", Unset), Interval(Unset, "y")},
        cy \in {Unset, FALSE},
        ignored \in {"x", "y", "z", "none"}}

Check(file, places) == [kind |-> "check", file |-> file, places |-> places]

\* Command lines without a file, or with one that cannot be read.
Searches ==
    {Check(Unset, places) : places \in {<<>>, <<"gone">>, <<"gone", "base", "main">>, <<"other">>}}
    \cup {Check("gone", <<"main">>), Check("other", <<"main">>)}
    \cup {[kind |-> "init", places |-> <<place, "main">>] : place \in {"main", "gone"}}

CheckSites ==
    {[kind |-> "check-site", urls |-> urls, timeout |-> timeout, headers |-> <<>>,
      retry |-> [count |-> "t", initial |-> "t", cap |-> "t"], validation |-> validation,
      concurrency |-> Unset, ignore |-> {}] :
        urls \in SUBSET {Root(<<>>), Root(<<1>>), Root(<<1, 1>>), [host |-> "g", path |-> <<2>>], Bad}
                    \ {{}},
        timeout \in {"t", Bad},
        validation \in BOOLEAN}

MCWritten ==
    [Empty EXCEPT !.sites =
        [x |-> [Blank EXCEPT !.retry = Interval("x", "x")],
         y |-> [Blank EXCEPT !.extend = "x", !.roots = {Root(<<>>)}, !.recurse = TRUE]]]

MCCases ==
    {[commands |-> {Check("main", <<>>)}, contents |-> FileSystems],
     [commands |-> {Check("main", <<>>)}, contents |-> SiteSystems],
     [commands |-> Searches,
      contents |-> {[main |-> MCWritten, other |-> Garbage, base |-> content] :
                        content \in {Garbage, MCWritten, [Empty EXCEPT !.extend = "next"]}}],
     [commands |-> CheckSites, contents |-> {<<>>}]}
MCTestUrl == {[host |-> "h", path |-> path] :
                path \in {<<>>, <<1>>, <<1, 1, 2>>, <<1, 2>>, <<2>>, <<2, 1, 1>>}}
             \cup {[host |-> "g", path |-> <<>>], [host |-> "g", path |-> <<2, 1>>]}

=============================================================================
