---------------------------- MODULE MCHttpClient -----------------------------
(***************************************************************************)
(* Small webs for HttpClient: three hosts with the robots.txt URLs r1, r2  *)
(* and r3, the pages a and b of the first host, c of the second, and d and *)
(* e of the third.                                                         *)
(***************************************************************************)
EXTENDS HttpClient, TLC

CONSTANTS r1, r2, r3, a, b, c, d, e

MCUrl == {r1, r2, r3, a, b, c, d, e}
MCRobotsUrl == {r1, r2, r3}
MCRobotsOf ==
    (r1 :> r1) @@ (a :> r1) @@ (b :> r1) @@ (r2 :> r2) @@ (c :> r2)
    @@ (r3 :> r3) @@ (d :> r3) @@ (e :> r3)

\* The robots.txt URLs of the first two hosts redirect to each other, in a loop
\* too, and their links redirect everywhere.  That of the third redirects to a page
\* of its host, which may redirect back: its links are got as validate_link does,
\* the robots.txt first.
MCServes ==
    (r1 :> {Page({}), Page({b}), Redirect(r2), Failed})
    @@ (r2 :> {Page({c}), Missing, Redirect(r1)})
    @@ (a :> {Page({}), Redirect(c), Redirect(r1)})
    @@ (b :> {Page({}), Broken})
    @@ (c :> {Redirect(a), Binary})
    @@ (r3 :> {Redirect(d), Page({e}), Binary})
    @@ (d :> {Page({}), Page({e}), Redirect(e), Redirect(r3)})
    @@ (e :> {Page({}), Redirect(d), Failed})
MCProgram == {<<a>>, <<b>>, <<c>>, <<r2, a>>, <<r3, d>>, <<r3, e>>}

\* A link to the first host redirects to a page of the second, whose robots.txt
\* redirects to that very page.  Each task gets r1 first.
ShortLinkServes ==
    [u \in MCUrl |->
        CASE u = r1 -> {Missing} [] u \in {a, r2} -> {Redirect(c)} [] OTHER -> {Page({})}]
ShortLinkProgram == {<<r1, a>>}
==============================================================================
