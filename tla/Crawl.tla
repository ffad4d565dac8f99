------------------------------- MODULE Crawl --------------------------------
(***************************************************************************)
(* What a crawl promises, without tasks, channels and buffers: links are   *)
(* followed in any order, the documents that they lead to are found, and a *)
(* document is reported once all links in it were followed.  The crawl is  *)
(* over when nothing is left to follow or to report, or is given up for a  *)
(* root link in error, a document that cannot be read or output that       *)
(* cannot be written.  WebValidator implements this specification.         *)
(***************************************************************************)
EXTENDS WebGraph

CONSTANT Verbose    \* Whether documents without errors are printed too.

VARIABLES
    found,      \* The documents found so far.
    kind,       \* The type of each of them.
    open,       \* Links to follow, each with the document or Root that it comes from.
    reported,   \* The documents reported so far.
    outcome     \* What the crawl tells at its end.

vars == <<web, found, kind, open, reported, outcome>>

Init ==
    /\ web \in Webs
    /\ found = {}
    /\ kind = [d \in Doc |-> Nothing]
    /\ open = {Root} \X Roots
    /\ reported = {}
    /\ outcome = Nothing

Unreadable(d) == <<d, kind[d]>> \in web.broken

\* Links are followed from the roots and from documents that can be read.
CanFollow(o) == outcome = Nothing /\ o \in open /\ (o[1] = Root \/ ~Unreadable(o[1]))

\* A link, or the robots.txt before it, leads to a new document, whose type it settles.
Find(o, l) ==
    /\ CanFollow(o)
    /\ l \in {o[2], Before[o[2]]} \ {Nothing}
    /\ Crawls(l) /\ web.target[l] \notin found
    /\ found' = found \cup {web.target[l]}
    /\ kind' = [kind EXCEPT ![web.target[l]] = TypeOf(l)]
    /\ open' = open \cup ({web.target[l]} \X LinksOf(web.target[l], TypeOf(l)))
    /\ UNCHANGED <<web, reported, outcome>>

\* All that a link leads to was found.
Settle(o) ==
    /\ CanFollow(o)
    /\ Crawled({o[2]}) \subseteq found
    /\ open' = open \ {o}
    /\ UNCHANGED <<web, found, kind, reported, outcome>>

RootsAreFine == \A l \in Roots : <<Root, l>> \notin open /\ ~Fails(l)

Whole(d) == ~Unreadable(d) /\ \A o \in open : o[1] # d

\* A document is reported once, and whole.
Report(d) ==
    /\ outcome = Nothing /\ RootsAreFine
    /\ d \in found \ reported /\ Whole(d)
    /\ reported' = reported \cup {d}
    /\ UNCHANGED <<web, found, kind, open, outcome>>

GiveUp ==
    /\ outcome = Nothing
    /\ \/ \E l \in Roots : <<Root, l>> \notin open /\ Fails(l)
       \/ RootsAreFine /\ \E d \in found \ reported : Unreadable(d)
       \/ RootsAreFine /\ \E d \in found : Whole(d) /\ (Verbose \/ Errors(d, kind[d]) # {})
    /\ outcome' = "failure"
    /\ UNCHANGED <<web, found, kind, open, reported>>

\* Nothing is left, and what was reported decides.
End ==
    /\ outcome = Nothing /\ RootsAreFine
    /\ open = {} /\ reported = found
    /\ outcome' = IF \E d \in reported : Errors(d, kind[d]) # {} THEN "failure" ELSE "success"
    /\ UNCHANGED <<web, found, kind, open, reported>>

Next ==
    \/ \E o \in open : Settle(o) \/ \E l \in Link : Find(o, l)
    \/ \E d \in found : Report(d)
    \/ GiveUp \/ End

Spec == Init /\ [][Next]_vars

=============================================================================
