----------------------------- MODULE SiteConfig ------------------------------
(***************************************************************************)
(* How a configuration is compiled: `compile_config` of                    *)
(* muffy/src/config/serde.rs sorts the sites so that parents come first,   *)
(* compiles each on top of its parent, and lays the results out by host    *)
(* and path, where `Config::site` of muffy/src/config.rs finds a URL's.    *)
(*                                                                         *)
(* `muffy check-site` compiles its arguments instead (muffy/src/main.rs).  *)
(*                                                                         *)
(* A URL is a host and a path, a path a sequence of numbers in the place   *)
(* of characters; schemes and ports are left out, as `site` ignores them.  *)
(***************************************************************************)
EXTENDS ConfigFiles, FiniteSetsExt, SequencesExt

CONSTANTS
    Bad,        \* A value that does not compile: a status of 99, a pattern "(".
    Default,    \* What DEFAULT_SITE_CONFIG has for every option.
    TestUrl     \* URLs to look up.

ASSUME UrlAssumption ==
    /\ TestUrl \subseteq Url
    /\ \A case \in Cases : \A line \in case.commands :
         line.kind = "check-site" => line.urls \subseteq Url \cup {Bad} /\ IsFiniteSet(line.urls)

VARIABLES
    order,          \* Names of sites still to compile.
    defaultName,    \* default_name
    recursion,      \* By name: whether roots are crawled ...
    configs,        \* ... and the compiled configuration.
    compiled        \* The Config, once there is one.

siteVars == <<order, defaultName, recursion, configs, compiled>>
vars == <<fileVars, pc, outcome, siteVars>>

Init ==
    /\ FilesInit
    /\ order = <<>>
    /\ defaultName = Unset
    /\ recursion = <<>>
    /\ configs = <<>>
    /\ compiled = Unset

-----------------------------------------------------------------------------
sites == config.sites
Name == DOMAIN sites

\* The chain of names that a name extends, up to the number of sites.
Up(name) ==
    LET up[k \in 0..Cardinality(Name)] ==
            IF k = 0 THEN name
            ELSE IF up[k - 1] \in Name THEN sites[up[k - 1]].extend ELSE Unset
    IN  up

Ancestors(name) == {Up(name)[k] : k \in 1..Cardinality(Name)} \ {Unset}

\* Faulty: every name from which a circle is reached is reported.
AllThatReach ==
    LET circular == {n \in Name : n \in Ancestors(n)}
    IN  IF circular = {} THEN {} ELSE {{n \in Name : Ancestors(n) \cap circular # {}}}

\* The names that extend themselves in the end, with those they do it through:
\* the component that kosaraju_scc has of the node at which toposort failed.
Circles == {Ancestors(name) : name \in {n \in Name : n \in Ancestors(n)}}

\* Faulty: children come first, in the order that toposort gives.
Unreversed ==
    {names \in SetToSeqs(Name) : \A i, j \in DOMAIN names :
        sites[names[i]].extend = names[j] => i < j}

\* toposort orders children before parents, and is reversed.
ParentsFirst ==
    {names \in SetToSeqs(Name) : \A i, j \in DOMAIN names :
        sites[names[i]].extend = names[j] => j < i}

\* sort_site_configs
Sort ==
    /\ pc = "sort"
    /\ LET missing == {sites[name].extend : name \in Name} \ (Name \cup {Unset})
       IN  \/ \E parent \in missing : Stop("missing", {parent}) /\ UNCHANGED order
           \/ missing = {} /\ \E circle \in Circles : Stop("circular", circle) /\ UNCHANGED order
           \/ /\ missing = {}
              /\ Circles = {}
              /\ order' \in ParentsFirst
              /\ pc' = "default"
              /\ UNCHANGED outcome
    /\ UNCHANGED <<fileVars, defaultName, recursion, configs, compiled>>

\* The one site without roots, if any, is the default.
FindDefault ==
    /\ pc = "default"
    /\ LET rootless == {name \in Name : sites[name].roots = Unset}
       IN  \/ /\ Cardinality(rootless) > 1
              /\ Stop("defaults", rootless)
              /\ UNCHANGED defaultName
           \/ /\ Cardinality(rootless) <= 1
              /\ defaultName' = IF rootless = {} THEN Unset ELSE CHOOSE name \in rootless : TRUE
              /\ pc' = "compile"
              /\ UNCHANGED outcome
    /\ UNCHANGED <<fileVars, order, recursion, configs, compiled>>

-----------------------------------------------------------------------------
\* DEFAULT_SITE_CONFIG
DefaultSite ==
    [id |-> Unset, recursive |-> FALSE, timeout |-> Default, headers |-> Default,
     fragments |-> {}, count |-> Default, initial |-> Default, cap |-> Unset, html |-> Unset]

\* compile_patterns
Patterns(patterns, inherited) == IF patterns # Unset THEN patterns ELSE inherited

\* compile_markup_config
Markup(markup, inherited) ==
    IF markup = Unset THEN inherited
    ELSE [elements |-> Patterns(markup.elements, IF inherited = Unset THEN {} ELSE inherited.elements)]

\* Faulty: an interval that is set in part hides the parent's other part.
HiddenRetry(retry, parent) ==
    [count |-> IF retry = Unset THEN parent.count ELSE Or(retry.count, parent.count),
     initial |-> IF retry = Unset \/ retry.interval = Unset THEN parent.initial
                 ELSE Or(retry.interval.initial, Default),
     cap |-> IF retry = Unset \/ retry.interval = Unset THEN parent.cap ELSE retry.interval.cap]

\* The retry of compile_site_config.
Retry(retry, parent) ==
    [count |-> IF retry = Unset THEN parent.count ELSE Or(retry.count, parent.count),
     initial |-> IF retry = Unset \/ retry.interval = Unset THEN parent.initial
                 ELSE Or(retry.interval.initial, parent.initial),
     cap |-> IF retry = Unset \/ retry.interval = Unset THEN parent.cap
             ELSE Or(retry.interval.cap, parent.cap)]

\* compile_site_config: what a site leaves unset is its parent's, but for the
\* name and `recurse`.
CompiledSite(id, site, parent) ==
    LET retry == Retry(site.retry, parent)
    IN  [id |-> id,
         recursive |-> site.recurse = TRUE,
         timeout |-> Or(site.timeout, parent.timeout),
         headers |-> Or(site.headers, parent.headers),
         fragments |-> Patterns(site.fragments, parent.fragments),
         html |-> Markup(site.html, parent.html),
         count |-> retry.count,
         initial |-> retry.initial,
         cap |-> retry.cap]

Ignored(name) == sites[name].ignore = TRUE
Included == {name \in Name : ~Ignored(name)}

\* Panics if the parent is ignored: it is in neither map.
Compile ==
    /\ pc = "compile"
    /\ order # <<>>
    /\ order' = Tail(order)
    /\ LET name == Head(order)
           parent == sites[name].extend
       IN  \/ /\ Ignored(name)
              /\ UNCHANGED <<pc, outcome, recursion, configs>>
           \/ /\ ~Ignored(name)
              /\ parent \notin DOMAIN configs \cup {Unset}
              /\ Stop("panic", {name})
              /\ UNCHANGED <<recursion, configs>>
           \/ /\ ~Ignored(name)
              /\ parent \in DOMAIN configs \cup {Unset}
              /\ sites[name].timeout = Bad
              /\ Stop("invalid", {name})
              /\ UNCHANGED <<recursion, configs>>
           \/ /\ ~Ignored(name)
              /\ parent \in DOMAIN configs \cup {Unset}
              /\ sites[name].timeout # Bad
              /\ recursion' = [n \in DOMAIN recursion \cup {name} |->
                    IF n = name
                    THEN sites[name].recurse = TRUE \/ (parent # Unset /\ recursion[parent])
                    ELSE recursion[n]]
              /\ configs' = [n \in DOMAIN configs \cup {name} |->
                    IF n = name
                    THEN CompiledSite(IF name = defaultName THEN Unset ELSE name, sites[name],
                                      IF parent = Unset THEN DefaultSite ELSE configs[parent])
                    ELSE configs[n]]
              /\ UNCHANGED <<pc, outcome>>
    /\ UNCHANGED <<fileVars, defaultName, compiled>>

RootsOf(name) == IF sites[name].roots = Unset THEN {} ELSE sites[name].roots

\* The order of strings.
Precedes(p, q) ==
    \/ IsStrictPrefix(p, q)
    \/ \E i \in DOMAIN p \cap DOMAIN q :
          p[i] < q[i] /\ SubSeq(p, 1, i - 1) = SubSeq(q, 1, i - 1)

\* Faulty: ascending.
AscendingPaths(set) ==
    CHOOSE sorted \in SetToSeqs(set) : \A i, j \in DOMAIN sorted : i < j => Precedes(sorted[i], sorted[j])

\* Config::new: `Reverse(path)`
SortedPaths(set) ==
    CHOOSE sorted \in SetToSeqs(set) : \A i, j \in DOMAIN sorted : i < j => Precedes(sorted[j], sorted[i])

\* Config::new: the sites of some roots by host, then by path.
Sites(configOf) ==
    [host \in {root.host : root \in DOMAIN configOf} |->
        LET sorted == SortedPaths({root.path : root \in {r \in DOMAIN configOf : r.host = host}})
        IN  [i \in DOMAIN sorted |->
                [path |-> sorted[i],
                 config |-> configOf[[host |-> host, path |-> sorted[i]]]]]]

\* Roots are laid out, and the limits of sites by name.  Of sites with the same
\* root, the one that comes last out of the hash map is left.
Finish ==
    /\ pc = "compile"
    /\ order = <<>>
    /\ LET claims == UNION {RootsOf(name) : name \in Included}
       IN  \E owner \in [claims -> Included] :
             /\ \A root \in claims : root \in RootsOf(owner[root])
             /\ compiled' =
                  [roots |-> UNION {RootsOf(name) : name \in {n \in Included : recursion[n]}},
                   default |-> IF defaultName \in DOMAIN configs THEN configs[defaultName]
                               ELSE DefaultSite,
                   sites |-> Sites([root \in claims |-> configs[owner[root]]]),
                   ignored |-> UNION {RootsOf(name) : name \in Name \ Included},
                   concurrency |-> config.concurrency,
                   limits |-> [name \in {n \in Name : sites[n].limit # Unset} |->
                                    sites[name].limit]]
    /\ Stop("ok", {})
    /\ UNCHANGED <<fileVars, order, defaultName, recursion, configs>>

-----------------------------------------------------------------------------
\* The site that the arguments of `muffy check-site` describe.
ArgumentSite ==
    [id |-> Unset, recursive |-> FALSE, timeout |-> command.timeout, headers |-> command.headers,
     fragments |-> {}, count |-> command.retry.count, initial |-> command.retry.initial,
     cap |-> command.retry.cap,
     html |-> IF command.validation THEN [elements |-> {}] ELSE Unset]

\* compile_check_site_config: pages under the URLs named are crawled, others are
\* only visited.
CheckSite ==
    /\ pc = "command"
    /\ command.kind = "check-site"
    /\ \/ /\ command.timeout = Bad \/ Bad \in command.urls
          /\ Stop("invalid", {})
          /\ UNCHANGED compiled
       \/ /\ command.timeout # Bad
          /\ Bad \notin command.urls
          /\ compiled' =
               [roots |-> command.urls,
                default |-> ArgumentSite,
                sites |-> Sites([url \in command.urls |->
                                    [ArgumentSite EXCEPT !.recursive = TRUE]]),
                ignored |-> command.ignore,
                concurrency |-> command.concurrency,
                limits |-> <<>>]
          /\ Stop("ok", {})
    /\ UNCHANGED <<fileVars, order, defaultName, recursion, configs>>

Next ==
    \/ ReadConfig /\ UNCHANGED siteVars
    \/ Initialize /\ UNCHANGED siteVars
    \/ CheckSite
    \/ Sort
    \/ FindDefault
    \/ Compile
    \/ Finish

Spec == Init /\ [][Next]_vars
FairSpec == Spec /\ WF_vars(Next)

\* Config::get_site, Config::site: the first path that the URL's begins with
Site(url) ==
    LET rooted == IF url.host \in DOMAIN compiled.sites THEN compiled.sites[url.host] ELSE <<>>
        under == {i \in DOMAIN rooted : IsPrefix(rooted[i].path, url.path)}
    IN  IF under = {} THEN compiled.default ELSE rooted[Min(under)].config

-----------------------------------------------------------------------------
\* The first of some values that is set.
Nearest(values) ==
    LET set == {i \in DOMAIN values : values[i] # Unset}
    IN  IF set = {} THEN Unset ELSE values[Min(set)]

\* The options within those of retries.
Initial(retry) ==
    IF retry = Unset \/ retry.interval = Unset THEN Unset ELSE retry.interval.initial
Cap(retry) == IF retry = Unset \/ retry.interval = Unset THEN Unset ELSE retry.interval.cap
Retries(retry) == IF retry = Unset THEN Unset ELSE retry.count

\* The files from the first to the last that it extends, and what they say.
Chain == <<entry>> \o paths
InFiles(name, option) ==
    [i \in DOMAIN Chain |-> IF name \in DOMAIN files[Chain[i]].sites
                            THEN files[Chain[i]].sites[name][option] ELSE Unset]

\* Of the files that extend each other, the nearest that sets an option wins, on
\* its own and within groups of options; patterns are not replaced but joined
\* (`SiteConfig::merge` and its test merge_ignored_fragments; that the documentation
\* says otherwise is ListsOverride).
NearestFileWins ==
    config # Unset =>
        /\ config.concurrency = Nearest([i \in DOMAIN Chain |-> files[Chain[i]].concurrency])
        /\ Name = UNION {DOMAIN files[Chain[i]].sites : i \in DOMAIN Chain}
        /\ \A name \in Name :
             /\ \A option \in {"extend", "roots", "ignore", "recurse", "timeout"} :
                  sites[name][option] = Nearest(InFiles(name, option))
             /\ Initial(sites[name].retry)
                    = Nearest([i \in DOMAIN Chain |-> Initial(InFiles(name, "retry")[i])])
             /\ LET set == {InFiles(name, "fragments")[i] : i \in DOMAIN Chain} \ {Unset}
                IN  sites[name].fragments = IF set = {} THEN Unset ELSE UNION set

\* What a name, the one it extends and so on say of an option.
InLine(name, option) ==
    [k \in 1..Cardinality(Name) |->
        IF Up(name)[k - 1] \in Name THEN sites[Up(name)[k - 1]][option] ELSE Unset]
OrElse(value, default) == IF value = Unset THEN default ELSE value

\* A compiled site has of each plain option, and of each option within a group,
\* what the nearest site in its line sets ("A site inherits options it leaves
\* unset from another site specified by its extend field").
NearestParentWins ==
    \A name \in DOMAIN configs :
        LET site == configs[name]
            retries == InLine(name, "retry")
        IN  /\ site.timeout = OrElse(Nearest(InLine(name, "timeout")), Default)
            /\ site.headers = OrElse(Nearest(InLine(name, "headers")), Default)
            /\ site.fragments = OrElse(Nearest(InLine(name, "fragments")), {})
            /\ site.count =
                OrElse(Nearest([k \in DOMAIN retries |-> Retries(retries[k])]), Default)
            /\ site.initial =
                OrElse(Nearest([k \in DOMAIN retries |-> Initial(retries[k])]), Default)
            /\ site.cap = Nearest([k \in DOMAIN retries |-> Cap(retries[k])])

\* The roots and the sites they are of, from whichever command.
Claims ==
    IF command.kind = "check-site"
    THEN {[root |-> url, config |-> [ArgumentSite EXCEPT !.recursive = TRUE]] : url \in command.urls}
    ELSE UNION {{[root |-> root, config |-> configs[name]] : root \in RootsOf(name)} :
                    name \in Included}

\* The configuration of a URL is that of the site with the longest root path the
\* URL's path begins with, and the default one's if there is none.
LongestRootWins ==
    outcome.kind = "ok" =>
        \A url \in TestUrl :
            LET over == {claim \in Claims : /\ claim.root.host = url.host
                                            /\ IsPrefix(claim.root.path, url.path)}
            IN  \/ over = {} /\ Site(url) = compiled.default
                \/ \E claim \in over :
                     /\ \A other \in over : Len(other.root.path) <= Len(claim.root.path)
                     /\ Site(url) = claim.config

\* Following links leads from any of some nodes to all of them and to no other: no
\* part of them is closed.
OneCircle(next) ==
    /\ DOMAIN next # {}
    /\ \A n \in DOMAIN next : next[n] \in DOMAIN next
    /\ \A part \in SUBSET DOMAIN next :
         part # {} /\ (\A n \in part : next[n] \in part) => part = DOMAIN next

Rootless == {name \in Name : sites[name].roots = Unset}

\* An error names its cause, and a configuration without one is compiled: the files
\* and the sites reported as circular are one circle, without those that only lead to
\* it; a file that cannot be read is the one asked for or the next to be extended; and
\* the site or parent named is the one that cannot be compiled.
StopsForCause ==
    LET names == outcome.names
    IN  /\ outcome.kind = "unfound" =>
            command.file = Unset /\ \A i \in DOMAIN command.places : command.places[i] \notin DOMAIN files
        /\ outcome.kind = "io" =>
            \/ ~Readable(entry)
            \/ config.extend # Unset /\ ~Readable(Target[previous][config.extend])
        /\ outcome.kind = "files" => OneCircle([path \in names |-> Target[path][files[path].extend]])
        /\ outcome.kind = "missing" =>
            \E name \in Name : names = {sites[name].extend} /\ sites[name].extend \notin Name \cup {Unset}
        /\ outcome.kind = "circular" => OneCircle([name \in names |-> sites[name].extend])
        /\ outcome.kind = "defaults" => Cardinality(names) > 1 /\ names = Rootless
        /\ outcome.kind = "panic" =>
            \E name \in Included : names = {name} /\ sites[name].extend \in Name \ Included
        /\ outcome.kind = "invalid" =>
            IF command.kind = "check-site" THEN command.timeout = Bad \/ Bad \in command.urls
            ELSE \E name \in Included : names = {name} /\ sites[name].timeout = Bad
        /\ outcome.kind = "ok" /\ command.kind = "check" =>
            /\ Cardinality(Rootless) <= 1
            /\ \A name \in Included :
                 /\ name \notin Ancestors(name)
                 /\ sites[name].extend \in Included \cup {Unset}
                 /\ sites[name].timeout # Bad

\* Every configuration is compiled or given up, however its files and sites extend
\* each other.
EveryConfigEnds == <>(pc = "done")

-----------------------------------------------------------------------------
\* doc/src/content/docs/configuration.md:56, "A site inherits options it leaves
\* unset from another site specified by its extend field", for `recurse`.
InheritsRecurse ==
    outcome.kind = "ok" =>
        \A name \in DOMAIN configs :
            configs[name].recursive = (Nearest(InLine(name, "recurse")) = TRUE)

\* doc/src/content/docs/configuration.md:35, "Options set in a configuration file
\* override ones in another file it extends", for lists of patterns: the nearest file
\* that sets one says all of it.
ListsOverride ==
    config # Unset =>
        \A name \in Name : sites[name].fragments = Nearest(InFiles(name, "fragments"))

\* The sentence of InheritsRecurse for a parent that is ignored itself: a site that extends it
\* is compiled.
InheritsFromIgnored == outcome.kind # "panic"

=============================================================================
