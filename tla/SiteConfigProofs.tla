--------------------------- MODULE SiteConfigProofs ---------------------------
(***************************************************************************)
(* Proofs about SiteConfig, for all files that extend each other and all   *)
(* sites that do.  Files are merged one at a time, so what a step adds to  *)
(* the options read is what the chain of files gets longer by.  Sites are  *)
(* compiled one at a time, each after its parent, so what a site inherits  *)
(* is what its parent's line says; that a line ends at all takes counting, *)
(* since only circles were excluded.                                       *)
(***************************************************************************)
EXTENDS SiteConfig, CountingLemmas, FiniteSetTheorems, SequenceTheorems, TLAPS

-----------------------------------------------------------------------------
LEMMA MinIsLeast ==
    ASSUME NEW S, S \subseteq Nat, NEW m \in S, \A k \in S : m <= k
    PROVE  Min(S) = m
PROOF
  <1>1. \E x \in S : \A y \in S : x =< y
    OBVIOUS
  <1>2. Min(S) \in S /\ \A y \in S : Min(S) =< y
    BY <1>1 DEF Min
  <1>3. Min(S) \in Nat /\ m \in Nat /\ Min(S) <= m /\ m <= Min(S)
    BY <1>2
  <1> QED
    BY <1>3

\* Without a value that is set, none is nearest; otherwise the first is.
LEMMA NearestOfNone ==
    ASSUME NEW f, \A i \in DOMAIN f : f[i] = Unset
    PROVE  Nearest(f) = Unset
BY DEF Nearest

LEMMA NearestIsFirst ==
    ASSUME NEW f, DOMAIN f \subseteq Nat, NEW m \in DOMAIN f, f[m] # Unset,
           \A i \in DOMAIN f : f[i] # Unset => m <= i
    PROVE  Nearest(f) = f[m]
PROOF
  <1> DEFINE set == {i \in DOMAIN f : f[i] # Unset}
  <1>1. Min(set) = m
    <2>1. set \subseteq Nat /\ m \in set /\ \A k \in set : m <= k
      OBVIOUS
    <2> HIDE DEF set
    <2> QED
      BY <2>1, MinIsLeast
  <1> QED
    BY <1>1 DEF Nearest

\* A value at the end counts if there is none before.
LEMMA NearestAppends ==
    ASSUME NEW n \in Nat, NEW f, NEW g, DOMAIN f = 1..n, DOMAIN g = 1..(n + 1),
           \A i \in 1..n : g[i] = f[i]
    PROVE  Nearest(g) = Or(Nearest(f), g[n + 1])
PROOF
  <1> DEFINE set == {i \in 1..n : f[i] # Unset}
  <1>1. CASE set = {}
    <2>1. Nearest(f) = Unset
      BY <1>1, NearestOfNone
    <2>2. CASE g[n + 1] = Unset
      <3>1. \A i \in DOMAIN g : g[i] = Unset
        BY <1>1, <2>2
      <3> QED
        BY <2>1, <2>2, <3>1, NearestOfNone DEF Or
    <2>3. CASE g[n + 1] # Unset
      <3>1. \A i \in DOMAIN g : g[i] # Unset => n + 1 <= i
        BY <1>1
      <3>2. Nearest(g) = g[n + 1]
        BY <2>3, <3>1, NearestIsFirst
      <3> QED
        BY <2>1, <3>2 DEF Or
    <2> QED
      BY <2>2, <2>3
  <1>2. CASE set # {}
    <2>1. PICK m \in set : \A k \in set : m <= k
      <3> set \subseteq Nat
        OBVIOUS
      <3> HIDE DEF set
      <3> QED
        BY <1>2, LeastNumber
    <2>2. Nearest(f) = f[m]
      BY <2>1, NearestIsFirst
    <2>3. \A i \in DOMAIN g : g[i] # Unset => m <= i
      BY <2>1
    <2>4. Nearest(g) = g[m]
      BY <2>1, <2>3, NearestIsFirst
    <2> QED
      BY <2>1, <2>2, <2>4 DEF Or
  <1> QED
    BY <1>1, <1>2

\* A value at the front counts before all others.
LEMMA NearestPrepends ==
    ASSUME NEW n \in Nat, NEW f, NEW g, DOMAIN f = 1..n, DOMAIN g = 1..n, n > 0,
           f[n] = Unset,
           \A i \in 1..(n - 1) : g[i + 1] = f[i]
    PROVE  Nearest(g) = Or(g[1], Nearest(f))
PROOF
  <1>1. CASE g[1] # Unset
    <2>1. Nearest(g) = g[1]
      BY <1>1, NearestIsFirst
    <2> QED
      BY <1>1, <2>1 DEF Or
  <1>2. CASE g[1] = Unset
    <2> DEFINE set == {i \in 1..n : f[i] # Unset}
    <2>1. CASE set = {}
      <3>1. \A i \in DOMAIN g : g[i] = Unset
        <4> SUFFICES ASSUME NEW i \in 1..n PROVE g[i] = Unset
          OBVIOUS
        <4>1. CASE i = 1
          BY <1>2, <4>1
        <4>2. CASE i # 1
          <5>1. i - 1 \in 1..(n - 1) /\ (i - 1) + 1 = i
            BY <4>2
          <5>2. f[i - 1] = Unset
            BY <2>1, <5>1
          <5>3. g[(i - 1) + 1] = f[i - 1]
            BY <5>1
          <5> QED
            BY <5>1, <5>2, <5>3
        <4> QED
          BY <4>1, <4>2
      <3>2. Nearest(f) = Unset /\ Nearest(g) = Unset
        BY <2>1, <3>1, NearestOfNone
      <3> QED
        BY <1>2, <3>2 DEF Or
    <2>2. CASE set # {}
      <3>1. PICK m \in set : \A k \in set : m <= k
        <4> set \subseteq Nat
          OBVIOUS
        <4> HIDE DEF set
        <4> QED
          BY <2>2, LeastNumber
      <3>2. Nearest(f) = f[m]
        BY <3>1, NearestIsFirst
      <3>3. m \in 1..(n - 1) /\ g[m + 1] = f[m]
        BY <3>1
      <3>4. \A i \in DOMAIN g : g[i] # Unset => m + 1 <= i
        <4> SUFFICES ASSUME NEW i \in 1..n, g[i] # Unset PROVE m + 1 <= i
          OBVIOUS
        <4>1. i - 1 \in 1..(n - 1) /\ (i - 1) + 1 = i
          BY <1>2
        <4>2. i - 1 \in set
          BY <4>1
        <4> QED
          BY <3>1, <4>2
      <3>5. Nearest(g) = g[m + 1]
        BY <3>1, <3>3, <3>4, NearestIsFirst
      <3> QED
        BY <1>2, <3>2, <3>3, <3>5 DEF Or
    <2> QED
      BY <2>1, <2>2
  <1> QED
    BY <1>1, <1>2

-----------------------------------------------------------------------------
PlainOption == {"extend", "roots", "ignore", "recurse", "timeout"}

LEMMA MergedPatterns ==
    ASSUME NEW a \in Opt(SUBSET Value), NEW b \in Opt(SUBSET Value)
    PROVE  MergePatterns(a, b) \in Opt(SUBSET Value)
BY DEF MergePatterns, Merge, Opt

LEMMA MergedHeaders ==
    ASSUME NEW T, T = UNION {[names -> Value] : names \in SUBSET Header},
           NEW a \in Opt(T), NEW b \in Opt(T)
    PROVE  Merge(a, b, Over(b, a)) \in Opt(T)
PROOF
  <1>1. CASE a = Unset \/ b = Unset
    BY <1>1 DEF Merge
  <1>2. CASE a # Unset /\ b # Unset
    <2>1. PICK m \in SUBSET Header : a \in [m -> Value]
      BY <1>2 DEF Opt
    <2>2. PICK n \in SUBSET Header : b \in [n -> Value]
      BY <1>2 DEF Opt
    <2>3. Over(b, a) \in [m \cup n -> Value]
      BY <2>1, <2>2 DEF Over
    <2>4. Over(b, a) \in T
      BY <2>3
    <2> QED
      BY <1>2, <2>4 DEF Merge, Opt
  <1> QED
    BY <1>1, <1>2

LEMMA MergedIntervals ==
    ASSUME NEW a \in Opt(RetryDurationConfig), NEW b \in Opt(RetryDurationConfig)
    PROVE  /\ MergeInterval(a, b) \in Opt(RetryDurationConfig)
           /\ a # Unset /\ b # Unset =>
                /\ MergeInterval(a, b) # Unset
                /\ MergeInterval(a, b).initial = Or(b.initial, a.initial)
PROOF
  <1>1. CASE a = Unset \/ b = Unset
    BY <1>1 DEF MergeInterval, Merge
  <1>2. CASE a # Unset /\ b # Unset
    <2> DEFINE both == [initial |-> Or(b.initial, a.initial), cap |-> Or(b.cap, a.cap)]
    <2>1. a \in RetryDurationConfig /\ b \in RetryDurationConfig
      BY <1>2 DEF Opt
    <2>2. /\ a.initial \in Opt(Value) /\ a.cap \in Opt(Value)
          /\ b.initial \in Opt(Value) /\ b.cap \in Opt(Value)
      BY <2>1 DEF RetryDurationConfig
    <2>3. both \in RetryDurationConfig
      BY <2>2 DEF RetryDurationConfig, Or
    <2>4. MergeInterval(a, b) = both
      BY <1>2 DEF MergeInterval, Merge
    <2>5. both.initial = Or(b.initial, a.initial)
      OBVIOUS
    <2>6. both # Unset
      BY <2>3, UnsetAssumption
    <2> HIDE DEF both
    <2> QED
      BY <2>3, <2>4, <2>5, <2>6 DEF Opt
  <1> QED
    BY <1>1, <1>2

\* Of the initial intervals of two groups of options, the other's counts first.
LEMMA MergedRetries ==
    ASSUME NEW a \in Opt(RetryConfig), NEW b \in Opt(RetryConfig)
    PROVE  /\ MergeRetry(a, b) \in Opt(RetryConfig)
           /\ Initial(MergeRetry(a, b)) = Or(Initial(b), Initial(a))
PROOF
  <1>1. CASE b = Unset
    BY <1>1 DEF MergeRetry, Merge, Initial, Or
  <1>2. CASE b # Unset /\ a = Unset
    BY <1>2 DEF MergeRetry, Merge, Initial, Or
  <1>3. CASE a # Unset /\ b # Unset
    <2> DEFINE both == [count |-> Or(b.count, a.count),
                        interval |-> MergeInterval(a.interval, b.interval)]
    <2>1. a \in RetryConfig /\ b \in RetryConfig
      BY <1>3 DEF Opt
    <2>2. /\ a.count \in Opt(Value) /\ a.interval \in Opt(RetryDurationConfig)
          /\ b.count \in Opt(Value) /\ b.interval \in Opt(RetryDurationConfig)
      BY <2>1 DEF RetryConfig
    <2>3. both \in RetryConfig
      BY <2>2, MergedIntervals DEF RetryConfig, Or
    <2>4. MergeRetry(a, b) = both /\ both # Unset
      BY <1>3, <2>3, UnsetAssumption DEF MergeRetry, Merge
    <2>5. both.interval = MergeInterval(a.interval, b.interval)
      OBVIOUS
    <2>6. Initial(both) = Or(Initial(b), Initial(a))
      <3>1. CASE a.interval = Unset \/ b.interval = Unset
        <4>1. both.interval = IF b.interval = Unset THEN a.interval ELSE b.interval
          BY <2>5, <3>1 DEF MergeInterval, Merge
        <4> HIDE DEF both
        <4> QED
          BY <1>3, <2>4, <3>1, <4>1 DEF Initial, Or
      <3>2. CASE a.interval # Unset /\ b.interval # Unset
        <4>1. both.interval # Unset /\ both.interval.initial = Or(b.interval.initial, a.interval.initial)
          BY <2>2, <2>5, <3>2, MergedIntervals
        <4> HIDE DEF both
        <4> QED
          BY <1>3, <2>4, <3>2, <4>1 DEF Initial, Or
      <3> QED
        BY <3>1, <3>2
    <2> HIDE DEF both
    <2> QED
      BY <2>3, <2>4, <2>6 DEF Opt
  <1> QED
    BY <1>1, <1>2, <1>3

LEMMA MergedMarkups ==
    ASSUME NEW a \in Opt(MarkupConfig), NEW b \in Opt(MarkupConfig)
    PROVE  MergeMarkup(a, b) \in Opt(MarkupConfig)
PROOF
  <1>1. CASE a = Unset \/ b = Unset
    BY <1>1 DEF MergeMarkup, Merge
  <1>2. CASE a # Unset /\ b # Unset
    <2>1. a.elements \in Opt(SUBSET Value) /\ b.elements \in Opt(SUBSET Value)
      BY <1>2 DEF Opt, MarkupConfig
    <2>2. MergePatterns(a.elements, b.elements) \in Opt(SUBSET Value)
      BY <2>1, MergedPatterns
    <2> QED
      BY <1>2, <2>2 DEF MergeMarkup, Merge, MarkupConfig, Opt
  <1> QED
    BY <1>1, <1>2

LEMMA MergedSites ==
    ASSUME NEW a \in SiteOptions, NEW b \in SiteOptions
    PROVE  /\ MergeSite(a, b) \in SiteOptions
           /\ \A option \in PlainOption : MergeSite(a, b)[option] = Or(b[option], a[option])
           /\ Initial(MergeSite(a, b).retry) = Or(Initial(b.retry), Initial(a.retry))
           /\ MergeSite(a, b).fragments = MergePatterns(a.fragments, b.fragments)
PROOF
  <1> DEFINE Headers == UNION {[names -> Value] : names \in SUBSET Header}
             c == MergeSite(a, b)
  <1>1. \A s \in {a, b} :
          /\ DOMAIN s = {"extend", "roots", "ignore", "recurse", "timeout", "headers",
                         "fragments", "retry", "html", "limit"}
          /\ s.extend \in Opt(Value) /\ s.roots \in Opt(SUBSET Url)
          /\ s.ignore \in Opt(BOOLEAN) /\ s.recurse \in Opt(BOOLEAN)
          /\ s.timeout \in Opt(Value) /\ s.limit \in Opt(Value)
          /\ s.headers \in Opt(Headers) /\ s.fragments \in Opt(SUBSET Value)
          /\ s.retry \in Opt(RetryConfig) /\ s.html \in Opt(MarkupConfig)
    BY DEF SiteOptions
  <1>2. /\ c = [option \in DOMAIN a |-> c[option]]
        /\ c.headers = Merge(a.headers, b.headers, Over(b.headers, a.headers))
        /\ c.fragments = MergePatterns(a.fragments, b.fragments)
        /\ c.retry = MergeRetry(a.retry, b.retry)
        /\ c.html = MergeMarkup(a.html, b.html)
        /\ \A option \in PlainOption \cup {"limit"} : c[option] = Or(b[option], a[option])
    BY <1>1 DEF MergeSite, PlainOption
  <1>3. /\ c.headers \in Opt(Headers)
        /\ c.fragments \in Opt(SUBSET Value)
        /\ c.retry \in Opt(RetryConfig)
        /\ c.html \in Opt(MarkupConfig)
    <2> HIDE DEF c
    <2>1. c.headers \in Opt(Headers)
      BY <1>1, <1>2, MergedHeaders
    <2>2. c.fragments \in Opt(SUBSET Value)
      BY <1>1, <1>2, MergedPatterns
    <2>3. c.retry \in Opt(RetryConfig)
      BY <1>1, <1>2, MergedRetries
    <2>4. c.html \in Opt(MarkupConfig)
      BY <1>1, <1>2, MergedMarkups
    <2> QED
      BY <2>1, <2>2, <2>3, <2>4
  <1>4. /\ c.extend = Or(b.extend, a.extend) /\ c.roots = Or(b.roots, a.roots)
        /\ c.ignore = Or(b.ignore, a.ignore) /\ c.recurse = Or(b.recurse, a.recurse)
        /\ c.timeout = Or(b.timeout, a.timeout) /\ c.limit = Or(b.limit, a.limit)
    BY <1>2 DEF PlainOption
  <1>5. /\ c.extend \in Opt(Value) /\ c.roots \in Opt(SUBSET Url)
        /\ c.ignore \in Opt(BOOLEAN) /\ c.recurse \in Opt(BOOLEAN)
        /\ c.timeout \in Opt(Value) /\ c.limit \in Opt(Value)
    BY <1>1, <1>4 DEF Or
  <1>6. DOMAIN c = {"extend", "roots", "ignore", "recurse", "timeout", "headers",
                    "fragments", "retry", "html", "limit"}
    BY <1>1, <1>2
  <1> HIDE DEF c
  <1>7. c \in SiteOptions
    BY <1>1, <1>2, <1>3, <1>5, <1>6 DEF SiteOptions
  <1>8. Initial(c.retry) = Or(Initial(b.retry), Initial(a.retry))
    BY <1>1, <1>2, MergedRetries
  <1> QED
    BY <1>2, <1>7, <1>8 DEF c

-----------------------------------------------------------------------------
\* What NearestFileWins says of a configuration c and the contents f of a chain of
\* files.
Of(f, chain, name, option) ==
    [i \in DOMAIN chain |-> IF name \in DOMAIN f[chain[i]].sites
                            THEN f[chain[i]].sites[name][option] ELSE Unset]
Joined(values) ==
    LET set == {values[i] : i \in DOMAIN values} \ {Unset}
    IN  IF set = {} THEN Unset ELSE UNION set
Wins(c, f, chain) ==
    /\ c.concurrency = Nearest([i \in DOMAIN chain |-> f[chain[i]].concurrency])
    /\ DOMAIN c.sites = UNION {DOMAIN f[chain[i]].sites : i \in DOMAIN chain}
    /\ \A name \in DOMAIN c.sites :
         /\ \A option \in PlainOption : c.sites[name][option] = Nearest(Of(f, chain, name, option))
         /\ Initial(c.sites[name].retry)
                = Nearest([i \in DOMAIN chain |-> Initial(Of(f, chain, name, "retry")[i])])
         /\ c.sites[name].fragments = Joined(Of(f, chain, name, "fragments"))

LEMMA MergedConfigs ==
    ASSUME NEW s, NEW c, IsConfig(s), IsConfig(c)
    PROVE  /\ IsConfig(MergeConfig(s, c))
           /\ MergeConfig(s, c).extend = s.extend
           /\ MergeConfig(s, c).concurrency = Or(c.concurrency, s.concurrency)
           /\ DOMAIN MergeConfig(s, c).sites = DOMAIN s.sites \cup DOMAIN c.sites
           /\ \A name \in DOMAIN s.sites \cup DOMAIN c.sites :
                MergeConfig(s, c).sites[name] =
                    CASE name \notin DOMAIN c.sites -> s.sites[name]
                      [] name \notin DOMAIN s.sites -> c.sites[name]
                      [] OTHER -> MergeSite(s.sites[name], c.sites[name])
PROOF
  <1> DEFINE m == MergeConfig(s, c)
  <1>1. /\ m = [extend |-> m.extend, concurrency |-> m.concurrency, sites |-> m.sites]
        /\ m.extend = s.extend
        /\ m.concurrency = Or(c.concurrency, s.concurrency)
        /\ DOMAIN m.sites = DOMAIN s.sites \cup DOMAIN c.sites
        /\ m.sites = [name \in DOMAIN m.sites |-> m.sites[name]]
        /\ \A name \in DOMAIN s.sites \cup DOMAIN c.sites :
                m.sites[name] =
                    CASE name \notin DOMAIN c.sites -> s.sites[name]
                      [] name \notin DOMAIN s.sites -> c.sites[name]
                      [] OTHER -> MergeSite(s.sites[name], c.sites[name])
    BY DEF MergeConfig
  <1>2. /\ s.extend \in Opt(Value) /\ s.concurrency \in Opt(Value)
        /\ c.concurrency \in Opt(Value)
        /\ \A name \in DOMAIN s.sites : s.sites[name] \in SiteOptions
        /\ \A name \in DOMAIN c.sites : c.sites[name] \in SiteOptions
        /\ DOMAIN s.sites \subseteq Value /\ DOMAIN c.sites \subseteq Value
        /\ IsFiniteSet(DOMAIN s.sites) /\ IsFiniteSet(DOMAIN c.sites)
        /\ \A name \in DOMAIN s.sites : s.sites[name].roots = Unset \/ IsFiniteSet(s.sites[name].roots)
        /\ \A name \in DOMAIN c.sites : c.sites[name].roots = Unset \/ IsFiniteSet(c.sites[name].roots)
    BY DEF IsConfig
  <1> HIDE DEF m
  <1>3. m \in [extend : Opt(Value), concurrency : Opt(Value), sites : {m.sites}]
    BY <1>1, <1>2 DEF Or
  <1>4. \A name \in DOMAIN m.sites : m.sites[name] \in SiteOptions
    <2> SUFFICES ASSUME NEW name \in DOMAIN m.sites PROVE m.sites[name] \in SiteOptions
      OBVIOUS
    <2>1. CASE name \in DOMAIN s.sites /\ name \in DOMAIN c.sites
      BY <1>1, <1>2, <2>1, MergedSites
    <2>2. CASE ~(name \in DOMAIN s.sites /\ name \in DOMAIN c.sites)
      BY <1>1, <1>2, <2>2
    <2> QED
      BY <2>1, <2>2
  <1>5. IsFiniteSet(DOMAIN m.sites)
    <2>1. IsFiniteSet(DOMAIN s.sites \cup DOMAIN c.sites)
      BY <1>2, FS_Union
    <2> QED
      BY <1>1, <2>1
  <1>6. ASSUME NEW name \in DOMAIN m.sites
        PROVE  m.sites[name].roots = Unset \/ IsFiniteSet(m.sites[name].roots)
    <2>1. CASE name \in DOMAIN s.sites /\ name \in DOMAIN c.sites
      <3>1. m.sites[name] = MergeSite(s.sites[name], c.sites[name])
        BY <1>1, <2>1
      <3>2. MergeSite(s.sites[name], c.sites[name])["roots"]
                = Or(c.sites[name]["roots"], s.sites[name]["roots"])
        BY <1>2, <2>1, MergedSites DEF PlainOption
      <3> QED
        BY <1>2, <2>1, <3>1, <3>2 DEF Or
    <2>2. CASE ~(name \in DOMAIN s.sites /\ name \in DOMAIN c.sites)
      BY <1>1, <1>2, <2>2
    <2> QED
      BY <2>1, <2>2
  <1>7. IsConfig(m)
    BY <1>1, <1>2, <1>3, <1>4, <1>5, <1>6 DEF IsConfig
  <1> QED
    BY <1>1, <1>7 DEF m

\* The configuration of one file.
LEMMA OneFileWins ==
    ASSUME NEW f, NEW e \in DOMAIN f, IsConfig(f[e])
    PROVE  Wins(f[e], f, <<e>>)
PROOF
  <1>1. DOMAIN <<e>> = {1} /\ <<e>>[1] = e
    OBVIOUS
  <1>2. \A v : v[1] = Nearest(v) \/ DOMAIN v # {1}
    <2> SUFFICES ASSUME NEW v, DOMAIN v = {1} PROVE v[1] = Nearest(v)
      OBVIOUS
    <2>1. CASE v[1] = Unset
      BY <2>1, NearestOfNone
    <2>2. CASE v[1] # Unset
      BY <2>2, NearestIsFirst
    <2> QED
      BY <2>1, <2>2
  <1>3. f[e].concurrency = Nearest([i \in DOMAIN <<e>> |-> f[<<e>>[i]].concurrency])
    BY <1>1, <1>2
  <1>4. DOMAIN f[e].sites = UNION {DOMAIN f[<<e>>[i]].sites : i \in DOMAIN <<e>>}
    BY <1>1
  <1>5. ASSUME NEW name \in DOMAIN f[e].sites, NEW option
        PROVE  DOMAIN Of(f, <<e>>, name, option) = {1}
               /\ Of(f, <<e>>, name, option)[1] = f[e].sites[name][option]
    BY <1>1 DEF Of
  <1>6. ASSUME NEW name \in DOMAIN f[e].sites
        PROVE  /\ \A option \in PlainOption :
                    f[e].sites[name][option] = Nearest(Of(f, <<e>>, name, option))
               /\ Initial(f[e].sites[name].retry)
                    = Nearest([i \in DOMAIN <<e>> |-> Initial(Of(f, <<e>>, name, "retry")[i])])
    BY <1>1, <1>2, <1>5
  <1>7. ASSUME NEW name \in DOMAIN f[e].sites
        PROVE  f[e].sites[name].fragments = Joined(Of(f, <<e>>, name, "fragments"))
    <2> DEFINE v == Of(f, <<e>>, name, "fragments")
    <2>1. DOMAIN v = {1} /\ v[1] = f[e].sites[name].fragments
      BY <1>5
    <2> HIDE DEF v
    <2>2. {v[i] : i \in DOMAIN v} = {v[1]}
      BY <2>1
    <2>3. Joined(v) = v[1]
      BY <2>2 DEF Joined
    <2> QED
      BY <2>1, <2>3 DEF v
  <1> QED
    BY <1>3, <1>4, <1>6, <1>7 DEF Wins

\* A chain that is one file longer.
LEMMA Appended ==
    ASSUME NEW S, NEW chain \in Seq(S), NEW path \in S
    PROVE  /\ Len(chain) \in Nat
           /\ DOMAIN chain = 1..Len(chain)
           /\ DOMAIN Append(chain, path) = 1..(Len(chain) + 1)
           /\ \A i \in 1..Len(chain) : Append(chain, path)[i] = chain[i]
           /\ Append(chain, path)[Len(chain) + 1] = path
OBVIOUS

LEMMA JoinedAppends ==
    ASSUME NEW n \in Nat, NEW f, NEW g, DOMAIN f = 1..n, DOMAIN g = 1..(n + 1),
           \A i \in 1..n : g[i] = f[i],
           \A i \in 1..(n + 1) : g[i] \in Opt(SUBSET Value)
    PROVE  Joined(g) = MergePatterns(g[n + 1], Joined(f))
PROOF
  <1> DEFINE sf == {f[i] : i \in DOMAIN f} \ {Unset}
             sg == {g[i] : i \in DOMAIN g} \ {Unset}
  <1>1. sg = sf \cup ({g[n + 1]} \ {Unset})
    <2>1. ASSUME NEW i \in 1..(n + 1), g[i] # Unset
          PROVE  g[i] \in sf \cup ({g[n + 1]} \ {Unset})
      <3>1. CASE i = n + 1
        BY <2>1, <3>1
      <3>2. CASE i # n + 1
        <4>1. i \in 1..n
          BY <3>2
        <4> QED
          BY <2>1, <4>1
      <3> QED
        BY <3>1, <3>2
    <2>2. \A i \in 1..n : i \in 1..(n + 1)
      OBVIOUS
    <2>3. n + 1 \in 1..(n + 1)
      OBVIOUS
    <2> QED
      BY <2>1, <2>2, <2>3
  <1>2. sf \subseteq SUBSET Value /\ g[n + 1] \in Opt(SUBSET Value)
    <2>1. \A i \in 1..n : f[i] \in Opt(SUBSET Value)
      <3>1. \A i \in 1..n : i \in 1..(n + 1) /\ g[i] = f[i]
        OBVIOUS
      <3> QED
        BY <3>1
    <2> QED
      BY <2>1 DEF Opt
  <1>3. Joined(f) = IF sf = {} THEN Unset ELSE UNION sf
    BY DEF Joined
  <1>4. Joined(g) = IF sg = {} THEN Unset ELSE UNION sg
    BY DEF Joined
  <1>5. sf # {} => UNION sf # Unset
    <2>1. UNION sf \in SUBSET Value
      BY <1>2
    <2> QED
      BY <2>1, UnsetAssumption
  <1> HIDE DEF sf, sg
  <1>6. CASE g[n + 1] = Unset
    <2>1. sg = sf
      BY <1>1, <1>6
    <2> QED
      BY <1>3, <1>4, <1>6, <2>1 DEF MergePatterns, Merge
  <1>7. CASE g[n + 1] # Unset
    <2>1. sg = sf \cup {g[n + 1]}
      BY <1>1, <1>7
    <2>2. CASE sf = {}
      BY <1>3, <1>4, <1>7, <2>1, <2>2 DEF MergePatterns, Merge
    <2>3. CASE sf # {}
      <3>1. Joined(f) # Unset
        BY <1>3, <1>5, <2>3
      <3>2. UNION sg = g[n + 1] \cup UNION sf
        BY <2>1
      <3> QED
        BY <1>3, <1>4, <1>7, <2>1, <2>3, <3>1, <3>2 DEF MergePatterns, Merge
    <2> QED
      BY <2>2, <2>3
  <1> QED
    BY <1>6, <1>7

\* What holds of a chain of files holds after one more is merged.
LEMMA OneMoreFileWins ==
    ASSUME NEW f, NEW chain \in Seq(DOMAIN f), NEW path \in DOMAIN f, NEW c,
           \A i \in DOMAIN chain : IsConfig(f[chain[i]]),
           IsConfig(f[path]), IsConfig(c),
           Wins(c, f, chain)
    PROVE  Wins(MergeConfig(f[path], c), f, Append(chain, path))
PROOF
  <1> DEFINE s == f[path]
             m == MergeConfig(s, c)
             longer == Append(chain, path)
             n == Len(chain)
  <1>1. /\ n \in Nat /\ DOMAIN chain = 1..n /\ DOMAIN longer = 1..(n + 1)
        /\ \A i \in 1..n : longer[i] = chain[i]
        /\ longer[n + 1] = path
    BY Appended
  <1>2. /\ m.concurrency = Or(c.concurrency, s.concurrency)
        /\ DOMAIN m.sites = DOMAIN s.sites \cup DOMAIN c.sites
        /\ \A name \in DOMAIN s.sites \cup DOMAIN c.sites :
                m.sites[name] =
                    CASE name \notin DOMAIN c.sites -> s.sites[name]
                      [] name \notin DOMAIN s.sites -> c.sites[name]
                      [] OTHER -> MergeSite(s.sites[name], c.sites[name])
    BY MergedConfigs
  <1>3. /\ \A name \in DOMAIN s.sites : s.sites[name] \in SiteOptions
        /\ \A name \in DOMAIN c.sites : c.sites[name] \in SiteOptions
    BY DEF IsConfig
  <1>4. s = f[longer[n + 1]]
    BY <1>1
  <1> HIDE DEF m, longer, n, s
  <1>5. m.concurrency = Nearest([i \in DOMAIN longer |-> f[longer[i]].concurrency])
    <2> DEFINE v == [i \in DOMAIN chain |-> f[chain[i]].concurrency]
               w == [i \in DOMAIN longer |-> f[longer[i]].concurrency]
    <2>1. DOMAIN v = 1..n /\ DOMAIN w = 1..(n + 1) /\ \A i \in 1..n : w[i] = v[i]
      BY <1>1
    <2>2. w[n + 1] = s.concurrency
      <3>1. n + 1 \in DOMAIN longer
        BY <1>1
      <3> QED
        BY <1>4, <3>1
    <2>3. c.concurrency = Nearest(v)
      BY DEF Wins
    <2> HIDE DEF v, w
    <2>4. Nearest(w) = Or(Nearest(v), w[n + 1])
      BY <1>1, <2>1, NearestAppends
    <2> QED
      BY <1>2, <2>2, <2>3, <2>4 DEF w
  <1>6. DOMAIN m.sites = UNION {DOMAIN f[longer[i]].sites : i \in DOMAIN longer}
    <2>1. DOMAIN c.sites = UNION {DOMAIN f[chain[i]].sites : i \in 1..n}
      BY <1>1 DEF Wins
    <2>2. ASSUME NEW x
          PROVE  x \in DOMAIN m.sites <=> \E i \in 1..(n + 1) : x \in DOMAIN f[longer[i]].sites
      <3>1. x \in DOMAIN c.sites => \E i \in 1..n : x \in DOMAIN f[longer[i]].sites
        BY <1>1, <2>1
      <3>2. ASSUME NEW i \in 1..(n + 1), x \in DOMAIN f[longer[i]].sites
            PROVE  x \in DOMAIN m.sites
        <4>1. CASE i = n + 1
          BY <1>2, <1>4, <3>2, <4>1
        <4>2. CASE i # n + 1
          <5>1. i \in 1..n
            BY <1>1, <4>2
          <5> QED
            BY <1>1, <1>2, <2>1, <3>2, <5>1
        <4> QED
          BY <4>1, <4>2
      <3>3. n + 1 \in 1..(n + 1) /\ 1..n \subseteq 1..(n + 1)
        BY <1>1
      <3> QED
        BY <1>2, <1>4, <3>1, <3>2, <3>3
    <2> QED
      BY <1>1, <2>2
  <1>7. ASSUME NEW name \in DOMAIN m.sites
        PROVE  /\ \A option \in PlainOption :
                    m.sites[name][option] = Nearest(Of(f, longer, name, option))
               /\ Initial(m.sites[name].retry)
                    = Nearest([i \in DOMAIN longer |-> Initial(Of(f, longer, name, "retry")[i])])
               /\ m.sites[name].fragments = Joined(Of(f, longer, name, "fragments"))
    <2>1. \A option :
            /\ DOMAIN Of(f, chain, name, option) = 1..n
            /\ DOMAIN Of(f, longer, name, option) = 1..(n + 1)
            /\ \A i \in 1..n : Of(f, longer, name, option)[i] = Of(f, chain, name, option)[i]
            /\ Of(f, longer, name, option)[n + 1]
                    = IF name \in DOMAIN s.sites THEN s.sites[name][option] ELSE Unset
      <3>1. n + 1 \in DOMAIN longer /\ 1..n \subseteq 1..(n + 1)
        BY <1>1
      <3> QED
        BY <1>1, <1>4, <3>1 DEF Of
    <2>2. ASSUME name \notin DOMAIN c.sites, NEW option
          PROVE  \A i \in 1..n : Of(f, chain, name, option)[i] = Unset
      <3>1. \A i \in 1..n : name \notin DOMAIN f[chain[i]].sites
        BY <1>1, <2>2 DEF Wins
      <3> QED
        BY <1>1, <3>1 DEF Of
    <2>3. ASSUME NEW option \in PlainOption
          PROVE  m.sites[name][option] = Nearest(Of(f, longer, name, option))
      <3> DEFINE v == Of(f, chain, name, option)
                 w == Of(f, longer, name, option)
      <3>1. Nearest(w) = Or(Nearest(v), w[n + 1])
        <4>1. DOMAIN v = 1..n /\ DOMAIN w = 1..(n + 1) /\ \A i \in 1..n : w[i] = v[i]
          BY <2>1
        <4> HIDE DEF v, w
        <4> QED
          BY <1>1, <4>1, NearestAppends
      <3>2. Nearest(v) = IF name \in DOMAIN c.sites THEN c.sites[name][option] ELSE Unset
        <4>1. CASE name \in DOMAIN c.sites
          BY <4>1 DEF Wins
        <4>2. CASE name \notin DOMAIN c.sites
          <5>1. \A i \in DOMAIN v : v[i] = Unset
            BY <2>1, <2>2, <4>2
          <5> QED
            BY <4>2, <5>1, NearestOfNone
        <4> QED
          BY <4>1, <4>2
      <3>3. w[n + 1] = IF name \in DOMAIN s.sites THEN s.sites[name][option] ELSE Unset
        BY <2>1
      <3>4. name \in DOMAIN s.sites /\ name \in DOMAIN c.sites =>
                MergeSite(s.sites[name], c.sites[name])[option]
                    = Or(c.sites[name][option], s.sites[name][option])
        BY <1>3, MergedSites
      <3> HIDE DEF v, w
      <3>5. m.sites[name][option] = Nearest(w)
        BY <1>2, <3>1, <3>2, <3>3, <3>4 DEF Or
      <3> QED
        BY <3>5 DEF w
    <2>4. Initial(m.sites[name].retry)
            = Nearest([i \in DOMAIN longer |-> Initial(Of(f, longer, name, "retry")[i])])
      <3> DEFINE v == [i \in DOMAIN chain |-> Initial(Of(f, chain, name, "retry")[i])]
                 w == [i \in DOMAIN longer |-> Initial(Of(f, longer, name, "retry")[i])]
      <3>1. Nearest(w) = Or(Nearest(v), w[n + 1])
        <4>1. DOMAIN v = 1..n /\ DOMAIN w = 1..(n + 1) /\ \A i \in 1..n : w[i] = v[i]
          BY <1>1, <2>1
        <4> HIDE DEF v, w
        <4> QED
          BY <1>1, <4>1, NearestAppends
      <3>2. Nearest(v) = IF name \in DOMAIN c.sites THEN Initial(c.sites[name].retry) ELSE Unset
        <4>1. CASE name \in DOMAIN c.sites
          BY <4>1 DEF Wins
        <4>2. CASE name \notin DOMAIN c.sites
          <5>1. \A i \in DOMAIN v : v[i] = Unset
            <6>1. \A i \in 1..n : Of(f, chain, name, "retry")[i] = Unset
              BY <2>2, <4>2
            <6> QED
              BY <1>1, <6>1 DEF Initial
          <5> QED
            BY <4>2, <5>1, NearestOfNone
        <4> QED
          BY <4>1, <4>2
      <3>3. w[n + 1] = IF name \in DOMAIN s.sites THEN Initial(s.sites[name].retry) ELSE Unset
        <4>1. n + 1 \in DOMAIN longer
          BY <1>1
        <4>2. w[n + 1] = Initial(Of(f, longer, name, "retry")[n + 1])
          BY <4>1
        <4> QED
          BY <2>1, <4>2 DEF Initial
      <3>4. name \in DOMAIN s.sites /\ name \in DOMAIN c.sites =>
                Initial(MergeSite(s.sites[name], c.sites[name]).retry)
                    = Or(Initial(c.sites[name].retry), Initial(s.sites[name].retry))
        BY <1>3, MergedSites
      <3> HIDE DEF v, w
      <3>5. Initial(m.sites[name].retry) = Nearest(w)
        BY <1>2, <3>1, <3>2, <3>3, <3>4 DEF Or
      <3> QED
        BY <3>5 DEF w
    <2>5. m.sites[name].fragments = Joined(Of(f, longer, name, "fragments"))
      <3> DEFINE v == Of(f, chain, name, "fragments")
                 w == Of(f, longer, name, "fragments")
      <3>1. \A i \in 1..(n + 1) : w[i] \in Opt(SUBSET Value)
        <4>1. \A i \in 1..(n + 1) : IsConfig(f[longer[i]])
          <5> SUFFICES ASSUME NEW i \in 1..(n + 1) PROVE IsConfig(f[longer[i]])
            OBVIOUS
          <5>1. CASE i = n + 1
            BY <1>4, <5>1 DEF s
          <5>2. CASE i # n + 1
            <6>1. i \in 1..n
              BY <1>1, <5>2
            <6> QED
              BY <1>1, <6>1
          <5> QED
            BY <5>1, <5>2
        <4>2. \A i \in 1..(n + 1) : \A x \in DOMAIN f[longer[i]].sites :
                f[longer[i]].sites[x].fragments \in Opt(SUBSET Value)
          BY <4>1 DEF IsConfig, SiteOptions
        <4> QED
          BY <1>1, <4>2 DEF Of, Opt
      <3>2. Joined(w) = MergePatterns(w[n + 1], Joined(v))
        <4>1. DOMAIN v = 1..n /\ DOMAIN w = 1..(n + 1) /\ \A i \in 1..n : w[i] = v[i]
          BY <2>1
        <4> HIDE DEF v, w
        <4> QED
          BY <1>1, <3>1, <4>1, JoinedAppends
      <3>3. Joined(v) = IF name \in DOMAIN c.sites THEN c.sites[name].fragments ELSE Unset
        <4>1. CASE name \in DOMAIN c.sites
          BY <4>1 DEF Wins
        <4>2. CASE name \notin DOMAIN c.sites
          <5>1. \A i \in DOMAIN v : v[i] = Unset
            BY <2>1, <2>2, <4>2
          <5> HIDE DEF v
          <5>2. {v[i] : i \in DOMAIN v} \ {Unset} = {}
            BY <5>1
          <5> QED
            BY <4>2, <5>2 DEF Joined
        <4> QED
          BY <4>1, <4>2
      <3>4. w[n + 1] = IF name \in DOMAIN s.sites THEN s.sites[name].fragments ELSE Unset
        BY <2>1
      <3>5. name \in DOMAIN s.sites /\ name \in DOMAIN c.sites =>
                MergeSite(s.sites[name], c.sites[name]).fragments
                    = MergePatterns(s.sites[name].fragments, c.sites[name].fragments)
        BY <1>3, MergedSites
      <3> HIDE DEF v, w
      <3>6. m.sites[name].fragments = Joined(w)
        BY <1>2, <3>2, <3>3, <3>4, <3>5 DEF MergePatterns, Merge
      <3> QED
        BY <3>6 DEF w
    <2> QED
      BY <2>3, <2>4, <2>5
  <1>8. Wins(m, f, longer)
    BY <1>5, <1>6, <1>7 DEF Wins
  <1> QED
    BY <1>8 DEF m, longer, s

-----------------------------------------------------------------------------
\* The files of the chain are read, and each extends the next.
Links ==
    /\ paths \in Seq(DOMAIN files)
    /\ entry \in DOMAIN files
    /\ \A i \in DOMAIN Chain : Readable(Chain[i])
    /\ previous = Chain[Len(Chain)]
    /\ config.extend = files[previous].extend
    /\ \A i \in 1..Len(paths) : Target[Chain[i]][files[Chain[i]].extend] = paths[i]

ReadInv == Links /\ IsConfig(config) /\ Wins(config, files, Chain)

FilesTyped == \A path \in DOMAIN files : files[path] # Garbage => IsConfig(files[path])

Place == {"command", "open", "extend", "sort", "default", "compile", "done"}

\* What holds of the reading of files.
FilesInv ==
    /\ pc \in Place
    /\ command.kind = "check" => FilesTyped
    /\ pc = "open" => command.kind = "check" /\ config = Unset /\ paths = <<>>
    /\ pc = "command" => config = Unset /\ paths = <<>>
    /\ pc \in {"extend", "sort", "default", "compile"} => command.kind = "check" /\ ReadInv
    /\ config = Unset \/ (command.kind = "check" /\ ReadInv)

LEMMA ChainAppends ==
    ASSUME NEW S, NEW e \in S, NEW p \in Seq(S), NEW x \in S
    PROVE  /\ <<e>> \o p \in Seq(S)
           /\ Len(<<e>> \o p) = Len(p) + 1
           /\ DOMAIN (<<e>> \o p) = 1..(Len(p) + 1)
           /\ (<<e>> \o p)[1] = e
           /\ \A i \in 1..Len(p) : (<<e>> \o p)[i + 1] = p[i]
           /\ <<e>> \o Append(p, x) = Append(<<e>> \o p, x)
OBVIOUS

LEMMA FilesUnchanged ==
    ASSUME FilesInv, UNCHANGED fileVars,
           pc' \in Place,
           pc' \in {"command", "open"} => pc' = pc,
           pc' \in {"extend", "sort", "default", "compile"} =>
                pc \in {"extend", "sort", "default", "compile"}
    PROVE  FilesInv'
PROOF
  <1>1. UNCHANGED <<command, files, entry, config, previous, paths>>
    BY DEF fileVars
  <1>2. UNCHANGED <<Links, FilesTyped, ReadInv>>
    BY <1>1 DEF Links, FilesTyped, ReadInv, Chain, Readable
  <1> QED
    BY <1>1, <1>2 DEF FilesInv

LEMMA OpenKeepsFiles == FilesInv /\ Open => FilesInv'
PROOF
  <1> SUFFICES ASSUME FilesInv, Open PROVE FilesInv'
    OBVIOUS
  <1>0. /\ pc = "open" /\ command.kind = "check" /\ FilesTyped /\ paths = <<>>
    BY DEF Open, FilesInv
  <1>1. CASE ~Readable(entry)
    BY <1>1, FilesUnchanged DEF Open, Stop, Place
  <1>2. CASE Readable(entry)
    <2>1. /\ config' = files[entry] /\ previous' = entry /\ pc' = "extend"
          /\ UNCHANGED <<command, files, entry, paths, outcome>>
      BY <1>2 DEF Open
    <2>2. entry \in DOMAIN files /\ files[entry] # Garbage /\ IsConfig(files[entry])
      BY <1>0, <1>2 DEF Readable, FilesTyped
    <2>3. paths' = <<>> /\ Chain' = <<entry>> /\ Len(paths') = 0
      BY <1>0, <2>1 DEF Chain
    <2>4. Links'
      <3>1. paths' \in Seq(DOMAIN files')
        BY <2>3
      <3>2. \A i \in DOMAIN Chain' : Chain'[i] = entry
        BY <2>3
      <3>3. Chain'[Len(Chain')] = entry
        BY <2>3
      <3>4. \A i \in DOMAIN Chain' : Readable(Chain[i])'
        BY <2>1, <2>2, <3>2 DEF Readable
      <3> QED
        BY <2>1, <2>2, <2>3, <3>1, <3>3, <3>4 DEF Links
    <2>5. Wins(files[entry], files, <<entry>>)
      BY <2>2, OneFileWins
    <2>6. ReadInv'
      BY <2>1, <2>2, <2>3, <2>4, <2>5 DEF ReadInv
    <2> QED
      BY <1>0, <2>1, <2>6 DEF FilesInv, Place, FilesTyped
  <1> QED
    BY <1>1, <1>2

LEMMA ExtendKeepsFiles == FilesInv /\ Extend => FilesInv'
PROOF
  <1> SUFFICES ASSUME FilesInv, Extend PROVE FilesInv'
    OBVIOUS
  <1>0. pc = "extend" /\ command.kind = "check" /\ FilesTyped /\ ReadInv
    BY DEF Extend, FilesInv
  <1> DEFINE path == Target[previous][config.extend]
  <1>1. CASE UNCHANGED fileVars /\ pc' = "done"
    BY <1>1, FilesUnchanged DEF Place
  <1>2. CASE /\ Readable(path)
             /\ paths' = Append(paths, path)
             /\ config' = MergeConfig(files[path], config)
             /\ previous' = path
             /\ UNCHANGED <<command, files, entry, pc, outcome>>
    <2>1. path \in DOMAIN files /\ IsConfig(files[path]) /\ IsConfig(config)
      BY <1>0, <1>2 DEF Readable, FilesTyped, ReadInv
    <2>2. entry \in DOMAIN files /\ paths \in Seq(DOMAIN files) /\ paths' \in Seq(DOMAIN files)
      BY <1>0, <1>2, <2>1 DEF ReadInv, Links
    <2> DEFINE n == Len(paths)
    <2>3. /\ n = Len(paths) /\ n \in Nat
          /\ Chain \in Seq(DOMAIN files) /\ Len(Chain) = n + 1 /\ DOMAIN Chain = 1..(n + 1)
          /\ Chain' = Append(Chain, path)
          /\ Len(paths') = n + 1
          /\ Len(Chain') = n + 2
          /\ DOMAIN Chain' = 1..(n + 2)
          /\ \A i \in 1..(n + 1) : Chain'[i] = Chain[i]
          /\ Chain'[n + 2] = path
      <3>1. n \in Nat /\ Len(paths') = n + 1
        BY <1>2, <2>1, <2>2
      <3>2. /\ Chain \in Seq(DOMAIN files) /\ Len(Chain) = n + 1 /\ DOMAIN Chain = 1..(n + 1)
            /\ <<entry>> \o Append(paths, path) = Append(Chain, path)
        BY <2>1, <2>2, ChainAppends DEF Chain
      <3>3. Chain' = Append(Chain, path)
        BY <1>2, <3>2 DEF Chain
      <3> HIDE DEF path
      <3>4. /\ Len(Append(Chain, path)) = n + 2
            /\ DOMAIN Append(Chain, path) = 1..(n + 2)
            /\ \A i \in 1..(n + 1) : Append(Chain, path)[i] = Chain[i]
            /\ Append(Chain, path)[n + 2] = path
        BY <2>1, <3>1, <3>2
      <3> QED
        BY <3>1, <3>2, <3>3, <3>4
    <2>a. path = Target[previous][config.extend]
      OBVIOUS
    <2> HIDE DEF n, path
    <2>4. \A i \in 1..(n + 2) : Chain'[i] \in DOMAIN files /\ files[Chain'[i]] # Garbage
      <3> SUFFICES ASSUME NEW i \in 1..(n + 2)
                   PROVE  Chain'[i] \in DOMAIN files /\ files[Chain'[i]] # Garbage
        OBVIOUS
      <3>1. CASE i = n + 2
        BY <1>2, <2>3, <3>1 DEF Readable
      <3>2. CASE i # n + 2
        <4>1. i \in 1..(n + 1)
          BY <2>3, <3>2
        <4> QED
          BY <1>0, <2>3, <4>1 DEF ReadInv, Links, Readable
      <3> QED
        BY <3>1, <3>2
    <2>5. \A i \in DOMAIN Chain : IsConfig(files[Chain[i]])
      <3>1. \A i \in 1..(n + 1) : i \in 1..(n + 2)
        BY <2>3
      <3> QED
        BY <1>0, <2>3, <2>4, <3>1 DEF FilesTyped
    <2>6. IsConfig(config') /\ config'.extend = files[path].extend
      BY <1>2, <2>1, MergedConfigs
    <2>7. Wins(config', files, Chain')
      <3>1. Wins(config, files, Chain)
        BY <1>0 DEF ReadInv
      <3>2. Wins(MergeConfig(files[path], config), files, Append(Chain, path))
        BY <2>1, <2>3, <2>5, <3>1, OneMoreFileWins
      <3> QED
        BY <1>2, <2>3, <3>2
    <2>8. Links'
      <3>1. \A i \in 1..(n + 1) : paths'[i] = IF i <= n THEN paths[i] ELSE path
        BY <1>2, <2>1, <2>2, <2>3
      <3>2. previous = Chain[n + 1] /\ config.extend = files[Chain[n + 1]].extend
        BY <1>0, <2>3 DEF ReadInv, Links
      <3>3. \A i \in 1..(n + 1) : Target[Chain[i]][files[Chain[i]].extend] = paths'[i]
        <4> SUFFICES ASSUME NEW i \in 1..(n + 1)
                     PROVE  Target[Chain[i]][files[Chain[i]].extend] = paths'[i]
          OBVIOUS
        <4>1. CASE i = n + 1
          <5>1. paths'[i] = path
            BY <2>3, <3>1, <4>1
          <5> QED
            BY <2>a, <3>2, <4>1, <5>1
        <4>2. CASE i # n + 1
          <5>1. i \in 1..n /\ i <= n /\ i \in 1..Len(paths)
            BY <2>3, <4>2
          <5>2. paths'[i] = paths[i]
            BY <2>3, <3>1, <5>1
          <5>3. Target[Chain[i]][files[Chain[i]].extend] = paths[i]
            BY <1>0, <5>1 DEF ReadInv, Links
          <5> QED
            BY <5>2, <5>3
        <4> QED
          BY <4>1, <4>2
      <3>4. \A i \in 1..Len(paths') : Target[Chain'[i]][files'[Chain'[i]].extend] = paths'[i]
        BY <1>2, <2>3, <3>3
      <3>5. \A i \in DOMAIN Chain' : Readable(Chain[i])'
        BY <1>2, <2>3, <2>4 DEF Readable
      <3>6. previous' = Chain'[Len(Chain')] /\ config'.extend = files'[previous'].extend
        BY <1>2, <2>3, <2>6
      <3> QED
        BY <1>2, <2>2, <3>4, <3>5, <3>6 DEF Links
    <2>9. ReadInv'
      BY <1>2, <2>6, <2>7, <2>8 DEF ReadInv
    <2> QED
      BY <1>0, <1>2, <2>9 DEF FilesInv, FilesTyped, Place
  <1> QED
    BY <1>1, <1>2 DEF Extend, Stop

LEMMA NextKeepsFiles == FilesInv /\ [Next]_vars => FilesInv'
PROOF
  <1> SUFFICES ASSUME FilesInv, [Next]_vars PROVE FilesInv'
    OBVIOUS
  <1>1. CASE FindConfig
    <2>1. /\ pc = "command" /\ command.kind = "check" /\ pc' \in {"open", "done"}
          /\ UNCHANGED <<command, files, config, previous, paths>>
      BY <1>1 DEF FindConfig, Stop
    <2>2. config' = Unset /\ paths' = <<>> /\ FilesTyped'
      BY <2>1 DEF FilesInv, FilesTyped
    <2> QED
      BY <2>1, <2>2 DEF FilesInv, Place
  <1>2. CASE Initialize
    <2>1. /\ pc = "command" /\ command.kind = "init" /\ pc' = "done"
          /\ UNCHANGED <<command, config>>
      BY <1>2 DEF Initialize, Stop
    <2>2. config' = Unset
      BY <2>1 DEF FilesInv
    <2> QED
      BY <2>1, <2>2 DEF FilesInv, Place
  <1>3. CASE Open
    BY <1>3, OpenKeepsFiles
  <1>4. CASE Extend
    BY <1>4, ExtendKeepsFiles
  <1>5. CASE Read
    BY <1>5, FilesUnchanged DEF Read, Place
  <1>6. CASE CheckSite
    BY <1>6, FilesUnchanged DEF CheckSite, Stop, Place
  <1>7. CASE Sort
    BY <1>7, FilesUnchanged DEF Sort, Stop, Place
  <1>8. CASE FindDefault
    BY <1>8, FilesUnchanged DEF FindDefault, Stop, Place
  <1>9. CASE Compile
    <2>1. UNCHANGED fileVars /\ pc = "compile" /\ pc' \in {"compile", "done"}
      BY <1>9 DEF Compile, Stop
    <2> QED
      BY <2>1, FilesUnchanged DEF Place
  <1>10. CASE Finish
    BY <1>10, FilesUnchanged DEF Finish, Stop, Place
  <1>11. CASE UNCHANGED vars
    BY <1>11, FilesUnchanged DEF vars, FilesInv
  <1> QED
    BY <1>1, <1>2, <1>3, <1>4, <1>5, <1>6, <1>7, <1>8, <1>9, <1>10, <1>11
       DEF Next, ReadConfig

LEMMA FilesHold == Spec => []FilesInv
PROOF
  <1>1. Init => FilesInv
    BY CasesAssumption DEF Init, FilesInit, FilesInv, FilesTyped, Place
  <1>2. FilesInv /\ [Next]_vars => FilesInv'
    BY NextKeepsFiles
  <1> QED
    BY <1>1, <1>2, PTL DEF Spec

\* Of the files that extend each other, however many and whatever they set, the
\* nearest that sets an option wins (`read_config`, `SerializableConfig::merge`).
THEOREM NearestFilesWin == Spec => []NearestFileWins
PROOF
  <1>1. FilesInv => NearestFileWins
    <2> SUFFICES ASSUME FilesInv, config # Unset PROVE NearestFileWins
      BY DEF NearestFileWins
    <2>1. Wins(config, files, Chain)
      BY DEF FilesInv, ReadInv
    <2>2. /\ config.concurrency = Nearest([i \in DOMAIN Chain |-> files[Chain[i]].concurrency])
          /\ Name = UNION {DOMAIN files[Chain[i]].sites : i \in DOMAIN Chain}
      BY <2>1 DEF Wins, Name, sites
    <2>3. ASSUME NEW name \in Name
          PROVE  /\ \A option \in {"extend", "roots", "ignore", "recurse", "timeout"} :
                      sites[name][option] = Nearest(InFiles(name, option))
                 /\ Initial(sites[name].retry)
                      = Nearest([i \in DOMAIN Chain |-> Initial(InFiles(name, "retry")[i])])
                 /\ LET set == {InFiles(name, "fragments")[i] : i \in DOMAIN Chain} \ {Unset}
                    IN  sites[name].fragments = IF set = {} THEN Unset ELSE UNION set
      <3>1. \A option : InFiles(name, option) = Of(files, Chain, name, option)
        BY DEF InFiles, Of
      <3>2. /\ \A option \in PlainOption : sites[name][option] = Nearest(InFiles(name, option))
            /\ Initial(sites[name].retry)
                 = Nearest([i \in DOMAIN Chain |-> Initial(InFiles(name, "retry")[i])])
            /\ sites[name].fragments = Joined(InFiles(name, "fragments"))
        BY <2>1, <3>1 DEF Wins, Name, sites
      <3>3. DOMAIN InFiles(name, "fragments") = DOMAIN Chain
        BY DEF InFiles
      <3> QED
        BY <3>2, <3>3 DEF Joined, PlainOption
    <2> QED
      BY <2>2, <2>3, Zenon DEF NearestFileWins
  <1> QED
    BY <1>1, FilesHold, PTL

-----------------------------------------------------------------------------
\* u is the line of x among the sites e of a set S: x, what x extends, and so on.
LineOf(S, e, c, x, u) ==
    u = [k \in 0..c |->
            IF k = 0 THEN x ELSE IF u[k - 1] \in S THEN e[u[k - 1]].extend ELSE Unset]

LEMMA LineUnfolds ==
    ASSUME NEW S, NEW e, NEW c \in Nat, NEW x, NEW u, LineOf(S, e, c, x, u)
    PROVE  /\ DOMAIN u = 0..c
           /\ u[0] = x
           /\ \A k \in 0..(c - 1) : u[k + 1] = IF u[k] \in S THEN e[u[k]].extend ELSE Unset
PROOF
  <1>1. DOMAIN u = 0..c
    BY DEF LineOf
  <1>2. \A k \in 0..c :
            u[k] = IF k = 0 THEN x ELSE IF u[k - 1] \in S THEN e[u[k - 1]].extend ELSE Unset
    BY DEF LineOf
  <1>3. ASSUME NEW k \in 0..(c - 1)
        PROVE  u[k + 1] = IF u[k] \in S THEN e[u[k]].extend ELSE Unset
    <2>1. k + 1 \in 0..c /\ k + 1 # 0 /\ (k + 1) - 1 = k
      OBVIOUS
    <2>2. u[k + 1] = IF u[(k + 1) - 1] \in S THEN e[u[(k + 1) - 1]].extend ELSE Unset
      BY <1>2, <2>1
    <2> QED
      BY <2>1, <2>2
  <1> QED
    BY <1>1, <1>2, <1>3

LEMMA LinesExist ==
    ASSUME NEW S, NEW e, NEW c \in Nat, NEW x
    PROVE  \E u : LineOf(S, e, c, x, u)
PROOF
  <1> DEFINE without == {n \in Nat : ~ \E u : LineOf(S, e, n, x, u)}
  <1>1. ASSUME without # {} PROVE FALSE
    <2>1. PICK n \in without : \A m \in without : n <= m
      <3> without \subseteq Nat
        OBVIOUS
      <3> HIDE DEF without
      <3> QED
        BY <1>1, LeastNumber
    <2>2. CASE n = 0
      <3>1. LineOf(S, e, n, x, [k \in 0..0 |-> x])
        BY <2>2 DEF LineOf
      <3> QED
        BY <2>1, <3>1
    <2>3. CASE n # 0
      <3>1. n \in Nat /\ n - 1 \in Nat /\ n - 1 \notin without
        BY <2>1, <2>3
      <3>2. PICK v : LineOf(S, e, n - 1, x, v)
        BY <3>1
      <3> DEFINE w == [k \in 0..n |->
                          IF k < n THEN v[k] ELSE IF v[n - 1] \in S THEN e[v[n - 1]].extend ELSE Unset]
      <3>3. ASSUME NEW k \in 0..n
            PROVE  w[k] = IF k = 0 THEN x ELSE IF w[k - 1] \in S THEN e[w[k - 1]].extend ELSE Unset
        <4>1. CASE k = 0
          <5>1. w[k] = v[0]
            BY <2>3, <3>1, <4>1
          <5>2. 0 \in 0..(n - 1)
            BY <3>1
          <5>3. v[0] = x
            BY <3>2, <5>2 DEF LineOf
          <5> QED
            BY <4>1, <5>1, <5>3
        <4>2. CASE k = n
          <5>1. w[k - 1] = v[n - 1]
            BY <3>1, <4>2
          <5>2. w[k] = IF v[n - 1] \in S THEN e[v[n - 1]].extend ELSE Unset
            BY <3>1, <4>2
          <5> QED
            BY <2>3, <4>2, <5>1, <5>2
        <4>3. CASE k # 0 /\ k # n
          <5>1. k \in 0..(n - 1) /\ k - 1 \in 0..n /\ k - 1 < n /\ k < n
            BY <3>1, <4>3
          <5>2. w[k - 1] = v[k - 1] /\ w[k] = v[k]
            BY <5>1
          <5>3. v[k] = IF k = 0 THEN x ELSE IF v[k - 1] \in S THEN e[v[k - 1]].extend ELSE Unset
            BY <3>2, <5>1 DEF LineOf
          <5> QED
            BY <4>3, <5>2, <5>3
        <4> QED
          BY <4>1, <4>2, <4>3
      <3>4. DOMAIN w = 0..n /\ w = [k \in 0..n |-> w[k]]
        OBVIOUS
      <3> HIDE DEF w
      <3>5. LineOf(S, e, n, x, w)
        BY <3>3, <3>4 DEF LineOf
      <3> QED
        BY <2>1, <3>5
    <2> QED
      BY <2>2, <2>3
  <1> QED
    BY <1>1

\* A name has only names before it in a line.
LEMMA NamesComeFirst ==
    ASSUME NEW S, NEW e, NEW c \in Nat, NEW x, NEW u, LineOf(S, e, c, x, u), Unset \notin S,
           NEW j \in 0..c, u[j] \in S
    PROVE  \A k \in 0..j : u[k] \in S
PROOF
  <1>0. \A k \in 0..(c - 1) : u[k + 1] = IF u[k] \in S THEN e[u[k]].extend ELSE Unset
    BY LineUnfolds
  <1> DEFINE others == {n \in Nat : n <= j /\ u[j - n] \notin S}
  <1>1. ASSUME others # {} PROVE FALSE
    <2>1. PICK n \in others : \A m \in others : n <= m
      <3> others \subseteq Nat
        OBVIOUS
      <3> HIDE DEF others
      <3> QED
        BY <1>1, LeastNumber
    <2>2. n # 0 /\ n \in Nat /\ n <= j /\ u[j - n] \notin S
      BY <2>1
    <2>3. n - 1 \in Nat /\ n - 1 <= j /\ n - 1 \notin others
      BY <2>1, <2>2
    <2>4. u[j - (n - 1)] \in S
      BY <2>3
    <2>5. j - n \in 0..(c - 1) /\ (j - n) + 1 = j - (n - 1)
      BY <2>2
    <2>6. u[(j - n) + 1] = Unset
      BY <1>0, <2>2, <2>5
    <2> QED
      BY <2>4, <2>5, <2>6
  <1>2. ASSUME NEW k \in 0..j PROVE u[k] \in S
    <2>1. j - k \in Nat /\ j - k <= j /\ j - (j - k) = k
      OBVIOUS
    <2>2. j - k \notin others
      BY <1>1
    <2> QED
      BY <2>1, <2>2
  <1> QED
    BY <1>2

\* The line of what is i steps up is the rest of the line.
LEMMA LinesShift ==
    ASSUME NEW S, NEW e, NEW c \in Nat, NEW x, NEW u, LineOf(S, e, c, x, u),
           NEW i \in 0..c, NEW v, LineOf(S, e, c, u[i], v)
    PROVE  \A k \in 0..(c - i) : v[k] = u[i + k]
PROOF
  <1>0. /\ v[0] = u[i]
        /\ \A k \in 0..(c - 1) : u[k + 1] = IF u[k] \in S THEN e[u[k]].extend ELSE Unset
        /\ \A k \in 0..(c - 1) : v[k + 1] = IF v[k] \in S THEN e[v[k]].extend ELSE Unset
    BY LineUnfolds
  <1> DEFINE others == {n \in 0..(c - i) : v[n] # u[i + n]}
  <1>1. ASSUME others # {} PROVE FALSE
    <2>1. PICK n \in others : \A m \in others : n <= m
      <3> others \subseteq Nat
        OBVIOUS
      <3> HIDE DEF others
      <3> QED
        BY <1>1, LeastNumber
    <2>2. n \in 0..(c - i) /\ v[n] # u[i + n]
      BY <2>1
    <2>3. CASE n = 0
      BY <1>0, <2>2, <2>3
    <2>4. CASE n # 0
      <3>1. n - 1 \in 0..(c - i) /\ n - 1 \notin others
        BY <2>1, <2>2, <2>4
      <3>2. v[n - 1] = u[i + (n - 1)]
        BY <3>1
      <3>3. /\ n - 1 \in 0..(c - 1) /\ (n - 1) + 1 = n
            /\ i + (n - 1) \in 0..(c - 1) /\ (i + (n - 1)) + 1 = i + n
        BY <2>2, <2>4
      <3>4. v[(n - 1) + 1] = IF v[n - 1] \in S THEN e[v[n - 1]].extend ELSE Unset
        BY <1>0, <3>3
      <3>5. u[(i + (n - 1)) + 1] =
                IF u[i + (n - 1)] \in S THEN e[u[i + (n - 1)]].extend ELSE Unset
        BY <1>0, <3>3
      <3> QED
        BY <2>2, <3>2, <3>3, <3>4, <3>5
    <2> QED
      BY <2>3, <2>4
  <1> QED
    BY <1>1

-----------------------------------------------------------------------------
\* What holds of the sites of a configuration.
Finite == IsFiniteSet(Name) /\ Unset \notin Name

LEMMA ConfigsAreFinite == IsConfig(config) => Finite
BY UnsetAssumption DEF IsConfig, Finite, Name, sites

\* `Up` is a line.
LEMMA UpIsLine ==
    ASSUME Finite, NEW name
    PROVE  LineOf(Name, sites, Cardinality(Name), name, Up(name)) /\ Cardinality(Name) \in Nat
PROOF
  <1>1. Cardinality(Name) \in Nat
    BY FS_CardinalityType DEF Finite
  <1>2. Up(name) = CHOOSE u : LineOf(Name, sites, Cardinality(Name), name, u)
    BY DEF Up, LineOf
  <1>3. \E u : LineOf(Name, sites, Cardinality(Name), name, u)
    <2>1. PICK S, e, c : S = Name /\ e = sites /\ c = Cardinality(Name)
      OBVIOUS
    <2>2. \E u : LineOf(S, e, c, name, u)
      BY <1>1, <2>1, LinesExist
    <2> QED
      BY <2>1, <2>2
  <1> QED
    BY <1>1, <1>2, <1>3, Zenon

Uncircular == \A name \in Name : name \notin Ancestors(name)
Parented == \A name \in Name : sites[name].extend \in Name \cup {Unset}

\* A name that comes again in its own line.
LEMMA AncestorsAreAbove ==
    ASSUME Finite, NEW name, NEW k \in 1..Cardinality(Name), Up(name)[k] # Unset
    PROVE  Up(name)[k] \in Ancestors(name)
BY DEF Ancestors

\* A line ends if no name extends itself: there are fewer names than it has places.
LEMMA LinesEnd ==
    ASSUME Finite, Uncircular, NEW name
    PROVE  Up(name)[Cardinality(Name)] \notin Name
PROOF
  <1> DEFINE c == Cardinality(Name)
             u == Up(name)
  <1>1. LineOf(Name, sites, c, name, u) /\ c \in Nat
    BY UpIsLine
  <1>2. SUFFICES ASSUME u[c] \in Name PROVE FALSE
    OBVIOUS
  <1> HIDE DEF c, u
  <1>3. PICK S, e, t : S = Name /\ e = sites /\ t = u
    OBVIOUS
  <1>4. LineOf(S, e, c, name, t) /\ Unset \notin S /\ c \in 0..c /\ t[c] \in S
    BY <1>1, <1>2, <1>3 DEF Finite
  <1>5. \A k \in 0..c : u[k] \in Name
    BY <1>1, <1>3, <1>4, NamesComeFirst
  <1>6. DOMAIN u = 0..c
    BY <1>1 DEF LineOf
  <1>7. u \in [0..c -> Name]
    <2>1. u = [k \in 0..c |-> u[k]]
      BY <1>1 DEF LineOf
    <2> QED
      BY <1>5, <2>1
  <1>8. IsFiniteSet(0..c) /\ Cardinality(0..c) = c + 1
    BY <1>1, FS_Interval
  <1>9. PICK i \in 0..c, j \in 0..c : i # j /\ u[i] = u[j]
    <2>1. Cardinality(Name) < Cardinality(0..c)
      BY <1>1, <1>8 DEF c
    <2> QED
      BY <1>7, <1>8, <2>1, FS_PigeonHole DEF Finite
  <1>10. ASSUME NEW p \in 0..c, NEW q \in 0..c, p < q, u[p] = u[q] PROVE FALSE
    <2> DEFINE v == Up(u[p])
    <2>1. LineOf(Name, sites, c, u[p], v)
      BY UpIsLine DEF c
    <2> HIDE DEF v
    <2>2. v[q - p] = u[p + (q - p)]
      <3>1. PICK r : r = v
        OBVIOUS
      <3>2. \A k \in 0..(c - p) : r[k] = t[p + k]
        <4>1. LineOf(S, e, c, t[p], r) /\ c \in Nat
          BY <1>1, <1>3, <2>1, <3>1
        <4> QED
          BY <1>4, <4>1, LinesShift
      <3>3. q - p \in 0..(c - p)
        BY <1>1, <1>10
      <3> QED
        BY <1>3, <3>1, <3>2, <3>3
    <2>3. p + (q - p) = q /\ q - p \in 1..c
      BY <1>1, <1>10
    <2>4. v[q - p] = u[p] /\ u[p] \in Name /\ u[p] # Unset
      BY <1>5, <1>10, <2>2, <2>3 DEF Finite
    <2>5. u[p] \in Ancestors(u[p])
      BY <2>3, <2>4, AncestorsAreAbove DEF v, c
    <2> QED
      BY <2>4, <2>5 DEF Uncircular
  <1> QED
    BY <1>1, <1>9, <1>10

-----------------------------------------------------------------------------
\* What a line says of something that h has for each name.
Along(name, h) ==
    [k \in 1..Cardinality(Name) |-> IF Up(name)[k - 1] \in Name THEN h[Up(name)[k - 1]] ELSE Unset]

\* It is what the name says or else what the parent's line says.
LEMMA ParentsLine ==
    ASSUME Finite, Uncircular, NEW name \in Name, NEW h
    PROVE  Nearest(Along(name, h)) =
            Or(h[name], IF sites[name].extend \in Name THEN Nearest(Along(sites[name].extend, h))
                        ELSE Unset)
PROOF
  <1> DEFINE c == Cardinality(Name)
             u == Up(name)
             parent == sites[name].extend
             g == Along(name, h)
             f == IF parent \in Name THEN Along(parent, h) ELSE [k \in 1..c |-> Unset]
  <1>1. c \in Nat /\ c > 0
    <2>1. c \in Nat /\ (c = 0 <=> Name = {})
      BY FS_CardinalityType, FS_EmptySet DEF Finite
    <2> QED
      BY <2>1
  <1>2. LineOf(Name, sites, c, name, u)
    BY UpIsLine
  <1>3. u[0] = name /\ u[1] = parent
    <2>1. PICK S, e, t : S = Name /\ e = sites /\ t = u
      OBVIOUS
    <2> HIDE DEF c, u
    <2>2. LineOf(S, e, c, name, t)
      BY <1>2, <2>1
    <2>3. t[0] = name /\ t[1] = IF t[0] \in S THEN e[t[0]].extend ELSE Unset
      <3>1. PICK n \in Nat : n = c
        BY <1>1
      <3>2. /\ t[0] = name
            /\ \A k \in 0..(n - 1) : t[k + 1] = IF t[k] \in S THEN e[t[k]].extend ELSE Unset
        BY <2>2, <3>1, LineUnfolds
      <3>3. 0 \in 0..(n - 1) /\ 0 + 1 = 1
        BY <1>1, <3>1
      <3>4. t[0 + 1] = IF t[0] \in S THEN e[t[0]].extend ELSE Unset
        BY <3>2, <3>3
      <3> QED
        BY <3>2, <3>3, <3>4
    <2> QED
      BY <2>1, <2>3
  <1>4. DOMAIN g = 1..c /\ DOMAIN f = 1..c
    BY DEF Along
  <1>5. g[1] = h[name]
    <2>1. 1 \in 1..c /\ 1 - 1 = 0
      BY <1>1
    <2>2. g[1] = IF u[1 - 1] \in Name THEN h[u[1 - 1]] ELSE Unset
      BY <2>1 DEF Along
    <2> QED
      BY <1>3, <2>1, <2>2
  <1>6. f[c] = Unset /\ \A i \in 1..(c - 1) : g[i + 1] = f[i]
    <2>1. \A i \in 1..(c - 1) : g[i + 1] = IF u[i] \in Name THEN h[u[i]] ELSE Unset
      <3> SUFFICES ASSUME NEW i \in 1..(c - 1)
                   PROVE  g[i + 1] = IF u[i] \in Name THEN h[u[i]] ELSE Unset
        OBVIOUS
      <3> HIDE DEF u
      <3>1. i + 1 \in 1..c /\ (i + 1) - 1 = i
        BY <1>1
      <3>2. g[i + 1] = IF u[(i + 1) - 1] \in Name THEN h[u[(i + 1) - 1]] ELSE Unset
        BY <3>1 DEF Along, u
      <3> QED
        BY <3>1, <3>2
    <2>2. c \in 1..c
      BY <1>1
    <2>3. CASE parent \in Name
      <3> DEFINE v == Up(parent)
      <3>1. LineOf(Name, sites, c, parent, v)
        BY UpIsLine
      <3>2. \A k \in 0..(c - 1) : v[k] = u[1 + k]
        <4>1. PICK S, e, t, r : S = Name /\ e = sites /\ t = u /\ r = v
          OBVIOUS
        <4> HIDE DEF c, u, v, parent
        <4>2. LineOf(S, e, c, name, t) /\ LineOf(S, e, c, t[1], r) /\ 1 \in 0..c
          BY <1>1, <1>2, <1>3, <3>1, <4>1
        <4>3. PICK n \in Nat : n = c
          BY <1>1
        <4>4. PICK i : i = 1
          OBVIOUS
        <4>5. LineOf(S, e, n, name, t) /\ LineOf(S, e, n, t[i], r) /\ i \in 0..n
          BY <4>2, <4>3, <4>4
        <4>6. \A k \in 0..(n - i) : r[k] = t[i + k]
          BY <4>5, LinesShift
        <4> QED
          BY <4>1, <4>3, <4>4, <4>6
      <3>3. u[c] \notin Name
        BY LinesEnd
      <3>4. \A i \in 1..c : f[i] = IF v[i - 1] \in Name THEN h[v[i - 1]] ELSE Unset
        BY <2>3 DEF Along
      <3> HIDE DEF c, u, v, f, g, parent
      <3>5. \A i \in 1..c : v[i - 1] = u[i]
        <4> SUFFICES ASSUME NEW i \in 1..c PROVE v[i - 1] = u[i]
          OBVIOUS
        <4>1. i - 1 \in 0..(c - 1) /\ 1 + (i - 1) = i
          BY <1>1
        <4> QED
          BY <3>2, <4>1
      <3>6. \A i \in 1..c : f[i] = IF u[i] \in Name THEN h[u[i]] ELSE Unset
        BY <3>4, <3>5
      <3>7. f[c] = Unset
        BY <2>2, <3>3, <3>6
      <3>8. \A i \in 1..(c - 1) : i \in 1..c
        BY <1>1
      <3> QED
        BY <2>1, <3>6, <3>7, <3>8
    <2>4. CASE parent \notin Name
      <3>1. \A i \in 1..c : f[i] = Unset
        BY <2>4
      <3>2. ASSUME NEW i \in 1..(c - 1) PROVE u[i] \notin Name
        <4>1. PICK S, e, t : S = Name /\ e = sites /\ t = u
          OBVIOUS
        <4> HIDE DEF c, u, parent
        <4>2. LineOf(S, e, c, name, t) /\ Unset \notin S /\ i \in 0..c /\ 1 \in 0..i
          BY <1>1, <1>2, <4>1 DEF Finite
        <4>3. t[i] \in S => t[1] \in S
          BY <1>1, <4>2, NamesComeFirst
        <4> QED
          BY <1>3, <2>4, <4>1, <4>3
      <3> HIDE DEF c, u, f, g, parent
      <3>3. \A i \in 1..(c - 1) : i \in 1..c
        BY <1>1
      <3> QED
        BY <2>1, <2>2, <3>1, <3>2, <3>3
    <2> QED
      BY <2>3, <2>4
  <1>7. Nearest(g) = Or(g[1], Nearest(f))
    <2> HIDE DEF c, f, g
    <2> QED
      BY <1>1, <1>4, <1>6, NearestPrepends
  <1>8. Nearest(f) = IF parent \in Name THEN Nearest(Along(parent, h)) ELSE Unset
    <2>1. CASE parent \in Name
      BY <2>1
    <2>2. CASE parent \notin Name
      <3>1. \A i \in DOMAIN f : f[i] = Unset
        BY <2>2
      <3> QED
        BY <2>2, <3>1, NearestOfNone
    <2> QED
      BY <2>1, <2>2
  <1> QED
    BY <1>5, <1>7, <1>8

-----------------------------------------------------------------------------
\* What is left to compile has parents first, and what is not left is compiled.
Ordered ==
    /\ order \in Seq(Name)
    /\ \A i, j \in DOMAIN order : sites[order[i]].extend = order[j] => j < i
    /\ DOMAIN configs \subseteq Name
    /\ \A name \in Included : name \in DOMAIN configs \/ \E i \in DOMAIN order : order[i] = name
    /\ \A name \in DOMAIN configs :
         /\ name \in Included
         /\ sites[name].timeout # Bad
         /\ sites[name].extend \in DOMAIN configs \cup {Unset}

\* What holds of the compilation of sites.
SitesInv ==
    /\ pc # "done" => outcome = Running
    /\ pc \in {"command", "open", "extend", "sort", "default"} => configs = <<>>
    /\ pc \in {"default", "compile"} => Uncircular /\ Parented /\ Ordered
    /\ pc = "compile" => Cardinality(Rootless) <= 1

LEMMA ReadingKeepsSites ==
    ASSUME FilesInv, SitesInv, FindConfig \/ Initialize \/ Open \/ Extend \/ Read, UNCHANGED siteVars
    PROVE  SitesInv' /\ configs' = <<>>
PROOF
  <1>1. /\ pc \in {"command", "open", "extend"}
        /\ pc' \in {"open", "extend", "sort", "done"}
        /\ pc' # "done" => outcome' = outcome
    <2>1. CASE FindConfig
      BY <2>1 DEF FindConfig, Stop
    <2>2. CASE Initialize
      BY <2>2 DEF Initialize, Stop
    <2>3. CASE Open
      BY <2>3 DEF Open, Stop
    <2>4. CASE Extend
      BY <2>4 DEF Extend, Stop
    <2>5. CASE Read
      BY <2>5 DEF Read
    <2> QED
      BY <2>1, <2>2, <2>3, <2>4, <2>5
  <1> QED
    BY <1>1 DEF SitesInv, siteVars

\* The order of sites holds each name once.
LEMMA OrderIsComplete ==
    ASSUME Finite, NEW names \in SetToSeqs(Name)
    PROVE  names \in Seq(Name) /\ \A name \in Name : \E i \in DOMAIN names : names[i] = name
PROOF
  <1> DEFINE c == Cardinality(Name)
  <1>1. c \in Nat
    BY FS_CardinalityType DEF Finite
  <1>2. names \in [1..c -> Name] /\ \A i, j \in 1..c : i # j => names[i] # names[j]
    BY DEF SetToSeqs
  <1>3. names \in Injection(1..c, Name)
    BY <1>2 DEF Injection, IsInjective
  <1>4. IsFiniteSet(1..c) /\ Cardinality(1..c) = c
    BY <1>1, FS_Interval
  <1>5. names \in Surjection(1..c, Name)
    BY <1>3, <1>4, FS_Injection DEF Finite
  <1> QED
    BY <1>1, <1>2, <1>5 DEF Surjection

LEMMA SortKeepsSites == FilesInv /\ SitesInv /\ Sort => SitesInv'
PROOF
  <1> SUFFICES ASSUME FilesInv, SitesInv, Sort PROVE SitesInv'
    OBVIOUS
  <1>1. pc = "sort" /\ configs = <<>> /\ outcome = Running /\ Finite
    BY ConfigsAreFinite DEF Sort, FilesInv, SitesInv, ReadInv
  <1>2. UNCHANGED <<config, configs>>
    BY DEF Sort, fileVars
  <1>3. CASE pc' = "done"
    BY <1>3 DEF SitesInv
  <1>4. CASE pc' # "done"
    <2>1. /\ {sites[name].extend : name \in Name} \ (Name \cup {Unset}) = {}
          /\ Circles = {}
          /\ order' \in ParentsFirst
          /\ pc' = "default"
          /\ outcome' = outcome
      BY <1>4 DEF Sort, Stop
    <2>2. Parented /\ Uncircular
      BY <2>1 DEF Parented, Uncircular, Circles
    <2>3. /\ order' \in SetToSeqs(Name)
          /\ \A i, j \in DOMAIN order' : sites[order'[i]].extend = order'[j] => j < i
      BY <2>1 DEF ParentsFirst
    <2>4. order' \in Seq(Name) /\ \A name \in Name : \E i \in DOMAIN order' : order'[i] = name
      <3>1. PICK names : names = order'
        OBVIOUS
      <3> QED
        BY <1>1, <2>3, <3>1, OrderIsComplete
    <2>5. Parented' /\ Uncircular'
      BY <1>2, <2>2 DEF Parented, Uncircular, Ancestors, Up, Name, sites
    <2>6. Ordered'
      BY <1>1, <1>2, <2>3, <2>4 DEF Ordered, Included, Ignored, Name, sites
    <2> QED
      BY <1>1, <1>2, <2>1, <2>5, <2>6 DEF SitesInv
  <1> QED
    BY <1>3, <1>4

LEMMA CompileKeepsSites == FilesInv /\ SitesInv /\ Compile => SitesInv'
PROOF
  <1> SUFFICES ASSUME FilesInv, SitesInv, Compile PROVE SitesInv'
    OBVIOUS
  <1> DEFINE name == Head(order)
             n == Len(order)
  <1>1. /\ pc = "compile" /\ order # <<>> /\ order' = Tail(order) /\ outcome = Running
        /\ Uncircular /\ Parented /\ Ordered /\ Cardinality(Rootless) <= 1
    BY DEF Compile, SitesInv
  <1>2. UNCHANGED <<config>>
    BY DEF Compile, fileVars
  <1>3. CASE pc' = "done"
    BY <1>3 DEF SitesInv
  <1>4. CASE pc' # "done"
    <2>1. /\ pc' = "compile" /\ outcome' = outcome
          /\ \/ Ignored(name) /\ configs' = configs
             \/ /\ ~Ignored(name)
                /\ sites[name].timeout # Bad
                /\ sites[name].extend \in DOMAIN configs \cup {Unset}
                /\ DOMAIN configs' = DOMAIN configs \cup {name}
      <3>1. CASE Ignored(name) /\ UNCHANGED <<pc, outcome, recursion, configs>>
        BY <1>1, <3>1
      <3>2. CASE ~Ignored(name)
        BY <1>1, <1>4, <3>2 DEF Compile, Stop
      <3> QED
        BY <3>1, <3>2 DEF Compile
    <2>2. /\ n \in Nat /\ n > 0 /\ DOMAIN order = 1..n
          /\ order' \in Seq(Name) /\ DOMAIN order' = 1..(n - 1)
          /\ \A i \in 1..(n - 1) : order'[i] = order[i + 1]
          /\ name = order[1] /\ name \in Name
      BY <1>1 DEF Ordered
    <2> HIDE DEF name, n
    <2>3. Parented' /\ Uncircular'
      BY <1>1, <1>2 DEF Parented, Uncircular, Ancestors, Up, Name, sites
    <2>4. \A i, j \in DOMAIN order' : sites[order'[i]].extend = order'[j] => j < i
      <3> SUFFICES ASSUME NEW i \in 1..(n - 1), NEW j \in 1..(n - 1),
                          sites[order'[i]].extend = order'[j]
                   PROVE  j < i
        BY <2>2
      <3>1. i + 1 \in 1..n /\ j + 1 \in 1..n
        BY <2>2
      <3>2. sites[order[i + 1]].extend = order[j + 1]
        BY <2>2
      <3>3. j + 1 < i + 1
        BY <1>1, <2>2, <3>1, <3>2 DEF Ordered
      <3> QED
        BY <3>3
    <2>5. ASSUME NEW m \in Included
          PROVE  m \in DOMAIN configs' \/ \E i \in DOMAIN order' : order'[i] = m
      <3>1. CASE m \in DOMAIN configs
        BY <2>1, <3>1
      <3>2. CASE m = name
        BY <2>1, <3>2 DEF Included
      <3>3. CASE m \notin DOMAIN configs /\ m # name
        <4>1. PICK i \in 1..n : order[i] = m
          BY <1>1, <2>2, <3>3 DEF Ordered
        <4>2. i # 1
          BY <2>2, <3>3, <4>1
        <4>3. i - 1 \in 1..(n - 1) /\ (i - 1) + 1 = i
          BY <2>2, <4>2
        <4>4. order'[i - 1] = order[(i - 1) + 1]
          BY <2>2, <4>3
        <4> QED
          BY <2>2, <4>1, <4>3, <4>4
      <3> QED
        BY <3>1, <3>2, <3>3
    <2>6. /\ DOMAIN configs' \subseteq Name
          /\ \A m \in DOMAIN configs' :
               /\ m \in Included
               /\ sites[m].timeout # Bad
               /\ sites[m].extend \in DOMAIN configs' \cup {Unset}
      <3>1. \A m \in DOMAIN configs :
               /\ m \in Included
               /\ sites[m].timeout # Bad
               /\ sites[m].extend \in DOMAIN configs \cup {Unset}
        BY <1>1 DEF Ordered
      <3>2. DOMAIN configs \subseteq Name
        BY <1>1 DEF Ordered
      <3>3. CASE configs' = configs
        BY <3>1, <3>2, <3>3
      <3>4. CASE /\ ~Ignored(name)
                 /\ sites[name].timeout # Bad
                 /\ sites[name].extend \in DOMAIN configs \cup {Unset}
                 /\ DOMAIN configs' = DOMAIN configs \cup {name}
        <4>1. name \in Included
          BY <2>2, <3>4 DEF Included
        <4> QED
          BY <2>2, <3>1, <3>2, <3>4, <4>1
      <3> QED
        BY <2>1, <3>3, <3>4
    <2>7. Included' = Included /\ Name' = Name /\ sites' = sites /\ Rootless' = Rootless
      BY <1>2 DEF Included, Ignored, Rootless, Name, sites
    <2>8. Ordered'
      BY <2>2, <2>4, <2>5, <2>6, <2>7 DEF Ordered
    <2> QED
      BY <1>1, <2>1, <2>3, <2>7, <2>8 DEF SitesInv
  <1> QED
    BY <1>3, <1>4

LEMMA NextKeepsSites == FilesInv /\ SitesInv /\ [Next]_vars => SitesInv'
PROOF
  <1> SUFFICES ASSUME FilesInv, SitesInv, [Next]_vars PROVE SitesInv'
    OBVIOUS
  <1>1. CASE (ReadConfig \/ Initialize) /\ UNCHANGED siteVars
    BY <1>1, ReadingKeepsSites DEF ReadConfig
  <1>2. CASE CheckSite
    BY <1>2 DEF CheckSite, Stop, SitesInv
  <1>3. CASE Sort
    BY <1>3, SortKeepsSites
  <1>4. CASE FindDefault
    <2>1. /\ pc = "default" /\ pc' \in {"compile", "done"}
          /\ pc' # "done" => outcome' = outcome
          /\ UNCHANGED <<config, order, configs>>
      BY <1>4 DEF FindDefault, Stop, fileVars
    <2>2. Parented /\ Uncircular /\ Ordered
      BY <2>1 DEF SitesInv
    <2>3. Parented' /\ Uncircular' /\ Ordered'
      BY <2>1, <2>2
         DEF Parented, Uncircular, Ordered, Included, Ignored, Ancestors, Up, Name, sites
    <2>4. outcome = Running /\ pc' # "command"
      BY <2>1 DEF SitesInv
    <2>5. pc' = "compile" => Cardinality(Rootless') <= 1
      <3>1. Rootless' = Rootless
        BY <2>1 DEF Rootless, Name, sites
      <3>2. pc' = "compile" => Cardinality(Rootless) <= 1
        BY <1>4 DEF FindDefault, Rootless, Stop
      <3> QED
        BY <3>1, <3>2
    <2> QED
      BY <2>1, <2>3, <2>4, <2>5 DEF SitesInv
  <1>5. CASE Compile
    BY <1>5, CompileKeepsSites
  <1>6. CASE Finish
    BY <1>6 DEF Finish, Stop, SitesInv
  <1>7. CASE UNCHANGED vars
    <2>1. UNCHANGED <<config, order, configs, pc, outcome>>
      BY <1>7 DEF vars, fileVars, siteVars
    <2>2. UNCHANGED <<Parented, Uncircular, Ordered, Rootless>>
      BY <2>1
         DEF Parented, Uncircular, Ordered, Included, Ignored, Rootless, Ancestors, Up, Name, sites
    <2> QED
      BY <2>1, <2>2 DEF SitesInv
  <1> QED
    BY <1>1, <1>2, <1>3, <1>4, <1>5, <1>6, <1>7 DEF Next

LEMMA SitesHold == Spec => [](FilesInv /\ SitesInv)
PROOF
  <1>1. Init => SitesInv
    BY DEF Init, FilesInit, SitesInv
  <1>2. FilesInv /\ SitesInv /\ [Next]_vars => SitesInv'
    BY NextKeepsSites
  <1> QED
    BY <1>1, <1>2, FilesHold, PTL DEF Spec

-----------------------------------------------------------------------------
\* What NearestParentWins says of the compiled site of a name.
ParentWins(site, name) ==
    /\ site.timeout = OrElse(Nearest(InLine(name, "timeout")), Default)
    /\ site.headers = OrElse(Nearest(InLine(name, "headers")), Default)
    /\ site.fragments = OrElse(Nearest(InLine(name, "fragments")), {})
    /\ site.count =
        OrElse(Nearest([k \in DOMAIN InLine(name, "retry") |-> Retries(InLine(name, "retry")[k])]),
               Default)
    /\ site.initial =
        OrElse(Nearest([k \in DOMAIN InLine(name, "retry") |-> Initial(InLine(name, "retry")[k])]),
               Default)
    /\ site.cap = Nearest([k \in DOMAIN InLine(name, "retry") |-> Cap(InLine(name, "retry")[k])])

\* It in terms of what lines say of an option of sites.
LEMMA LinesOfOptions ==
    ASSUME NEW name
    PROVE  /\ \A option : InLine(name, option) = Along(name, [n \in Name |-> sites[n][option]])
           /\ [k \in DOMAIN InLine(name, "retry") |-> Initial(InLine(name, "retry")[k])]
                = Along(name, [n \in Name |-> Initial(sites[n].retry)])
           /\ [k \in DOMAIN InLine(name, "retry") |-> Retries(InLine(name, "retry")[k])]
                = Along(name, [n \in Name |-> Retries(sites[n].retry)])
           /\ [k \in DOMAIN InLine(name, "retry") |-> Cap(InLine(name, "retry")[k])]
                = Along(name, [n \in Name |-> Cap(sites[n].retry)])
PROOF
  <1>1. ASSUME NEW option
        PROVE  InLine(name, option) = Along(name, [n \in Name |-> sites[n][option]])
    BY DEF InLine, Along
  <1>2. DOMAIN InLine(name, "retry") = 1..Cardinality(Name)
    BY DEF InLine
  <1>3. ASSUME NEW k \in 1..Cardinality(Name)
        PROVE  /\ Initial(InLine(name, "retry")[k])
                    = IF Up(name)[k - 1] \in Name
                      THEN [n \in Name |-> Initial(sites[n].retry)][Up(name)[k - 1]] ELSE Unset
               /\ Retries(InLine(name, "retry")[k])
                    = IF Up(name)[k - 1] \in Name
                      THEN [n \in Name |-> Retries(sites[n].retry)][Up(name)[k - 1]] ELSE Unset
               /\ Cap(InLine(name, "retry")[k])
                    = IF Up(name)[k - 1] \in Name
                      THEN [n \in Name |-> Cap(sites[n].retry)][Up(name)[k - 1]] ELSE Unset
    <2>1. InLine(name, "retry")[k]
            = IF Up(name)[k - 1] \in Name THEN sites[Up(name)[k - 1]].retry ELSE Unset
      BY DEF InLine
    <2>2. Initial(Unset) = Unset /\ Retries(Unset) = Unset /\ Cap(Unset) = Unset
      BY DEF Initial, Retries, Cap
    <2> QED
      BY <2>1, <2>2
  <1> QED
    BY <1>1, <1>2, <1>3 DEF Along

\* The same of a whole site.
LEMMA WinsAlong ==
    ASSUME NEW site, NEW name
    PROVE  ParentWins(site, name) <=>
             /\ site.timeout = OrElse(Nearest(Along(name, [n \in Name |-> sites[n].timeout])), Default)
             /\ site.headers = OrElse(Nearest(Along(name, [n \in Name |-> sites[n].headers])), Default)
             /\ site.fragments = OrElse(Nearest(Along(name, [n \in Name |-> sites[n].fragments])), {})
             /\ site.count
                  = OrElse(Nearest(Along(name, [n \in Name |-> Retries(sites[n].retry)])), Default)
             /\ site.initial
                  = OrElse(Nearest(Along(name, [n \in Name |-> Initial(sites[n].retry)])), Default)
             /\ site.cap = Nearest(Along(name, [n \in Name |-> Cap(sites[n].retry)]))
PROOF
  <1> DEFINE retries == [k \in DOMAIN InLine(name, "retry") |-> Retries(InLine(name, "retry")[k])]
             initials == [k \in DOMAIN InLine(name, "retry") |-> Initial(InLine(name, "retry")[k])]
             caps == [k \in DOMAIN InLine(name, "retry") |-> Cap(InLine(name, "retry")[k])]
             retriesAlong == Along(name, [n \in Name |-> Retries(sites[n].retry)])
             initialsAlong == Along(name, [n \in Name |-> Initial(sites[n].retry)])
             capsAlong == Along(name, [n \in Name |-> Cap(sites[n].retry)])
             timeoutsAlong == Along(name, [n \in Name |-> sites[n].timeout])
             headersAlong == Along(name, [n \in Name |-> sites[n].headers])
             fragmentsAlong == Along(name, [n \in Name |-> sites[n].fragments])
  <1>1. /\ InLine(name, "timeout") = timeoutsAlong
        /\ InLine(name, "headers") = headersAlong
        /\ InLine(name, "fragments") = fragmentsAlong
    BY LinesOfOptions
  <1>2. retries = retriesAlong /\ initials = initialsAlong /\ caps = capsAlong
    BY LinesOfOptions, Zenon
  <1>3. ParentWins(site, name) <=>
          /\ site.timeout = OrElse(Nearest(InLine(name, "timeout")), Default)
          /\ site.headers = OrElse(Nearest(InLine(name, "headers")), Default)
          /\ site.fragments = OrElse(Nearest(InLine(name, "fragments")), {})
          /\ site.count = OrElse(Nearest(retries), Default)
          /\ site.initial = OrElse(Nearest(initials), Default)
          /\ site.cap = Nearest(caps)
    BY Zenon DEF ParentWins
  <1> HIDE DEF retries, initials, caps, retriesAlong, initialsAlong, capsAlong,
               timeoutsAlong, headersAlong, fragmentsAlong
  <1>4. ParentWins(site, name) <=>
          /\ site.timeout = OrElse(Nearest(timeoutsAlong), Default)
          /\ site.headers = OrElse(Nearest(headersAlong), Default)
          /\ site.fragments = OrElse(Nearest(fragmentsAlong), {})
          /\ site.count = OrElse(Nearest(retriesAlong), Default)
          /\ site.initial = OrElse(Nearest(initialsAlong), Default)
          /\ site.cap = Nearest(capsAlong)
    BY <1>1, <1>2, <1>3
  <1> QED
    BY <1>4, Zenon DEF retriesAlong, initialsAlong, capsAlong, timeoutsAlong, headersAlong,
                       fragmentsAlong

\* A site that is compiled on top of its parent's inherits along the parent's line.
LEMMA CompiledSiteInherits ==
    ASSUME Finite, Uncircular, NEW name \in Name, NEW id, NEW parent,
           \/ sites[name].extend \in Name /\ ParentWins(parent, sites[name].extend)
           \/ sites[name].extend \notin Name /\ parent = DefaultSite
    PROVE  ParentWins(CompiledSite(id, sites[name], parent), name)
PROOF
  <1> DEFINE up == sites[name].extend
             site == CompiledSite(id, sites[name], parent)
             timeouts == [n \in Name |-> sites[n].timeout]
             headers == [n \in Name |-> sites[n].headers]
             fragments == [n \in Name |-> sites[n].fragments]
             counts == [n \in Name |-> Retries(sites[n].retry)]
             initials == [n \in Name |-> Initial(sites[n].retry)]
             caps == [n \in Name |-> Cap(sites[n].retry)]
  <1>1. /\ site.timeout = Or(sites[name].timeout, parent.timeout)
        /\ site.headers = Or(sites[name].headers, parent.headers)
        /\ site.fragments = Or(sites[name].fragments, parent.fragments)
        /\ site.count = Or(Retries(sites[name].retry), parent.count)
        /\ site.initial = Or(Initial(sites[name].retry), parent.initial)
        /\ site.cap = Or(Cap(sites[name].retry), parent.cap)
    <2>1. /\ site.timeout = Or(sites[name].timeout, parent.timeout)
          /\ site.headers = Or(sites[name].headers, parent.headers)
          /\ site.fragments = Patterns(sites[name].fragments, parent.fragments)
          /\ site.count = Retry(sites[name].retry, parent).count
          /\ site.initial = Retry(sites[name].retry, parent).initial
          /\ site.cap = Retry(sites[name].retry, parent).cap
      BY DEF CompiledSite
    <2>2. /\ Retry(sites[name].retry, parent).count = Or(Retries(sites[name].retry), parent.count)
          /\ Retry(sites[name].retry, parent).initial = Or(Initial(sites[name].retry), parent.initial)
          /\ Retry(sites[name].retry, parent).cap = Or(Cap(sites[name].retry), parent.cap)
      BY DEF Retry, Retries, Initial, Cap, Or
    <2> QED
      BY <2>1, <2>2 DEF Patterns, Or
  <1>2. /\ timeouts[name] = sites[name].timeout
        /\ headers[name] = sites[name].headers
        /\ fragments[name] = sites[name].fragments
        /\ counts[name] = Retries(sites[name].retry)
        /\ initials[name] = Initial(sites[name].retry)
        /\ caps[name] = Cap(sites[name].retry)
    OBVIOUS
  <1>3. \A h : Nearest(Along(name, h)) =
                Or(h[name], IF up \in Name THEN Nearest(Along(up, h)) ELSE Unset)
    BY ParentsLine
  <1>4. ParentWins(site, name) <=>
                /\ site.timeout = OrElse(Nearest(Along(name, timeouts)), Default)
                /\ site.headers = OrElse(Nearest(Along(name, headers)), Default)
                /\ site.fragments = OrElse(Nearest(Along(name, fragments)), {})
                /\ site.count = OrElse(Nearest(Along(name, counts)), Default)
                /\ site.initial = OrElse(Nearest(Along(name, initials)), Default)
                /\ site.cap = Nearest(Along(name, caps))
    BY WinsAlong, Zenon
  <1>5. CASE up \in Name
    <2>1. /\ parent.timeout = OrElse(Nearest(Along(up, timeouts)), Default)
          /\ parent.headers = OrElse(Nearest(Along(up, headers)), Default)
          /\ parent.fragments = OrElse(Nearest(Along(up, fragments)), {})
          /\ parent.count = OrElse(Nearest(Along(up, counts)), Default)
          /\ parent.initial = OrElse(Nearest(Along(up, initials)), Default)
          /\ parent.cap = Nearest(Along(up, caps))
      <3>1. ParentWins(parent, up)
        BY <1>5 DEF Finite
      <3> QED
        BY <3>1, WinsAlong, Zenon
    <2> HIDE DEF site, timeouts, headers, fragments, counts, initials, caps, up
    <2>2. \A h : Nearest(Along(name, h)) = Or(h[name], Nearest(Along(up, h)))
      BY <1>3, <1>5
    <2>3. ParentWins(site, name)
      BY <1>1, <1>2, <1>4, <2>1, <2>2 DEF Or, OrElse
    <2> QED
      BY <2>3 DEF site
  <1>6. CASE up \notin Name
    <2>1. /\ parent.timeout = Default /\ parent.headers = Default /\ parent.fragments = {}
          /\ parent.count = Default /\ parent.initial = Default /\ parent.cap = Unset
      BY <1>6 DEF DefaultSite, Finite
    <2> HIDE DEF site, timeouts, headers, fragments, counts, initials, caps, up
    <2>2. \A h : Nearest(Along(name, h)) = h[name]
      BY <1>3, <1>6 DEF Or
    <2>3. ParentWins(site, name)
      BY <1>1, <1>2, <1>4, <2>1, <2>2 DEF Or, OrElse
    <2> QED
      BY <2>3 DEF site
  <1> QED
    BY <1>5, <1>6

LEMMA LinesUnchanged ==
    ASSUME config' = config, NEW name
    PROVE  /\ Name' = Name /\ Up(name)' = Up(name)
           /\ \A option : InLine(name, option)' = InLine(name, option)
           /\ \A site : ParentWins(site, name)' <=> ParentWins(site, name)
PROOF
  <1>1. Name' = Name /\ sites' = sites
    BY DEF Name, sites
  <1>2. Up(name)' = Up(name)
    BY <1>1 DEF Up
  <1>3. \A option : InLine(name, option)' = InLine(name, option)
    BY <1>1, <1>2 DEF InLine
  <1> QED
    BY <1>1, <1>2, <1>3 DEF ParentWins

LEMMA NextKeepsParentWins ==
    ASSUME FilesInv, SitesInv, NearestParentWins, [Next]_vars
    PROVE  NearestParentWins'
PROOF
  <1>0. \A name \in DOMAIN configs : ParentWins(configs[name], name)
    BY DEF NearestParentWins, ParentWins
  <1>1. CASE configs' = <<>>
    BY <1>1 DEF NearestParentWins
  <1>2. CASE UNCHANGED <<config, configs>>
    <2>1. \A name \in DOMAIN configs' : ParentWins(configs'[name], name)
      BY <1>0, <1>2
    <2>2. \A name \in DOMAIN configs' : ParentWins(configs[name], name)'
      BY <1>2, <2>1, LinesUnchanged DEF ParentWins
    <2> QED
      BY <2>2 DEF NearestParentWins, ParentWins
  <1>3. CASE Compile
    <2> DEFINE name == Head(order)
               parent == sites[name].extend
               id == IF name = defaultName THEN Unset ELSE name
               base == IF parent = Unset THEN DefaultSite ELSE configs[parent]
    <2>1. /\ pc = "compile" /\ Uncircular /\ Parented /\ Ordered /\ Finite /\ order # <<>>
          /\ config' = config
      BY <1>3, ConfigsAreFinite DEF Compile, SitesInv, FilesInv, ReadInv, fileVars
    <2>2. name \in Name
      BY <2>1 DEF Ordered
    <2>3. CASE configs' = configs
      BY <1>2, <2>1, <2>3
    <2>4. CASE configs' # configs
      <3>1. /\ parent \in DOMAIN configs \cup {Unset}
            /\ configs' = [n \in DOMAIN configs \cup {name} |->
                              IF n = name THEN CompiledSite(id, sites[name], base) ELSE configs[n]]
        BY <1>3, <2>4 DEF Compile
      <3>2. ParentWins(CompiledSite(id, sites[name], base), name)
        <4>1. \/ parent \in Name /\ ParentWins(base, parent)
              \/ parent \notin Name /\ base = DefaultSite
          BY <1>0, <2>1, <3>1 DEF Finite, Ordered
        <4>2. PICK i, b : i = id /\ b = base
          OBVIOUS
        <4> HIDE DEF id, base, name
        <4>3. \/ sites[name].extend \in Name /\ ParentWins(b, sites[name].extend)
              \/ sites[name].extend \notin Name /\ b = DefaultSite
          BY <4>1, <4>2
        <4>4. PICK m \in Name : m = name
          BY <2>2
        <4>5. ParentWins(CompiledSite(i, sites[m], b), m)
          BY <2>1, <4>3, <4>4, CompiledSiteInherits
        <4> QED
          BY <4>2, <4>4, <4>5
      <3> HIDE DEF name, id, base
      <3>3. \A n \in DOMAIN configs' : ParentWins(configs'[n], n)
        BY <1>0, <3>1, <3>2
      <3>4. \A n \in DOMAIN configs' : ParentWins(configs[n], n)'
        BY <2>1, <3>3, LinesUnchanged DEF ParentWins
      <3> QED
        BY <3>4 DEF NearestParentWins, ParentWins
    <2> QED
      BY <2>3, <2>4
  <1>4. CASE (ReadConfig \/ Initialize) /\ UNCHANGED siteVars
    BY <1>1, <1>4, ReadingKeepsSites DEF ReadConfig
  <1>5. CASE CheckSite \/ Sort \/ FindDefault \/ Finish \/ UNCHANGED vars
    BY <1>2, <1>5 DEF CheckSite, Sort, FindDefault, Finish, vars, fileVars, siteVars
  <1> QED
    BY <1>3, <1>4, <1>5 DEF Next

\* A compiled site has of each option what the nearest site in its line sets, however
\* long the line is (`compile_config`, `compile_site_config`).
THEOREM NearestParentsWin == Spec => []NearestParentWins
PROOF
  <1>1. Init => NearestParentWins
    BY DEF Init, NearestParentWins
  <1>2. FilesInv /\ SitesInv /\ NearestParentWins /\ [Next]_vars => NearestParentWins'
    BY NextKeepsParentWins
  <1> QED
    BY <1>1, <1>2, SitesHold, PTL DEF Spec

-----------------------------------------------------------------------------
\* A part of a line that links do not lead out of goes on to the end of the line.
LEMMA GoesToTheEnd ==
    ASSUME NEW first \in Nat, NEW last \in Nat, NEW f, NEW next,
           \A i \in first..(last - 1) : next[f[i]] = f[i + 1],
           NEW part, \A x \in part : next[x] \in part,
           NEW k \in first..last, f[k] \in part
    PROVE  \A j \in k..last : f[j] \in part
PROOF
  <1> DEFINE others == {j \in k..last : f[j] \notin part}
  <1>1. ASSUME others # {} PROVE FALSE
    <2>1. PICK j \in others : \A i \in others : j <= i
      <3> others \subseteq Nat
        OBVIOUS
      <3> HIDE DEF others
      <3> QED
        BY <1>1, LeastNumber
    <2>2. j - 1 \in k..last /\ j - 1 \in first..(last - 1) /\ (j - 1) + 1 = j
      BY <2>1
    <2>3. f[j - 1] \in part
      BY <2>1, <2>2
    <2>4. next[f[j - 1]] = f[j]
      BY <2>2
    <2> QED
      BY <2>1, <2>3, <2>4
  <1> QED
    BY <1>1

\* A line whose end leads to its start is one circle.
LEMMA LineIsCircle ==
    ASSUME NEW first \in Nat, NEW last \in Nat, first <= last, NEW f, NEW next,
           DOMAIN next = {f[i] : i \in first..last},
           \A i \in first..(last - 1) : next[f[i]] = f[i + 1],
           next[f[last]] = f[first]
    PROVE  OneCircle(next)
PROOF
  <1>1. first \in first..last /\ last \in first..last
    OBVIOUS
  <1>2. DOMAIN next # {}
    BY <1>1
  <1>3. ASSUME NEW x \in DOMAIN next PROVE next[x] \in DOMAIN next
    <2>1. PICK i \in first..last : x = f[i]
      OBVIOUS
    <2>2. CASE i = last
      BY <1>1, <2>1, <2>2
    <2>3. CASE i # last
      <3>1. i \in first..(last - 1) /\ i + 1 \in first..last
        BY <2>3
      <3> QED
        BY <2>1, <3>1
    <2> QED
      BY <2>2, <2>3
  <1>4. ASSUME NEW part \in SUBSET DOMAIN next, part # {}, \A x \in part : next[x] \in part
        PROVE  part = DOMAIN next
    <2>1. PICK k \in first..last : f[k] \in part
      BY <1>4
    <2>2. f[last] \in part
      <3>1. \A j \in k..last : f[j] \in part
        BY <1>4, <2>1, GoesToTheEnd
      <3> QED
        BY <3>1
    <2>3. f[first] \in part
      BY <1>4, <2>2
    <2>4. \A j \in first..last : f[j] \in part
      BY <1>1, <1>4, <2>3, GoesToTheEnd
    <2> QED
      BY <2>4
  <1> QED
    BY <1>2, <1>3, <1>4 DEF OneCircle

\* The files reported are one circle: the last one extends the first.
LEMMA FilesAreCircular ==
    ASSUME Links, NEW index \in DOMAIN paths, paths[index] = Target[previous][config.extend],
           NEW names, names = {paths[i] : i \in index..Len(paths)}
    PROVE  OneCircle([path \in names |-> Target[path][files[path].extend]])
PROOF
  <1> DEFINE n == Len(paths)
             above(path) == Target[path][files[path].extend]
  <1>1. n \in Nat /\ DOMAIN paths = 1..n /\ index \in 1..n
    BY DEF Links
  <1>2. /\ Len(Chain) = n + 1
        /\ \A i \in 1..n : Chain[i + 1] = paths[i]
    BY ChainAppends DEF Links, Chain
  <1>3. \A i \in 1..n : above(Chain[i]) = paths[i]
    BY DEF Links
  <1>4. previous = paths[n] /\ above(previous) = paths[index]
    <2>1. previous = Chain[n + 1] /\ n \in 1..n
      BY <1>1, <1>2 DEF Links
    <2> QED
      BY <1>2, <2>1 DEF Links
  <1>5. \A i \in 1..n : i < n => above(paths[i]) = paths[i + 1]
    <2> SUFFICES ASSUME NEW i \in 1..n, i < n PROVE above(paths[i]) = paths[i + 1]
      OBVIOUS
    <2>1. i + 1 \in 1..n
      BY <1>1
    <2>2. above(Chain[i + 1]) = paths[i + 1]
      BY <1>3, <2>1
    <2>3. Chain[i + 1] = paths[i]
      BY <1>2
    <2> QED
      BY <2>2, <2>3
  <1> HIDE DEF n, above
  <1>6. DOMAIN [path \in names |-> above(path)] = {paths[i] : i \in index..n}
    BY DEF n
  <1>7. \A i \in index..n : i \in 1..n /\ paths[i] \in names
    BY <1>1 DEF n
  <1>8. \A i \in index..(n - 1) : i \in 1..n /\ i < n /\ i \in index..n
    BY <1>1
  <1>9. \A i \in index..(n - 1) : [path \in names |-> above(path)][paths[i]] = paths[i + 1]
    BY <1>5, <1>7, <1>8
  <1>10. [path \in names |-> above(path)][paths[n]] = paths[index]
    <2>1. n \in index..n
      BY <1>1
    <2> QED
      BY <1>4, <1>7, <2>1
  <1>11. index \in Nat /\ n \in Nat /\ index <= n
    BY <1>1
  <1>12. OneCircle([path \in names |-> above(path)])
    <2>1. PICK next, f, last : next = [path \in names |-> above(path)] /\ f = paths /\ last = n
      OBVIOUS
    <2>2. /\ DOMAIN next = {f[i] : i \in index..last}
          /\ \A i \in index..(last - 1) : next[f[i]] = f[i + 1]
          /\ next[f[last]] = f[index]
      BY <1>6, <1>9, <1>10, <2>1
    <2>3. index \in Nat /\ last \in Nat /\ index <= last
      BY <1>11, <2>1
    <2>4. OneCircle(next)
      BY <2>2, <2>3, LineIsCircle
    <2> QED
      BY <2>1, <2>4
  <1> QED
    BY <1>12 DEF above

\* So are the sites: the line of one that comes again in it goes around.
LEMMA SitesAreCircular ==
    ASSUME Finite, NEW name \in Name, name \in Ancestors(name)
    PROVE  OneCircle([m \in Ancestors(name) |-> sites[m].extend])
PROOF
  <1> DEFINE c == Cardinality(Name)
             u == Up(name)
  <1>1. LineOf(Name, sites, c, name, u) /\ c \in Nat
    BY UpIsLine
  <1>2. PICK p \in 1..c : u[p] = name
    BY DEF Ancestors
  <1> HIDE DEF c, u
  <1>3. /\ u[0] = name
        /\ \A k \in 0..(c - 1) : u[k + 1] = IF u[k] \in Name THEN sites[u[k]].extend ELSE Unset
    <2>1. PICK S, e, t, n : S = Name /\ e = sites /\ t = u /\ n = c
      OBVIOUS
    <2>2. LineOf(S, e, n, name, t) /\ n \in Nat
      BY <1>1, <2>1
    <2>3. /\ t[0] = name
          /\ \A k \in 0..(n - 1) : t[k + 1] = IF t[k] \in S THEN e[t[k]].extend ELSE Unset
      BY <2>2, LineUnfolds
    <2> QED
      BY <2>1, <2>3
  <1>4. \A k \in 0..p : u[k] \in Name
    <2>1. PICK S, e, t, n : S = Name /\ e = sites /\ t = u /\ n = c
      OBVIOUS
    <2>2. LineOf(S, e, n, name, t) /\ n \in Nat /\ Unset \notin S /\ p \in 0..n /\ t[p] \in S
      BY <1>1, <1>2, <2>1 DEF Finite
    <2>3. \A k \in 0..p : t[k] \in S
      BY <2>2, NamesComeFirst
    <2> QED
      BY <2>1, <2>3
  <1>5. \A k \in 0..(p - 1) : u[k + 1] = sites[u[k]].extend
    BY <1>1, <1>3, <1>4
  <1>6. ASSUME NEW k \in 1..c PROVE \E j \in 1..p : u[k] = u[j]
    <2> DEFINE others == {i \in 1..c : ~ \E j \in 1..p : u[i] = u[j]}
    <2>1. ASSUME others # {} PROVE FALSE
      <3>1. PICK i \in others : \A m \in others : i <= m
        <4> others \subseteq Nat
          OBVIOUS
        <4> HIDE DEF others
        <4> QED
          BY <2>1, LeastNumber
      <3>2. i \in 1..c /\ i > p /\ i - 1 \in 1..c /\ i - 1 \notin others
        BY <1>1, <3>1
      <3>3. PICK j \in 1..p : u[i - 1] = u[j]
        BY <3>2
      <3>4. u[i] = IF u[i - 1] \in Name THEN sites[u[i - 1]].extend ELSE Unset
        <4>1. i - 1 \in 0..(c - 1) /\ (i - 1) + 1 = i
          BY <1>1, <3>2
        <4> HIDE DEF others
        <4> QED
          BY <1>3, <4>1
      <3>5. u[j] \in Name /\ u[i] = sites[u[j]].extend
        BY <1>4, <3>3, <3>4
      <3>6. CASE j = p
        <4>1. u[i] = u[1]
          <5>1. u[i] = sites[u[0]].extend /\ 0 \in 0..(p - 1) /\ 0 + 1 = 1
            BY <1>2, <1>3, <3>5, <3>6
          <5> QED
            BY <1>5, <5>1
        <4> QED
          BY <3>1, <4>1
      <3>7. CASE j # p
        <4>1. j \in 0..(p - 1) /\ j + 1 \in 1..p
          BY <3>7
        <4>2. u[i] = u[j + 1]
          BY <1>5, <3>5, <4>1
        <4> QED
          BY <3>1, <4>1, <4>2
      <3> QED
        BY <3>6, <3>7
    <2> QED
      BY <2>1
  <1>7. Ancestors(name) = {u[k] : k \in 1..p}
    <2>1. \A k \in 1..p : k \in 1..c /\ u[k] # Unset
      BY <1>1, <1>4 DEF Finite
    <2>2. Ancestors(name) = {u[k] : k \in 1..c} \ {Unset}
      BY DEF Ancestors, c, u
    <2> QED
      BY <1>6, <2>1, <2>2
  <1>8. PICK next : next = [m \in Ancestors(name) |-> sites[m].extend]
    OBVIOUS
  <1>9. DOMAIN next = {u[k] : k \in 1..p} /\ \A k \in 1..p : next[u[k]] = sites[u[k]].extend
    BY <1>7, <1>8
  <1>10. \A k \in 1..(p - 1) : next[u[k]] = u[k + 1]
    <2>1. \A k \in 1..(p - 1) : k \in 1..p /\ k \in 0..(p - 1)
      OBVIOUS
    <2> QED
      BY <1>5, <1>9, <2>1
  <1>11. next[u[p]] = u[1]
    <2>1. p \in 1..p /\ 0 \in 0..(p - 1) /\ 0 + 1 = 1
      OBVIOUS
    <2>2. u[1] = sites[u[0]].extend
      BY <1>5, <2>1
    <2> QED
      BY <1>2, <1>3, <1>9, <2>1, <2>2
  <1>12. OneCircle(next)
    <2>1. 1 \in Nat /\ p \in Nat /\ 1 <= p
      BY <1>1
    <2>2. PICK f, last : f = u /\ last = p
      OBVIOUS
    <2>3. /\ DOMAIN next = {f[k] : k \in 1..last}
          /\ \A k \in 1..(last - 1) : next[f[k]] = f[k + 1]
          /\ next[f[last]] = f[1]
      BY <1>9, <1>10, <1>11, <2>2
    <2> QED
      BY <2>1, <2>2, <2>3, LineIsCircle
  <1> QED
    BY <1>8, <1>12

LEMMA NextStopsForCause ==
    ASSUME FilesInv, SitesInv, StopsForCause, [Next]_vars
    PROVE  StopsForCause'
PROOF
  <1>1. CASE UNCHANGED vars
    <2>1. UNCHANGED <<command, files, entry, config, previous, outcome>>
      BY <1>1 DEF vars, fileVars
    <2> QED
      BY <2>1 DEF StopsForCause, Readable, Rootless, Included, Ignored, Ancestors, Up, Name, sites
  <1>2. CASE outcome'.kind \in {"running", "exists", "initialized"}
    BY <1>2 DEF StopsForCause
  <1>3. ASSUME Next PROVE outcome = Running
    BY <1>3 DEF Next, ReadConfig, FindConfig, Initialize, Open, Extend, Read, CheckSite, Sort,
                FindDefault, Compile, Finish, SitesInv
  <1>4. outcome = Running /\ outcome' = outcome => outcome'.kind = "running"
    BY DEF Running
  <1>5. CASE ReadConfig /\ UNCHANGED siteVars
    <2>1. CASE Extend
      <3>1. CASE \E index \in DOMAIN paths :
                    /\ paths[index] = Target[previous][config.extend]
                    /\ Stop("files", {paths[i] : i \in index..Len(paths)})
                    /\ UNCHANGED fileVars
        <4>1. PICK index \in DOMAIN paths :
                    /\ paths[index] = Target[previous][config.extend]
                    /\ Stop("files", {paths[i] : i \in index..Len(paths)})
                    /\ UNCHANGED fileVars
          BY <3>1
        <4>2. Links
          BY <2>1 DEF Extend, FilesInv, ReadInv
        <4>3. PICK names : names = {paths[i] : i \in index..Len(paths)}
          OBVIOUS
        <4>4. OneCircle([path \in names |-> Target[path][files[path].extend]])
          BY <4>1, <4>2, <4>3, FilesAreCircular
        <4>5. outcome'.kind = "files" /\ outcome'.names = names /\ files' = files
          BY <4>1, <4>3 DEF Stop, fileVars
        <4> QED
          BY <4>4, <4>5 DEF StopsForCause
      <3>2. CASE ~Readable(Target[previous][config.extend]) /\ Stop("io", {}) /\ UNCHANGED fileVars
        <4>1. /\ outcome'.kind = "io" /\ config.extend # Unset
              /\ UNCHANGED <<files, config, previous>>
          BY <2>1, <3>2 DEF Extend, Stop, fileVars
        <4> QED
          BY <3>2, <4>1 DEF StopsForCause, Readable
      <3>3. CASE outcome' = outcome
        BY <1>2, <1>3, <1>4, <1>5, <3>3 DEF Next
      <3> QED
        BY <2>1, <3>1, <3>2, <3>3 DEF Extend
    <2>2. CASE FindConfig
      <3> DEFINE found == {i \in DOMAIN command.places : command.places[i] \in DOMAIN files}
      <3>1. CASE command.file = Unset /\ found = {} /\ Stop("unfound", {})
        <4>1. outcome'.kind = "unfound" /\ UNCHANGED <<command, files>>
          BY <2>2, <3>1 DEF FindConfig, Stop
        <4>2. \A i \in DOMAIN command.places : command.places[i] \notin DOMAIN files
          BY <3>1
        <4> QED
          BY <3>1, <4>1, <4>2 DEF StopsForCause
      <3>2. CASE outcome' = outcome
        BY <1>2, <1>3, <1>4, <1>5, <3>2 DEF Next
      <3> QED
        BY <2>2, <3>1, <3>2 DEF FindConfig
    <2>3. CASE Open
      <3>1. CASE ~Readable(entry) /\ Stop("io", {}) /\ UNCHANGED fileVars
        <4>1. outcome'.kind = "io" /\ UNCHANGED <<files, entry>>
          BY <3>1 DEF Stop, fileVars
        <4> QED
          BY <3>1, <4>1 DEF StopsForCause, Readable
      <3>2. CASE outcome' = outcome
        BY <1>2, <1>3, <1>4, <1>5, <3>2 DEF Next
      <3> QED
        BY <2>3, <3>1, <3>2 DEF Open
    <2>4. CASE Read
      <3>1. outcome' = outcome
        BY <2>4 DEF Read
      <3> QED
        BY <1>2, <1>3, <1>4, <1>5, <3>1 DEF Next
    <2> QED
      BY <1>5, <2>1, <2>2, <2>3, <2>4 DEF ReadConfig
  <1>6. CASE Initialize /\ UNCHANGED siteVars
    <2>1. outcome'.kind \in {"exists", "initialized"}
      BY <1>6 DEF Initialize, Stop
    <2> QED
      BY <1>2, <2>1
  <1>7. CASE CheckSite
    <2>1. /\ command' = command /\ command.kind = "check-site"
          /\ \/ outcome'.kind = "invalid" /\ (command.timeout = Bad \/ Bad \in command.urls)
             \/ outcome'.kind = "ok"
      BY <1>7 DEF CheckSite, Stop, fileVars
    <2> QED
      BY <2>1 DEF StopsForCause
  <1>8. CASE Sort
    <2>1. Finite /\ UNCHANGED <<config>>
      BY <1>8, ConfigsAreFinite DEF Sort, FilesInv, ReadInv, fileVars
    <2>2. CASE \E circle \in Circles : Stop("circular", circle)
      <3>1. PICK name \in Name : name \in Ancestors(name) /\ Stop("circular", Ancestors(name))
        BY <2>2 DEF Circles
      <3>2. PICK n, names : n \in Name /\ n = name /\ names = Ancestors(name)
        OBVIOUS
      <3>3. OneCircle([m \in names |-> sites[m].extend])
        BY <2>1, <3>1, <3>2, SitesAreCircular
      <3>4. outcome'.kind = "circular" /\ outcome'.names = names /\ sites' = sites
        BY <2>1, <3>1, <3>2 DEF Stop, sites
      <3> QED
        BY <3>3, <3>4 DEF StopsForCause
    <2>3. CASE \E parent \in {sites[name].extend : name \in Name} \ (Name \cup {Unset}) :
                  Stop("missing", {parent})
      <3>1. PICK name \in Name : /\ sites[name].extend \notin Name \cup {Unset}
                                 /\ Stop("missing", {sites[name].extend})
        BY <2>3
      <3>2. /\ outcome'.kind = "missing" /\ outcome'.names = {sites[name].extend}
            /\ sites' = sites /\ Name' = Name
        BY <2>1, <3>1 DEF Stop, Name, sites
      <3> QED
        BY <3>1, <3>2 DEF StopsForCause
    <2>4. CASE outcome' = outcome
      BY <1>2, <1>3, <1>4, <1>8, <2>4 DEF Next
    <2> QED
      BY <1>8, <2>2, <2>3, <2>4 DEF Sort
  <1>9. CASE FindDefault
    <2>1. UNCHANGED <<config>>
      BY <1>9 DEF FindDefault, fileVars
    <2>2. CASE Cardinality(Rootless) > 1 /\ Stop("defaults", Rootless)
      <3>1. outcome'.kind = "defaults" /\ outcome'.names = Rootless /\ Rootless' = Rootless
        BY <2>1, <2>2 DEF Stop, Rootless, Name, sites
      <3> QED
        BY <2>2, <3>1 DEF StopsForCause
    <2>3. CASE outcome' = outcome
      BY <1>2, <1>3, <1>4, <1>9, <2>3 DEF Next
    <2> QED
      BY <1>9, <2>2, <2>3 DEF FindDefault, Rootless
  <1>10. CASE Compile
    <2> DEFINE name == Head(order)
               parent == sites[name].extend
    <2>1. pc = "compile" /\ order # <<>> /\ Parented /\ Ordered /\ config' = config
      BY <1>10 DEF Compile, SitesInv, fileVars
    <2>2. CASE /\ ~Ignored(name)
               /\ parent \notin DOMAIN configs \cup {Unset}
               /\ Stop("panic", {name})
      <3>1. name = order[1] /\ 1 \in DOMAIN order /\ name \in Name
        BY <2>1 DEF Ordered
      <3>2. parent \in Name
        BY <2>1, <2>2, <3>1 DEF Parented
      <3>3. parent \notin Included
        <4>1. SUFFICES ASSUME parent \in Included PROVE FALSE
          OBVIOUS
        <4>2. PICK i \in DOMAIN order : order[i] = parent
          BY <2>1, <2>2, <4>1 DEF Ordered
        <4>3. i < 1 /\ i \in 1..Len(order)
          BY <2>1, <3>1, <4>2 DEF Ordered
        <4> QED
          BY <4>3
      <3>4. name \in Included /\ parent \in Name \ Included
        BY <2>2, <3>1, <3>2, <3>3 DEF Included
      <3>5. Included' = Included /\ Name' = Name /\ sites' = sites
        BY <2>1 DEF Included, Ignored, Name, sites
      <3>6. outcome'.kind = "panic" /\ outcome'.names = {name}
        BY <2>2 DEF Stop
      <3> QED
        BY <3>4, <3>5, <3>6 DEF StopsForCause
    <2>3. CASE ~Ignored(name) /\ sites[name].timeout = Bad /\ Stop("invalid", {name})
      <3>1. /\ outcome'.kind = "invalid" /\ outcome'.names = {name}
            /\ command.kind = "check" /\ command' = command
        BY <1>10, <2>1, <2>3 DEF Compile, Stop, FilesInv, fileVars
      <3>2. name \in Included
        BY <2>1, <2>3 DEF Ordered, Included
      <3>3. Included' = Included /\ sites' = sites
        BY <2>1 DEF Included, Ignored, Name, sites
      <3> QED
        BY <2>3, <3>1, <3>2, <3>3 DEF StopsForCause
    <2>4. CASE outcome' = outcome
      BY <1>2, <1>3, <1>4, <1>10, <2>4 DEF Next
    <2> QED
      BY <1>10, <2>2, <2>3, <2>4 DEF Compile
  <1>11. CASE Finish
    <2>1. /\ pc = "compile" /\ order = <<>> /\ Uncircular /\ Ordered /\ config' = config
          /\ outcome'.kind = "ok" /\ Cardinality(Rootless) <= 1
      BY <1>11 DEF Finish, SitesInv, Stop, fileVars
    <2>2. DOMAIN configs = Included
      <3>1. DOMAIN order = {}
        BY <2>1
      <3> QED
        BY <2>1, <3>1 DEF Ordered
    <2>3. \A name \in Included : /\ name \notin Ancestors(name)
                                 /\ sites[name].extend \in Included \cup {Unset}
                                 /\ sites[name].timeout # Bad
      BY <2>1, <2>2 DEF Uncircular, Ordered, Included
    <2>4. \A name \in Included' : /\ name \notin Ancestors(name)'
                                  /\ sites'[name].extend \in Included' \cup {Unset}
                                  /\ sites'[name].timeout # Bad
      BY <2>1, <2>3 DEF Included, Ignored, Ancestors, Up, Name, sites
    <2>5. Cardinality(Rootless') <= 1
      <3>1. Rootless' = Rootless
        BY <2>1 DEF Rootless, Name, sites
      <3> QED
        BY <2>1, <3>1
    <2> QED
      BY <2>1, <2>4, <2>5 DEF StopsForCause
  <1> QED
    BY <1>1, <1>5, <1>6, <1>7, <1>8, <1>9, <1>10, <1>11 DEF Next

\* An error names its cause, and a configuration without one is compiled: what is
\* reported as circular is one circle, without what only leads to it, however the
\* files and sites extend each other, and every other error has the file, site or
\* parent that it is about (`read_config`, `sort_site_configs`, `compile_config`).
THEOREM ErrorsHaveCauses == Spec => []StopsForCause
PROOF
  <1>1. Init => StopsForCause
    BY DEF Init, FilesInit, StopsForCause, Running
  <1>2. FilesInv /\ SitesInv /\ StopsForCause /\ [Next]_vars => StopsForCause'
    BY NextStopsForCause
  <1> QED
    BY <1>1, <1>2, SitesHold, PTL DEF Spec

-----------------------------------------------------------------------------
\* Paths that agree up to n agree letter by letter.
LEMMA PrefixesByLetter ==
    ASSUME NEW p \in Seq(Nat), NEW q \in Seq(Nat), NEW n \in Nat, n <= Len(p), n <= Len(q)
    PROVE  SubSeq(p, 1, n) = SubSeq(q, 1, n) <=> \A k \in 1..n : p[k] = q[k]
PROOF
  <1>1. /\ SubSeq(p, 1, n) = [k \in 1..n |-> p[k]]
        /\ SubSeq(q, 1, n) = [k \in 1..n |-> q[k]]
    OBVIOUS
  <1> QED
    BY <1>1

\* The letter of a path at i, below all others after its end.
Letter(p, i) == IF i \in DOMAIN p THEN p[i] + 1 ELSE 0

\* The first difference of two paths is at i, where p's letter is the lesser one.
LessAt(p, q, i) ==
    /\ Letter(p, i) < Letter(q, i)
    /\ \A k \in 1..(i - 1) : Letter(p, k) = Letter(q, k)

LEMMA Letters ==
    ASSUME NEW p \in Seq(Nat), NEW i
    PROVE  /\ Letter(p, i) \in Nat
           /\ i \in 1..Len(p) => Letter(p, i) = p[i] + 1 /\ Letter(p, i) > 0
           /\ i \notin 1..Len(p) => Letter(p, i) = 0
BY DEF Letter

\* The order of strings goes by the first difference.
LEMMA PrecedesByLetter ==
    ASSUME NEW p \in Seq(Nat), NEW q \in Seq(Nat)
    PROVE  Precedes(p, q) <=> \E i \in Nat \ {0} : LessAt(p, q, i)
PROOF
  <1>1. ASSUME IsStrictPrefix(p, q) PROVE \E i \in Nat \ {0} : LessAt(p, q, i)
    <2>1. Len(p) \in Nat /\ Len(q) \in Nat /\ Len(p) <= Len(q) /\ p # q
          /\ SubSeq(p, 1, Len(p)) = SubSeq(q, 1, Len(p))
      BY <1>1 DEF IsStrictPrefix, IsPrefix
    <2>2. \A k \in 1..Len(p) : p[k] = q[k]
      BY <2>1, PrefixesByLetter
    <2>3. Len(p) # Len(q)
      <3>1. Len(p) = Len(q) => p = q
        BY <2>2, SeqEqual
      <3> QED
        BY <2>1, <3>1
    <2> DEFINE i == Len(p) + 1
    <2>4. i \in 1..Len(q) /\ i \notin 1..Len(p) /\ i \in Nat \ {0} /\ i - 1 = Len(p)
      BY <2>1, <2>3
    <2>5. Letter(p, i) < Letter(q, i)
      BY <2>4, Letters
    <2>6. \A k \in 1..(i - 1) : Letter(p, k) = Letter(q, k)
      <3> SUFFICES ASSUME NEW k \in 1..(i - 1) PROVE Letter(p, k) = Letter(q, k)
        OBVIOUS
      <3>1. k \in 1..Len(p) /\ k \in 1..Len(q)
        BY <2>1, <2>4
      <3> QED
        BY <2>2, <3>1, Letters
    <2> QED
      BY <2>4, <2>5, <2>6 DEF LessAt
  <1>2. ASSUME NEW i \in DOMAIN p \cap DOMAIN q, p[i] < q[i], SubSeq(p, 1, i - 1) = SubSeq(q, 1, i - 1)
        PROVE  LessAt(p, q, i) /\ i \in Nat \ {0}
    <2>1. i \in 1..Len(p) /\ i \in 1..Len(q) /\ i - 1 \in Nat /\ i - 1 <= Len(p) /\ i - 1 <= Len(q)
      OBVIOUS
    <2>2. \A k \in 1..(i - 1) : p[k] = q[k]
      BY <1>2, <2>1, PrefixesByLetter
    <2>3. \A k \in 1..(i - 1) : k \in 1..Len(p) /\ k \in 1..Len(q)
      BY <2>1
    <2>4. p[i] \in Nat /\ q[i] \in Nat
      BY <2>1
    <2>5. Letter(p, i) < Letter(q, i)
      BY <1>2, <2>1, <2>4, Letters
    <2>6. \A k \in 1..(i - 1) : Letter(p, k) = Letter(q, k)
      BY <2>2, <2>3, Letters
    <2> QED
      BY <2>1, <2>5, <2>6 DEF LessAt
  <1>3. ASSUME NEW i \in Nat \ {0}, LessAt(p, q, i) PROVE Precedes(p, q)
    <2>1. Letter(p, i) < Letter(q, i) /\ \A k \in 1..(i - 1) : Letter(p, k) = Letter(q, k)
      BY <1>3 DEF LessAt
    <2>2. i \in 1..Len(q)
      BY <2>1, Letters
    <2>3. ASSUME NEW k \in 1..(i - 1), k <= Len(p) PROVE p[k] = q[k]
      <3>1. k \in 1..Len(p) /\ k \in 1..Len(q)
        BY <2>2, <2>3
      <3>2. p[k] \in Nat /\ q[k] \in Nat
        BY <3>1
      <3>3. Letter(p, k) = p[k] + 1 /\ Letter(q, k) = q[k] + 1
        BY <3>1, Letters
      <3>4. Letter(p, k) = Letter(q, k)
        BY <2>1
      <3> QED
        BY <3>2, <3>3, <3>4
    <2>4. CASE i \in 1..Len(p)
      <3>1. p[i] < q[i]
        <4>1. p[i] \in Nat /\ q[i] \in Nat
          BY <2>2, <2>4
        <4>2. Letter(p, i) = p[i] + 1 /\ Letter(q, i) = q[i] + 1
          BY <2>2, <2>4, Letters
        <4>3. Letter(p, i) < Letter(q, i)
          BY <2>1
        <4> QED
          BY <4>1, <4>2, <4>3
      <3>2. SubSeq(p, 1, i - 1) = SubSeq(q, 1, i - 1)
        <4>1. i - 1 \in Nat /\ i - 1 <= Len(p) /\ i - 1 <= Len(q)
          BY <2>2, <2>4
        <4>2. \A k \in 1..(i - 1) : k <= Len(p)
          BY <2>4
        <4>3. \A k \in 1..(i - 1) : p[k] = q[k]
          BY <2>3, <4>2
        <4> QED
          BY <4>1, <4>3, PrefixesByLetter
      <3>3. i \in DOMAIN p \cap DOMAIN q
        BY <2>2, <2>4
      <3> QED
        BY <3>1, <3>2, <3>3 DEF Precedes
    <2>5. CASE i \notin 1..Len(p)
      <3>1. Len(p) \in Nat /\ Len(p) <= i - 1 /\ Len(p) <= Len(q) /\ Len(p) # Len(q)
        BY <2>2, <2>5
      <3>2. \A k \in 1..Len(p) : p[k] = q[k]
        BY <2>3, <3>1
      <3>3. SubSeq(p, 1, Len(p)) = SubSeq(q, 1, Len(p))
        BY <3>1, <3>2, PrefixesByLetter
      <3> QED
        BY <3>1, <3>3 DEF Precedes, IsStrictPrefix, IsPrefix
    <2> QED
      BY <2>4, <2>5
  <1> QED
    BY <1>1, <1>2, <1>3 DEF Precedes

\* It is a strict order, and total.
LEMMA PrecedesOneWay ==
    ASSUME NEW p \in Seq(Nat), NEW q \in Seq(Nat), Precedes(p, q)
    PROVE  ~Precedes(q, p) /\ p # q
PROOF
  <1>1. PICK i \in Nat \ {0} : LessAt(p, q, i)
    BY PrecedesByLetter
  <1>2. ASSUME NEW j \in Nat \ {0}, LessAt(q, p, j) PROVE FALSE
    <2>1. /\ Letter(p, i) < Letter(q, i) /\ \A k \in 1..(i - 1) : Letter(p, k) = Letter(q, k)
          /\ Letter(q, j) < Letter(p, j) /\ \A k \in 1..(j - 1) : Letter(q, k) = Letter(p, k)
      BY <1>1, <1>2 DEF LessAt
    <2>2. \A k : Letter(p, k) \in Nat /\ Letter(q, k) \in Nat
      BY Letters
    <2>3. CASE i = j
      BY <2>1, <2>2, <2>3
    <2>4. CASE i < j
      <3>1. i \in 1..(j - 1)
        BY <2>4
      <3> QED
        BY <2>1, <2>2, <3>1
    <2>5. CASE j < i
      <3>1. j \in 1..(i - 1)
        BY <2>5
      <3> QED
        BY <2>1, <2>2, <3>1
    <2> QED
      BY <2>3, <2>4, <2>5
  <1>3. ~Precedes(q, p)
    BY <1>2, PrecedesByLetter
  <1> QED
    BY <1>3

LEMMA PrecedesTransitive ==
    ASSUME NEW p \in Seq(Nat), NEW q \in Seq(Nat), NEW r \in Seq(Nat), Precedes(p, q), Precedes(q, r)
    PROVE  Precedes(p, r)
PROOF
  <1>1. PICK i \in Nat \ {0} : LessAt(p, q, i)
    BY PrecedesByLetter
  <1>2. PICK j \in Nat \ {0} : LessAt(q, r, j)
    BY PrecedesByLetter
  <1>3. /\ Letter(p, i) < Letter(q, i) /\ \A k \in 1..(i - 1) : Letter(p, k) = Letter(q, k)
        /\ Letter(q, j) < Letter(r, j) /\ \A k \in 1..(j - 1) : Letter(q, k) = Letter(r, k)
    BY <1>1, <1>2 DEF LessAt
  <1>4. \A k : Letter(p, k) \in Nat /\ Letter(q, k) \in Nat /\ Letter(r, k) \in Nat
    BY Letters
  <1>5. CASE i <= j
    <2>1. \A k \in 1..(i - 1) : k \in 1..(j - 1)
      BY <1>5
    <2>2. Letter(p, i) < Letter(r, i)
      <3>1. CASE i = j
        BY <1>3, <1>4, <3>1
      <3>2. CASE i # j
        <4>1. i \in 1..(j - 1)
          BY <1>5, <3>2
        <4> QED
          BY <1>3, <1>4, <4>1
      <3> QED
        BY <3>1, <3>2
    <2>3. LessAt(p, r, i)
      BY <1>3, <2>1, <2>2 DEF LessAt
    <2> QED
      BY <2>3, PrecedesByLetter
  <1>6. CASE j < i
    <2>1. \A k \in 1..j : k \in 1..(i - 1)
      BY <1>6
    <2>2. j \in 1..j /\ \A k \in 1..(j - 1) : k \in 1..j
      OBVIOUS
    <2>3. LessAt(p, r, j)
      BY <1>3, <1>4, <2>1, <2>2 DEF LessAt
    <2> QED
      BY <2>3, PrecedesByLetter
  <1> QED
    BY <1>5, <1>6

LEMMA PrecedesTotal ==
    ASSUME NEW p \in Seq(Nat), NEW q \in Seq(Nat), p # q
    PROVE  Precedes(p, q) \/ Precedes(q, p)
PROOF
  <1> DEFINE D == {k \in Nat \ {0} : Letter(p, k) # Letter(q, k)}
  <1>1. D # {}
    <2>1. CASE Len(p) = Len(q)
      <3>1. PICK k \in 1..Len(p) : p[k] # q[k]
        BY <2>1, SeqEqual
      <3>2. Letter(p, k) = p[k] + 1 /\ Letter(q, k) = q[k] + 1
        BY <2>1, <3>1, Letters
      <3>3. p[k] \in Nat /\ q[k] \in Nat /\ k \in Nat \ {0}
        BY <2>1, <3>1
      <3>4. Letter(p, k) # Letter(q, k)
        BY <3>1, <3>2, <3>3
      <3> QED
        BY <3>3, <3>4
    <2>2. CASE Len(p) < Len(q)
      <3>1. Len(q) \in 1..Len(q) /\ Len(q) \notin 1..Len(p) /\ Len(q) \in Nat \ {0}
        BY <2>2
      <3>2. Letter(p, Len(q)) = 0 /\ Letter(q, Len(q)) > 0 /\ Letter(q, Len(q)) \in Nat
        BY <3>1, Letters
      <3>3. Letter(p, Len(q)) # Letter(q, Len(q))
        BY <3>2
      <3> QED
        BY <3>1, <3>3
    <2>3. CASE Len(q) < Len(p)
      <3>1. Len(p) \in 1..Len(p) /\ Len(p) \notin 1..Len(q) /\ Len(p) \in Nat \ {0}
        BY <2>3
      <3>2. Letter(q, Len(p)) = 0 /\ Letter(p, Len(p)) > 0 /\ Letter(p, Len(p)) \in Nat
        BY <3>1, Letters
      <3>3. Letter(p, Len(p)) # Letter(q, Len(p))
        BY <3>2
      <3> QED
        BY <3>1, <3>3
    <2> QED
      BY <2>1, <2>2, <2>3
  <1>2. PICK i \in D : \A k \in D : i <= k
    <2>1. D \subseteq Nat
      OBVIOUS
    <2> HIDE DEF D
    <2> QED
      BY <1>1, <2>1, LeastNumber
  <1>3. i \in Nat \ {0} /\ Letter(p, i) # Letter(q, i)
    OBVIOUS
  <1>4. \A k \in 1..(i - 1) : Letter(p, k) = Letter(q, k)
    BY <1>2, <1>3
  <1>5. Letter(p, i) \in Nat /\ Letter(q, i) \in Nat
    BY Letters
  <1>6. LessAt(p, q, i) \/ LessAt(q, p, i)
    BY <1>3, <1>4, <1>5 DEF LessAt
  <1> QED
    BY <1>3, <1>6, PrecedesByLetter

\* A finite image of a finite set, since an operator cannot be passed to FS_Image.
LEMMA ImageIsFinite ==
    ASSUME NEW S, IsFiniteSet(S), NEW f, DOMAIN f = S
    PROVE  IsFiniteSet({f[x] : x \in S})
PROOF
  <1> DEFINE T == {f[x] : x \in S}
             g == [x \in S |-> f[x]]
  <1>1. g \in Surjection(S, T)
    BY DEF Surjection
  <1> HIDE DEF T, g
  <1> QED
    BY <1>1, FS_Surjection DEF T

\* Some paths in descending order, by how many come no earlier than each.
LEMMA PathsCanBeSorted ==
    ASSUME NEW S, S \subseteq Seq(Nat), IsFiniteSet(S)
    PROVE  \E sorted \in SetToSeqs(S) :
              \A i, j \in DOMAIN sorted : i < j => Precedes(sorted[j], sorted[i])
PROOF
  <1> DEFINE c == Cardinality(S)
             above(x) == {z \in S : z = x \/ Precedes(x, z)}
             rank == [x \in S |-> Cardinality(above(x))]
  <1>1. c \in Nat
    BY FS_CardinalityType
  <1>2. ASSUME NEW x \in S
        PROVE  /\ IsFiniteSet(above(x)) /\ above(x) \subseteq S /\ x \in above(x)
               /\ rank[x] \in 1..c
    <2>1. above(x) \in SUBSET S /\ x \in above(x)
      OBVIOUS
    <2> HIDE DEF above
    <2>2. IsFiniteSet(above(x)) /\ Cardinality(above(x)) <= c /\ Cardinality(above(x)) \in Nat
      BY <2>1, FS_Subset, FS_CardinalityType
    <2>3. Cardinality(above(x)) # 0
      BY <2>1, <2>2, FS_EmptySet
    <2> QED
      BY <1>1, <2>1, <2>2, <2>3
  <1>3. ASSUME NEW x \in S, NEW y \in S, Precedes(x, y) PROVE rank[y] < rank[x]
    <2>1. above(y) \subseteq above(x)
      <3> SUFFICES ASSUME NEW z \in above(y) PROVE z \in above(x)
        OBVIOUS
      <3>1. z \in S /\ (z = y \/ Precedes(y, z))
        OBVIOUS
      <3>2. Precedes(x, z)
        BY <1>3, <3>1, PrecedesTransitive
      <3> QED
        BY <3>1, <3>2
    <2>2. x \notin above(y)
      <3>1. ~Precedes(y, x) /\ x # y
        BY <1>3, PrecedesOneWay
      <3> QED
        BY <3>1
    <2>3. IsFiniteSet(above(x)) /\ x \in above(x) /\ IsFiniteSet(above(y))
      BY <1>2
    <2> HIDE DEF above
    <2>4. above(y) \in SUBSET above(x) /\ above(y) # above(x)
      BY <2>1, <2>2, <2>3
    <2>5. Cardinality(above(y)) <= Cardinality(above(x)) /\ Cardinality(above(y)) # Cardinality(above(x))
      BY <2>3, <2>4, FS_Subset
    <2>6. Cardinality(above(y)) \in Nat /\ Cardinality(above(x)) \in Nat
      BY <2>3, FS_CardinalityType
    <2> QED
      BY <2>5, <2>6
  <1>4. rank \in Injection(S, 1..c)
    <2>1. rank \in [S -> 1..c]
      BY <1>2
    <2>2. ASSUME NEW x \in S, NEW y \in S, rank[x] = rank[y] PROVE x = y
      <3>1. rank[x] \in 1..c /\ rank[y] \in 1..c
        BY <1>2
      <3>2. ~(rank[x] < rank[y]) /\ ~(rank[y] < rank[x])
        BY <1>1, <2>2, <3>1
      <3>3. ~Precedes(x, y) /\ ~Precedes(y, x)
        BY <1>3, <3>2
      <3> QED
        BY <3>3, PrecedesTotal
    <2> HIDE DEF rank
    <2> QED
      BY <2>1, <2>2 DEF Injection, IsInjective
  <1> HIDE DEF rank
  <1>5. IsFiniteSet(1..c) /\ Cardinality(1..c) = c
    BY <1>1, FS_Interval
  <1>6. rank \in Surjection(S, 1..c)
    BY <1>4, <1>5, FS_Injection
  <1> HIDE DEF c
  <1> DEFINE sorted == [i \in 1..c |-> CHOOSE x \in S : rank[x] = i]
  <1>7. ASSUME NEW i \in 1..c PROVE sorted[i] \in S /\ rank[sorted[i]] = i
    <2>1. \E x \in S : rank[x] = i
      BY <1>6 DEF Surjection
    <2> QED
      BY <2>1
  <1>8. sorted \in SetToSeqs(S)
    <2>1. sorted \in [1..c -> S]
      BY <1>7
    <2>2. \A i, j \in 1..c : i # j => sorted[i] # sorted[j]
      BY <1>7
    <2> HIDE DEF sorted
    <2> QED
      BY <2>1, <2>2 DEF SetToSeqs, c
  <1>9. ASSUME NEW i \in 1..c, NEW j \in 1..c, i < j PROVE Precedes(sorted[j], sorted[i])
    <2>1. sorted[i] \in S /\ sorted[j] \in S /\ rank[sorted[i]] = i /\ rank[sorted[j]] = j
      BY <1>7
    <2> HIDE DEF sorted
    <2>2. i \in Nat /\ j \in Nat /\ sorted[i] # sorted[j]
      BY <1>1, <1>9, <2>1
    <2>3. ~Precedes(sorted[i], sorted[j])
      BY <1>3, <1>9, <2>1, <2>2
    <2> QED
      BY <2>1, <2>2, <2>3, PrecedesTotal
  <1>10. DOMAIN sorted = 1..c
    OBVIOUS
  <1> HIDE DEF sorted
  <1> QED
    BY <1>8, <1>9, <1>10

\* Its paths in that order, each once.
LEMMA PathsAreSorted ==
    ASSUME NEW S, S \subseteq Seq(Nat), IsFiniteSet(S)
    PROVE  /\ Cardinality(S) \in Nat
           /\ DOMAIN SortedPaths(S) = 1..Cardinality(S)
           /\ \A i \in DOMAIN SortedPaths(S) : SortedPaths(S)[i] \in S
           /\ \A path \in S : \E i \in DOMAIN SortedPaths(S) : SortedPaths(S)[i] = path
           /\ \A i, j \in DOMAIN SortedPaths(S) : i < j => Precedes(SortedPaths(S)[j], SortedPaths(S)[i])
PROOF
  <1> DEFINE sorted == SortedPaths(S)
             c == Cardinality(S)
  <1>1. sorted \in SetToSeqs(S) /\ \A i, j \in DOMAIN sorted : i < j => Precedes(sorted[j], sorted[i])
    BY PathsCanBeSorted DEF SortedPaths
  <1> HIDE DEF sorted
  <1>2. c \in Nat
    BY FS_CardinalityType
  <1>3. sorted \in [1..c -> S] /\ \A i, j \in 1..c : i # j => sorted[i] # sorted[j]
    BY <1>1 DEF SetToSeqs
  <1>4. sorted \in Injection(1..c, S)
    BY <1>3 DEF Injection, IsInjective
  <1>5. IsFiniteSet(1..c) /\ Cardinality(1..c) = c
    BY <1>2, FS_Interval
  <1>6. sorted \in Surjection(1..c, S)
    BY <1>4, <1>5, FS_Injection
  <1>7. \A path \in S : \E i \in 1..c : sorted[i] = path
    BY <1>6 DEF Surjection
  <1> QED
    BY <1>1, <1>2, <1>3, <1>7 DEF sorted

\* Of two that one path begins with, the longer one is later in the order of strings.
LEMMA LongerPrefixesAreLater ==
    ASSUME NEW p \in Seq(Nat), NEW q \in Seq(Nat), NEW path \in Seq(Nat),
           IsPrefix(p, path), IsPrefix(q, path), Precedes(p, q)
    PROVE  Len(p) <= Len(q)
PROOF
  <1>1. /\ Len(p) \in Nat /\ Len(q) \in Nat /\ Len(path) \in Nat
        /\ Len(p) <= Len(path) /\ SubSeq(p, 1, Len(p)) = SubSeq(path, 1, Len(p))
        /\ Len(q) <= Len(path) /\ SubSeq(q, 1, Len(q)) = SubSeq(path, 1, Len(q))
    BY DEF IsPrefix
  <1>2. /\ \A k \in 1..Len(p) : p[k] = path[k]
        /\ \A k \in 1..Len(q) : q[k] = path[k]
    BY <1>1, PrefixesByLetter
  <1>3. CASE IsStrictPrefix(p, q)
    BY <1>3 DEF IsStrictPrefix, IsPrefix
  <1>4. CASE \E i \in DOMAIN p \cap DOMAIN q : p[i] < q[i]
    <2>1. PICK i \in DOMAIN p \cap DOMAIN q : p[i] < q[i]
      BY <1>4
    <2>2. i \in 1..Len(p) /\ i \in 1..Len(q) /\ p[i] \in Nat
      BY <2>1
    <2>3. p[i] = path[i] /\ q[i] = path[i]
      BY <1>2, <2>2
    <2> QED
      BY <2>1, <2>2, <2>3
  <1> QED
    BY <1>3, <1>4 DEF Precedes

\* What `Config::site` looks at: the paths of a URL's host, which of them the URL's
\* path begins with, and the roots that they are of.
Rooted(laid, url) == IF url.host \in DOMAIN laid THEN laid[url.host] ELSE <<>>
Under(rooted, url) == {i \in DOMAIN rooted : IsPrefix(rooted[i].path, url.path)}
RootsOver(roots, url) == {root \in roots : root.host = url.host /\ IsPrefix(root.path, url.path)}

\* What is found of some roots that are laid out: the configuration of the longest
\* that the path begins with.
LEMMA LongestRootIsFound ==
    ASSUME NEW configOf, DOMAIN configOf \subseteq Url, IsFiniteSet(DOMAIN configOf), NEW url \in Url
    PROVE  LET rooted == Rooted(Sites(configOf), url)
               under == Under(rooted, url)
               over == RootsOver(DOMAIN configOf, url)
           IN  /\ over = {} <=> under = {}
               /\ under # {} =>
                    \E root \in over :
                        /\ \A other \in over : Len(other.path) <= Len(root.path)
                        /\ rooted[Min(under)].config = configOf[root]
PROOF
  <1> DEFINE R == DOMAIN configOf
             rooted == Rooted(Sites(configOf), url)
             under == Under(rooted, url)
             over == RootsOver(R, url)
  <1>0. /\ under = {i \in DOMAIN rooted : IsPrefix(rooted[i].path, url.path)}
        /\ over = {root \in R : root.host = url.host /\ IsPrefix(root.path, url.path)}
        /\ rooted = IF url.host \in DOMAIN Sites(configOf) THEN Sites(configOf)[url.host] ELSE <<>>
    BY DEF Rooted, Under, RootsOver
  <1> SUFFICES
          /\ over = {} <=> under = {}
          /\ under # {} =>
               \E root \in over :
                   /\ \A other \in over : Len(other.path) <= Len(root.path)
                   /\ rooted[Min(under)].config = configOf[root]
    OBVIOUS
  <1> HIDE DEF rooted, under, over
  <1> DEFINE Here == {r \in R : r.host = url.host}
             P == {root.path : root \in Here}
             sorted == SortedPaths(P)
  <1>1. \A root \in R : root.host \in Value /\ root.path \in Seq(Nat)
                        /\ root = [host |-> root.host, path |-> root.path]
    BY DEF Url
  <1>2. url.path \in Seq(Nat)
    BY DEF Url
  <1>3. P \subseteq Seq(Nat) /\ IsFiniteSet(P)
    <2>1. IsFiniteSet(Here)
      BY FS_Subset
    <2> DEFINE f == [r \in Here |-> r.path]
    <2>2. DOMAIN f = Here /\ P = {f[r] : r \in Here}
      OBVIOUS
    <2>3. P \subseteq Seq(Nat)
      BY <1>1
    <2> HIDE DEF f, Here, P
    <2>4. IsFiniteSet({f[r] : r \in Here})
      BY <2>1, <2>2, ImageIsFinite
    <2> QED
      BY <2>2, <2>3, <2>4
  <1>4. CASE url.host \notin {root.host : root \in R}
    <2>1. over = {}
      BY <1>0, <1>4
    <2>2. DOMAIN Sites(configOf) = {root.host : root \in R}
      BY DEF Sites
    <2>3. rooted = <<>>
      BY <1>0, <1>4, <2>2
    <2> QED
      BY <1>0, <2>1, <2>3
  <1>5. CASE url.host \in {root.host : root \in R}
    <2>1. rooted = [i \in DOMAIN sorted |->
                      [path |-> sorted[i], config |-> configOf[[host |-> url.host, path |-> sorted[i]]]]]
      BY <1>0, <1>5 DEF Sites
    <2>2. /\ Cardinality(P) \in Nat
          /\ DOMAIN sorted = 1..Cardinality(P)
          /\ \A i \in DOMAIN sorted : sorted[i] \in P
          /\ \A path \in P : \E i \in DOMAIN sorted : sorted[i] = path
          /\ \A i, j \in DOMAIN sorted : i < j => Precedes(sorted[j], sorted[i])
      <3> HIDE DEF P
      <3> QED
        BY <1>3, PathsAreSorted
    <2> HIDE DEF sorted
    <2>3. /\ DOMAIN rooted = DOMAIN sorted
          /\ \A i \in DOMAIN sorted :
               /\ rooted[i].path = sorted[i]
               /\ rooted[i].config = configOf[[host |-> url.host, path |-> sorted[i]]]
      BY <2>1
    <2>4. ASSUME NEW i \in DOMAIN sorted
          PROVE  /\ [host |-> url.host, path |-> sorted[i]] \in Here
                 /\ sorted[i] \in Seq(Nat)
      <3>1. PICK root \in Here : sorted[i] = root.path
        BY <2>2
      <3>2. root = [host |-> url.host, path |-> sorted[i]]
        BY <1>1, <3>1
      <3> QED
        BY <1>1, <3>1, <3>2
    <2>5. ASSUME NEW root \in over
          PROVE  \E i \in under : sorted[i] = root.path
      <3>1. root.path \in P /\ IsPrefix(root.path, url.path)
        BY <1>0
      <3>2. PICK i \in DOMAIN sorted : sorted[i] = root.path
        BY <2>2, <3>1
      <3> QED
        BY <1>0, <2>3, <3>1, <3>2
    <2>6. ASSUME NEW i \in under
          PROVE  /\ i \in DOMAIN sorted
                 /\ [host |-> url.host, path |-> sorted[i]] \in over
      <3>1. i \in DOMAIN sorted /\ IsPrefix(sorted[i], url.path)
        BY <1>0, <2>3
      <3>2. [host |-> url.host, path |-> sorted[i]] \in Here
        BY <2>4, <3>1
      <3> QED
        BY <1>0, <3>1, <3>2
    <2>7. CASE under = {}
      BY <2>5, <2>7
    <2>8. CASE under # {}
      <3>1. under \subseteq Nat
        <4>1. under \subseteq 1..Cardinality(P)
          BY <2>2, <2>6
        <4> HIDE DEF P
        <4> QED
          BY <2>2, <4>1
      <3>2. PICK m \in under : \A k \in under : m <= k
        BY <2>8, <3>1, LeastNumber
      <3>3. Min(under) = m
        BY <3>1, <3>2, MinIsLeast
      <3> DEFINE best == [host |-> url.host, path |-> sorted[m]]
      <3>4. best \in over /\ best.path = sorted[m] /\ rooted[m].config = configOf[best]
        BY <2>3, <2>6
      <3>5. ASSUME NEW other \in over PROVE Len(other.path) <= Len(sorted[m])
        <4>1. PICK i \in under : sorted[i] = other.path
          BY <2>5
        <4>2. m \in DOMAIN sorted /\ i \in DOMAIN sorted /\ m \in Nat /\ i \in Nat /\ m <= i
          BY <2>6, <3>1, <3>2
        <4>3. sorted[m] \in Seq(Nat) /\ sorted[i] \in Seq(Nat)
          BY <2>4, <4>2
        <4>4. CASE i = m
          BY <4>1, <4>3, <4>4
        <4>5. CASE i # m
          <5>1. Precedes(sorted[i], sorted[m])
            BY <2>2, <4>2, <4>5
          <5>2. IsPrefix(sorted[i], url.path) /\ IsPrefix(sorted[m], url.path)
            BY <1>0, <2>3, <4>1, <4>2
          <5> QED
            BY <1>2, <4>1, <4>3, <5>1, <5>2, LongerPrefixesAreLater
        <4> QED
          BY <4>4, <4>5
      <3> HIDE DEF best
      <3> QED
        BY <2>8, <3>3, <3>4, <3>5
    <2> QED
      BY <2>7, <2>8
  <1> QED
    BY <1>4, <1>5

-----------------------------------------------------------------------------
\* The configuration of a URL in a compiled configuration.
Found(c, url) ==
    LET rooted == Rooted(c.sites, url)
        under == Under(rooted, url)
    IN  IF under = {} THEN c.default ELSE rooted[Min(under)].config

\* What LongestRootWins says of some claims to roots.
LongestWins(c, claims, url) ==
    LET over == {claim \in claims : claim.root.host = url.host /\ IsPrefix(claim.root.path, url.path)}
    IN  \/ over = {} /\ Found(c, url) = c.default
        \/ \E claim \in over :
             /\ \A other \in over : Len(other.root.path) <= Len(claim.root.path)
             /\ Found(c, url) = claim.config

LEMMA LongestClaimWins ==
    ASSUME NEW c, NEW configOf, c.sites = Sites(configOf),
           DOMAIN configOf \subseteq Url, IsFiniteSet(DOMAIN configOf),
           NEW claims,
           \A root \in DOMAIN configOf : [root |-> root, config |-> configOf[root]] \in claims,
           \A claim \in claims : claim.root \in DOMAIN configOf,
           NEW url \in Url
    PROVE  LongestWins(c, claims, url)
PROOF
  <1> DEFINE R == DOMAIN configOf
             rooted == Rooted(Sites(configOf), url)
             under == Under(rooted, url)
             roots == RootsOver(R, url)
             over == {claim \in claims : claim.root.host = url.host /\ IsPrefix(claim.root.path, url.path)}
  <1>1. /\ roots = {} <=> under = {}
        /\ under # {} =>
             \E root \in roots :
                 /\ \A other \in roots : Len(other.path) <= Len(root.path)
                 /\ rooted[Min(under)].config = configOf[root]
    BY LongestRootIsFound
  <1>2. Found(c, url) = IF under = {} THEN c.default ELSE rooted[Min(under)].config
    BY DEF Found
  <1>3. \A claim \in over : claim.root \in roots
    BY DEF RootsOver
  <1>4. \A root \in roots : [root |-> root, config |-> configOf[root]] \in over
    BY DEF RootsOver
  <1> HIDE DEF under, rooted, roots
  <1>5. CASE under = {}
    <2>1. over = {}
      BY <1>1, <1>3, <1>5
    <2> QED
      BY <1>2, <1>5, <2>1 DEF LongestWins
  <1>6. CASE under # {}
    <2>1. PICK root \in roots :
             /\ \A other \in roots : Len(other.path) <= Len(root.path)
             /\ rooted[Min(under)].config = configOf[root]
      BY <1>1, <1>6
    <2> DEFINE claim == [root |-> root, config |-> configOf[root]]
    <2>2. claim \in over /\ claim.root = root /\ claim.config = configOf[root]
      BY <1>4
    <2>3. Found(c, url) = claim.config
      BY <1>2, <1>6, <2>1
    <2> HIDE DEF claim
    <2>4. \A other \in over : Len(other.root.path) <= Len(claim.root.path)
      BY <1>3, <2>1, <2>2
    <2> QED
      BY <2>2, <2>3, <2>4 DEF LongestWins
  <1> QED
    BY <1>5, <1>6

\* The URLs that `muffy check-site` is told of are URLs, or do not parse.
CommandTyped ==
    command.kind = "check-site" => command.urls \subseteq Url \cup {Bad} /\ IsFiniteSet(command.urls)

LEMMA ClaimsAreFinite ==
    ASSUME IsConfig(config)
    PROVE  LET claims == UNION {RootsOf(name) : name \in Included}
           IN  claims \subseteq Url /\ IsFiniteSet(claims)
PROOF
  <1>1. ASSUME NEW name \in Name PROVE RootsOf(name) \subseteq Url /\ IsFiniteSet(RootsOf(name))
    <2>1. sites[name].roots \in Opt(SUBSET Url)
      BY DEF IsConfig, SiteOptions, Name, sites
    <2>2. sites[name].roots = Unset \/ IsFiniteSet(sites[name].roots)
      BY DEF IsConfig, Name, sites
    <2> QED
      BY <2>1, <2>2, FS_EmptySet DEF RootsOf, Opt
  <1>2. Included \in SUBSET Name /\ IsFiniteSet(Name)
    BY ConfigsAreFinite DEF Included, Finite
  <1>3. IsFiniteSet(Included)
    BY <1>2, FS_Subset
  <1>4. PICK S : S = Included
    OBVIOUS
  <1>5. PICK f : f = [name \in S |-> RootsOf(name)]
    OBVIOUS
  <1>6. {f[x] : x \in S} = {RootsOf(name) : name \in Included}
    BY <1>4, <1>5
  <1>7. IsFiniteSet({RootsOf(name) : name \in Included})
    BY <1>3, <1>4, <1>5, <1>6, ImageIsFinite
  <1>8. IsFiniteSet(UNION {RootsOf(name) : name \in Included})
    <2>1. \A T \in {RootsOf(name) : name \in Included} : IsFiniteSet(T)
      BY <1>1, <1>2
    <2>2. PICK all : all = {RootsOf(name) : name \in Included}
      OBVIOUS
    <2> QED
      BY <1>7, <2>1, <2>2, FS_UNION
  <1>9. UNION {RootsOf(name) : name \in Included} \subseteq Url
    BY <1>1, <1>2
  <1> QED
    BY <1>8, <1>9

LEMMA FinishFindsLongest ==
    ASSUME FilesInv, SitesInv, Finish, NEW url \in TestUrl
    PROVE  LongestWins(compiled', Claims', url)
PROOF
  <1> DEFINE claims == UNION {RootsOf(name) : name \in Included}
  <1>0. PICK owner \in [claims -> Included] :
          /\ \A root \in claims : root \in RootsOf(owner[root])
          /\ compiled' =
               [roots |-> UNION {RootsOf(name) : name \in {n \in Included : recursion[n]}},
                default |-> IF defaultName \in DOMAIN configs THEN configs[defaultName]
                            ELSE DefaultSite,
                sites |-> Sites([root \in claims |-> configs[owner[root]]]),
                ignored |-> UNION {RootsOf(name) : name \in Name \ Included},
                concurrency |-> config.concurrency,
                limits |-> [name \in {n \in Name : sites[n].limit # Unset} |-> sites[name].limit]]
    BY Zenon DEF Finish
  <1>1. /\ \A root \in claims : owner[root] \in Included /\ root \in RootsOf(owner[root])
        /\ compiled'.sites = Sites([root \in claims |-> configs[owner[root]]])
    <2>1. compiled'.sites = Sites([root \in claims |-> configs[owner[root]]])
      BY <1>0
    <2> HIDE DEF claims
    <2> QED
      BY <1>0, <2>1
  <1>2. command.kind = "check" /\ IsConfig(config) /\ UNCHANGED <<command, config, configs>>
    BY DEF Finish, FilesInv, ReadInv, fileVars
  <1>3. Claims' = UNION {{[root |-> root, config |-> configs[name]] : root \in RootsOf(name)} :
                            name \in Included}
    BY <1>2 DEF Claims, RootsOf, Included, Ignored, Name, sites
  <1>4. claims \subseteq Url /\ IsFiniteSet(claims)
    BY <1>2, ClaimsAreFinite
  <1>5. \A claim \in Claims' : claim.root \in claims
    BY <1>3
  <1>6. \A root \in claims : [root |-> root, config |-> configs[owner[root]]] \in Claims'
    <2> SUFFICES ASSUME NEW root \in claims
                 PROVE  [root |-> root, config |-> configs[owner[root]]] \in Claims'
      OBVIOUS
    <2>1. PICK name \in Included : name = owner[root] /\ root \in RootsOf(name)
      BY <1>1
    <2>2. [root |-> root, config |-> configs[name]] \in Claims'
      BY <1>3, <2>1
    <2> QED
      BY <2>1, <2>2
  <1> HIDE DEF claims
  <1>7. PICK c, said, configOf : /\ c = compiled' /\ said = Claims'
                                 /\ configOf = [root \in claims |-> configs[owner[root]]]
    OBVIOUS
  <1>8. /\ c.sites = Sites(configOf) /\ DOMAIN configOf \subseteq Url /\ IsFiniteSet(DOMAIN configOf)
        /\ \A root \in DOMAIN configOf : [root |-> root, config |-> configOf[root]] \in said
        /\ \A claim \in said : claim.root \in DOMAIN configOf
    BY <1>1, <1>4, <1>5, <1>6, <1>7
  <1>9. LongestWins(c, said, url)
    BY <1>8, UrlAssumption, LongestClaimWins
  <1> QED
    BY <1>7, <1>9

LEMMA CheckSiteFindsLongest ==
    ASSUME CommandTyped, CheckSite, outcome'.kind = "ok", NEW url \in TestUrl
    PROVE  LongestWins(compiled', Claims', url)
PROOF
  <1> DEFINE site == [ArgumentSite EXCEPT !.recursive = TRUE]
  <1>1. /\ Bad \notin command.urls
        /\ compiled'.sites = Sites([u \in command.urls |-> site])
    BY DEF CheckSite, Stop
  <1>2. command.kind = "check-site" /\ UNCHANGED command
    BY DEF CheckSite, fileVars
  <1>3. command.urls \subseteq Url /\ IsFiniteSet(command.urls)
    BY <1>1, <1>2 DEF CommandTyped
  <1>4. Claims' = {[root |-> u, config |-> site] : u \in command.urls}
    BY <1>2 DEF Claims, ArgumentSite
  <1> HIDE DEF site
  <1>5. PICK c, said, configOf : /\ c = compiled' /\ said = Claims'
                                 /\ configOf = [u \in command.urls |-> site]
    OBVIOUS
  <1>6. /\ c.sites = Sites(configOf) /\ DOMAIN configOf \subseteq Url /\ IsFiniteSet(DOMAIN configOf)
        /\ \A root \in DOMAIN configOf : [root |-> root, config |-> configOf[root]] \in said
        /\ \A claim \in said : claim.root \in DOMAIN configOf
    BY <1>1, <1>3, <1>4, <1>5
  <1>7. LongestWins(c, said, url)
    BY <1>6, UrlAssumption, LongestClaimWins
  <1> QED
    BY <1>5, <1>7

\* The longest root wins, of whichever sites and however many roots they have, and of
\* the roots of the command line (`Config::new`, `Config::site`).
THEOREM LongestRootsWin == Spec => []LongestRootWins
PROOF
  <1>1. LongestRootWins <=> (outcome.kind = "ok" => \A url \in TestUrl : LongestWins(compiled, Claims, url))
    BY DEF LongestRootWins, LongestWins, Found, Rooted, Under, Site
  <1>2. Init => CommandTyped /\ LongestRootWins
    <2>1. Init => CommandTyped
      BY UrlAssumption DEF Init, FilesInit, CommandTyped
    <2> QED
      BY <2>1 DEF Init, FilesInit, Running, LongestRootWins
  <1>3. CommandTyped /\ [Next]_vars => CommandTyped'
    <2>1. [Next]_vars => command' = command
      BY DEF Next, ReadConfig, FindConfig, Initialize, Open, Extend, Read, CheckSite, Sort,
             FindDefault, Compile, Finish, vars, fileVars
    <2> QED
      BY <2>1 DEF CommandTyped
  <1>4. FilesInv /\ SitesInv /\ CommandTyped /\ LongestRootWins /\ [Next]_vars => LongestRootWins'
    <2> SUFFICES ASSUME FilesInv, SitesInv, CommandTyped, LongestRootWins, [Next]_vars
                 PROVE  LongestRootWins'
      OBVIOUS
    <2>1. LongestRootWins' <=>
            (outcome'.kind = "ok" => \A url \in TestUrl : LongestWins(compiled', Claims', url))
      BY DEF LongestRootWins, LongestWins, Found, Rooted, Under, Site
    <2>2. CASE Finish
      BY <2>1, <2>2, FinishFindsLongest
    <2>3. CASE CheckSite
      BY <2>1, <2>3, CheckSiteFindsLongest
    <2>4. CASE ((ReadConfig \/ Initialize) /\ UNCHANGED siteVars) \/ Sort \/ FindDefault \/ Compile
      <3>1. outcome = Running
        BY <2>4 DEF SitesInv, ReadConfig, FindConfig, Initialize, Open, Extend, Read, Sort, FindDefault,
                    Compile
      <3>2. outcome' = outcome \/ outcome'.kind # "ok"
        BY <2>4 DEF ReadConfig, FindConfig, Initialize, Open, Extend, Read, Sort, FindDefault,
                    Compile, Stop
      <3>3. outcome'.kind # "ok"
        BY <3>1, <3>2 DEF Running
      <3> QED
        BY <2>1, <3>3
    <2>5. CASE UNCHANGED vars
      <3>1. UNCHANGED <<outcome, compiled, command, config, configs>>
        BY <2>5 DEF vars, fileVars, siteVars
      <3>2. Claims' = Claims
        BY <3>1 DEF Claims, ArgumentSite, RootsOf, Included, Ignored, Name, sites
      <3> QED
        BY <1>1, <2>1, <3>1, <3>2
    <2> QED
      BY <2>2, <2>3, <2>4, <2>5 DEF Next
  <1> QED
    BY <1>2, <1>3, <1>4, SitesHold, PTL DEF Spec

-----------------------------------------------------------------------------
(***************************************************************************)
(* Progress.  That every configuration is compiled or given up takes       *)
(* fairness, which is beyond the prover; what is proved is that a step is  *)
(* always there to be taken, and that the steps run out.                   *)
(***************************************************************************)

\* Some names in an order that has parents before the sites that extend them, as far as the
\* order has come: it has no site whose parent it lacks.
Before(names, some) ==
    /\ names \in SetToSeqs(some)
    /\ \A n \in some : sites[n].extend \in some \cup {Unset}
    /\ \A i, j \in DOMAIN names : sites[names[i]].extend = names[j] => j < i

\* Of the names that are not in it yet, one extends none of them.
LEMMA OneCanBeNext ==
    ASSUME Finite, Uncircular, Parented, NEW some \in SUBSET Name, some # Name
    PROVE  \E m \in Name \ some : sites[m].extend \in some \cup {Unset}
PROOF
  <1> DEFINE c == Cardinality(Name)
             rest == Name \ some
  <1>1. PICK name \in rest : TRUE
    OBVIOUS
  <1> DEFINE u == Up(name)
             out == {k \in 0..c : u[k] \notin rest}
  <1>2. LineOf(Name, sites, c, name, u) /\ c \in Nat
    BY UpIsLine
  <1>3. u[c] \notin Name
    BY LinesEnd
  <1> HIDE DEF u, c
  <1>4. /\ u[0] = name
        /\ \A k \in 0..(c - 1) : u[k + 1] = IF u[k] \in Name THEN sites[u[k]].extend ELSE Unset
    <2>1. PICK S, e, t, n : S = Name /\ e = sites /\ t = u /\ n = c
      OBVIOUS
    <2>2. LineOf(S, e, n, name, t) /\ n \in Nat
      BY <1>2, <2>1
    <2>3. /\ t[0] = name
          /\ \A k \in 0..(n - 1) : t[k + 1] = IF t[k] \in S THEN e[t[k]].extend ELSE Unset
      BY <2>2, LineUnfolds
    <2> QED
      BY <2>1, <2>3
  <1>5. PICK k \in out : \A j \in out : k <= j
    <2>1. c \in out /\ out \subseteq Nat
      BY <1>2, <1>3
    <2> HIDE DEF out
    <2> QED
      BY <2>1, LeastNumber
  <1>6. k # 0 /\ k \in 0..c
    BY <1>1, <1>4, <1>5
  <1>7. k - 1 \in 0..(c - 1) /\ k - 1 \in 0..c /\ (k - 1) + 1 = k /\ ~(k <= k - 1)
    BY <1>2, <1>6
  <1>8. u[k - 1] \in rest /\ u[k] \notin rest
    BY <1>5, <1>7
  <1>9. u[k] = sites[u[k - 1]].extend
    BY <1>4, <1>7, <1>8
  <1> QED
    BY <1>8, <1>9 DEF Parented

LEMMA OneIsAppended ==
    ASSUME Finite, NEW some \in SUBSET Name, NEW names, Before(names, some),
           NEW m \in Name \ some, sites[m].extend \in some \cup {Unset}
    PROVE  \E longer : Before(longer, some \cup {m})
PROOF
  <1> DEFINE c == Cardinality(some)
             more == some \cup {m}
             longer == [i \in 1..(c + 1) |-> IF i = c + 1 THEN m ELSE names[i]]
  <1>1. c \in Nat /\ Cardinality(more) = c + 1
    <2>1. IsFiniteSet(some)
      BY FS_Subset DEF Finite
    <2> QED
      BY <2>1, FS_AddElement, FS_CardinalityType
  <1>2. names \in [1..c -> some] /\ \A i, j \in 1..c : i # j => names[i] # names[j]
    BY DEF Before, SetToSeqs
  <1> HIDE DEF c
  <1>3. DOMAIN longer = 1..(c + 1) /\ longer[c + 1] = m /\ \A i \in 1..c : longer[i] = names[i]
    BY <1>1
  <1>4. \A i \in 1..(c + 1) : i = c + 1 \/ i \in 1..c
    BY <1>1
  <1>5. longer \in [1..(c + 1) -> more]
    BY <1>2, <1>4
  <1> HIDE DEF longer
  <1>6. \A i, j \in 1..(c + 1) : i # j => longer[i] # longer[j]
    BY <1>2, <1>3, <1>4
  <1>7. longer \in SetToSeqs(more)
    BY <1>1, <1>5, <1>6 DEF SetToSeqs
  <1>8. \A n \in more : sites[n].extend \in more \cup {Unset}
    BY DEF Before
  <1>9. ASSUME NEW i \in 1..(c + 1), NEW j \in 1..(c + 1), sites[longer[i]].extend = longer[j]
        PROVE  j < i
    <2>1. CASE i \in 1..c /\ j \in 1..c
      BY <1>2, <1>3, <1>9, <2>1 DEF Before
    <2>2. CASE i \in 1..c /\ j = c + 1
      <3>1. sites[names[i]].extend \in some \cup {Unset}
        BY <1>2, <2>2 DEF Before
      <3> QED
        BY <1>3, <1>9, <2>2, <3>1 DEF Finite
    <2>3. CASE i = c + 1 /\ j = c + 1
      BY <1>3, <1>9, <2>3 DEF Finite
    <2>4. CASE i = c + 1 /\ j \in 1..c
      BY <1>1, <2>4
    <2> QED
      BY <1>4, <2>1, <2>2, <2>3, <2>4
  <1>10. Before(longer, more)
    BY <1>3, <1>7, <1>8, <1>9 DEF Before
  <1> QED
    BY <1>10

\* Names without a circle can be sorted: `toposort` fails of circles only.
LEMMA NamesCanBeSorted ==
    ASSUME Finite, Uncircular, Parented
    PROVE  ParentsFirst # {}
PROOF
  <1> DEFINE left == {Name \ some : some \in {T \in SUBSET Name : \E names : Before(names, T)}}
  <1>1. left # {}
    <2>1. Cardinality({}) = 0 /\ 1..0 = {}
      BY FS_EmptySet
    <2>2. <<>> \in SetToSeqs({})
      BY <2>1 DEF SetToSeqs
    <2>3. Before(<<>>, {})
      BY <2>2 DEF Before
    <2> QED
      BY <2>3
  <1>2. \A T \in left : IsFiniteSet(T)
    BY FS_Subset DEF Finite
  <1>3. PICK T \in left : \A U \in left : Cardinality(T) <= Cardinality(U)
    <2> HIDE DEF left
    <2> QED
      BY <1>1, <1>2, SmallestSet
  <1>4. PICK some \in SUBSET Name : T = Name \ some /\ \E names : Before(names, some)
    BY <1>3
  <1>5. PICK names : Before(names, some)
    BY <1>4
  <1>6. ASSUME some # Name PROVE FALSE
    <2>1. PICK m \in Name \ some : sites[m].extend \in some \cup {Unset}
      BY <1>6, OneCanBeNext
    <2>2. PICK longer : Before(longer, some \cup {m})
      BY <1>5, <2>1, OneIsAppended
    <2>3. Name \ (some \cup {m}) \in left
      BY <2>1, <2>2
    <2>4. Name \ (some \cup {m}) = T \ {m} /\ m \in T
      BY <1>4, <2>1
    <2>5. Cardinality(T \ {m}) < Cardinality(T) /\ Cardinality(T \ {m}) \in Nat /\ Cardinality(T) \in Nat
      BY <1>2, <1>3, <2>4, SmallerWithout
    <2>6. Cardinality(T) <= Cardinality(T \ {m})
      BY <1>3, <2>3, <2>4
    <2> QED
      BY <2>5, <2>6
  <1> QED
    BY <1>5, <1>6 DEF Before, ParentsFirst

-----------------------------------------------------------------------------
\* The command lines: to find a file, to write one, or to check sites.
KnownCommands ==
    \A case \in Cases : \A line \in case.commands :
        line.kind \in {"check", "init", "check-site"} /\ (line.kind = "check" => DOMAIN line.places \subseteq Nat)
CommandKnown ==
    command.kind \in {"check", "init", "check-site"} /\ (command.kind = "check" => DOMAIN command.places \subseteq Nat)

\* The next step has what it chooses from: the first file there is, an order of the sites or
\* what is wrong with them, and an owner for each root.
MissingParents == {sites[name].extend : name \in Name} \ (Name \cup {Unset})
Ready ==
    \/ pc = "command" /\ command.kind \in {"init", "check-site"}
    \/ /\ pc = "command" /\ command.kind = "check"
       /\ LET found == {i \in DOMAIN command.places : command.places[i] \in DOMAIN files}
          IN  found = {} \/ \E i \in found : \A j \in found : i <= j
    \/ pc \in {"open", "extend", "default"}
    \/ pc = "sort" /\ (MissingParents # {} \/ Circles # {} \/ ParentsFirst # {})
    \/ pc = "compile" /\ order # <<>>
    \/ /\ pc = "compile" /\ order = <<>>
       /\ \E owner \in [UNION {RootsOf(name) : name \in Included} -> Included] :
            \A root \in DOMAIN owner : root \in RootsOf(owner[root])

NeverStuck == pc # "done" => Ready

\* A configuration that is not compiled yet can go on to be: sites that name their parents
\* and have no circle can always be sorted.
THEOREM GoesOn ==
    ASSUME KnownCommands
    PROVE  Spec => []NeverStuck
PROOF
  <1>1. Init => CommandKnown
    BY DEF KnownCommands, CommandKnown, Init, FilesInit
  <1>2. CommandKnown /\ [Next]_vars => CommandKnown'
    <2>1. [Next]_vars => command' = command
      BY DEF Next, ReadConfig, FindConfig, Initialize, Open, Extend, Read, CheckSite, Sort,
             FindDefault, Compile, Finish, fileVars, vars
    <2> QED
      BY <2>1 DEF CommandKnown
  <1>3. CommandKnown /\ FilesInv /\ SitesInv => NeverStuck
    <2> SUFFICES ASSUME CommandKnown, FilesInv, SitesInv, pc # "done" PROVE Ready
      BY DEF NeverStuck
    <2>1. CASE pc = "command"
      <3> DEFINE found == {i \in DOMAIN command.places : command.places[i] \in DOMAIN files}
      <3>1. CASE command.kind = "check"
        <4>1. found \subseteq Nat
          BY <3>1 DEF CommandKnown
        <4>2. found = {} \/ \E i \in found : \A j \in found : i <= j
          <5> HIDE DEF found
          <5> QED
            BY <4>1, LeastNumber
        <4> QED
          BY <2>1, <3>1, <4>2 DEF Ready
      <3> QED
        BY <2>1, <3>1 DEF Ready, CommandKnown
    <2>2. CASE pc = "sort"
      <3>1. Finite
        BY <2>2, ConfigsAreFinite DEF FilesInv, ReadInv
      <3>2. ASSUME MissingParents = {}, Circles = {} PROVE Uncircular /\ Parented
        BY <3>2 DEF MissingParents, Circles, Uncircular, Parented
      <3>3. MissingParents # {} \/ Circles # {} \/ ParentsFirst # {}
        BY <3>1, <3>2, NamesCanBeSorted
      <3> QED
        BY <2>2, <3>3 DEF Ready
    <2>3. CASE pc = "compile" /\ order = <<>>
      <3> DEFINE claims == UNION {RootsOf(name) : name \in Included}
                 owner == [root \in claims |-> CHOOSE name \in Included : root \in RootsOf(name)]
      <3>1. \A root \in claims : owner[root] \in Included /\ root \in RootsOf(owner[root])
        OBVIOUS
      <3>2. owner \in [claims -> Included] /\ DOMAIN owner = claims
        BY <3>1
      <3> HIDE DEF owner
      <3> QED
        BY <2>3, <3>1, <3>2 DEF Ready
    <2> QED
      BY <2>1, <2>2, <2>3 DEF Ready, FilesInv, Place
  <1> QED
    BY <1>1, <1>2, <1>3, SitesHold, PTL DEF Spec

-----------------------------------------------------------------------------
\* How far the program is.
Stage ==
    IF pc = "command" THEN 0 ELSE IF pc = "open" THEN 1 ELSE IF pc = "extend" THEN 2
    ELSE IF pc = "sort" THEN 3 ELSE IF pc = "default" THEN 4 ELSE IF pc = "compile" THEN 5 ELSE 6

\* A step takes it further, or reads one more file that was not read, or leaves one site
\* fewer to compile.
Advances ==
    \/ Stage' > Stage
    \/ /\ pc = "extend" /\ pc' = "extend" /\ files' = files
       /\ \E path \in DOMAIN files \ {paths[i] : i \in DOMAIN paths} : paths' = Append(paths, path)
    \/ /\ pc = "compile" /\ pc' = "compile"
       /\ order \in Seq(Name) /\ Len(order') = Len(order) - 1

\* However files extend each other: a chain of files has none twice, and it is a circle of
\* files that ends the program, not the other way around.
THEOREM EveryStepAdvances == Spec => [][Advances]_vars
PROOF
  <1>1. FilesInv /\ SitesInv /\ [Next]_vars => [Advances]_vars
    <2> SUFFICES ASSUME FilesInv, SitesInv, Next PROVE Advances
      OBVIOUS
    <2>1. CASE FindConfig \/ Initialize \/ Open \/ Read \/ CheckSite \/ Sort \/ FindDefault \/ Finish
      <3>1. \/ pc = "command" /\ pc' \in {"open", "done"}
            \/ pc = "open" /\ pc' \in {"extend", "done"}
            \/ pc = "extend" /\ pc' = "sort"
            \/ pc = "sort" /\ pc' \in {"default", "done"}
            \/ pc = "default" /\ pc' \in {"compile", "done"}
            \/ pc = "compile" /\ pc' = "done"
        BY <2>1 DEF FindConfig, Initialize, Open, Read, CheckSite, Sort, FindDefault, Finish, Stop
      <3>2. Stage' > Stage
        BY <3>1 DEF Stage
      <3> QED
        BY <3>2 DEF Advances
    <2>2. CASE Extend
      <3>1. CASE pc' = "done"
        <4>1. Stage = 2 /\ Stage' = 6
          BY <2>2, <3>1 DEF Extend, Stage
        <4> QED
          BY <4>1 DEF Advances
      <3>2. CASE pc' # "done"
        <4> DEFINE path == Target[previous][config.extend]
        <4>1. /\ Readable(path) /\ path \notin {paths[i] : i \in DOMAIN paths}
              /\ paths' = Append(paths, path) /\ files' = files /\ pc' = pc /\ pc = "extend"
          BY <2>2, <3>2 DEF Extend, Stop
        <4>2. path \in DOMAIN files \ {paths[i] : i \in DOMAIN paths}
          BY <4>1 DEF Readable
        <4> HIDE DEF path
        <4> QED
          BY <4>1, <4>2 DEF Advances
      <3> QED
        BY <3>1, <3>2
    <2>3. CASE Compile
      <3>1. pc = "compile" /\ order # <<>> /\ order' = Tail(order) /\ pc' \in {"compile", "done"}
        BY <2>3 DEF Compile, Stop
      <3>2. CASE pc' = "done"
        <4>1. Stage = 5 /\ Stage' = 6
          BY <3>1, <3>2 DEF Stage
        <4> QED
          BY <4>1 DEF Advances
      <3>3. CASE pc' = "compile"
        <4>1. order \in Seq(Name)
          BY <3>1 DEF SitesInv, Ordered
        <4>2. Len(order') = Len(order) - 1
          BY <3>1, <4>1, HeadTailProperties
        <4> QED
          BY <3>1, <3>3, <4>1, <4>2 DEF Advances
      <3> QED
        BY <3>1, <3>2, <3>3
    <2> QED
      BY <2>1, <2>2, <2>3 DEF Next, ReadConfig
  <1> QED
    BY <1>1, SitesHold, PTL DEF Spec

=============================================================================
