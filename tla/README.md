# A verification of muffy

muffy is a crawler that validates web sites: it gets a set of root URLs, follows
their links, and reports for each document which of its links and which of its
markup are in error.  This directory holds TLA+ modules that model its parts: the
ones where tasks run at the same time, fail or are killed, and the algorithms that
decide what it reports; TLC configurations that check them on small instances; and
proofs, checked by TLAPS, of their safety properties for instances of every size.

All paths below are relative to the repository; `http_client.rs` and the like are
in `muffy/src/`.

## The system

| Component | State | Operations | What makes it correct | Modules |
| --- | --- | --- | --- | --- |
| Rate limiter (`rate_limiter.rs`) | two atomics, a start time | `run`, `add_supply` | grants never exceed the supplies of the windows; late refills are bounded; sleeps reach a later window | `RateLimiter`, `TokenBucket` |
| HTTP client, within a run (`http_client.rs`) | the local cache, the requests under way | `get`, `get_inner`, `get_cached_locally`, `get_filtered`, `get_robot` | one fetch per URL, one verdict per link, no page against its robots.txt, no deadlock | `HttpClient` |
| HTTP client, across runs | the persisted cache, the clock | `get_cached_globally`, `cache clean` | nothing too old is served, errors are not, failed revalidations cost nothing | `ResponseCache` |
| HTTP client, one request | semaphores, limiters, back-off | `get_retried`, `get_throttled`, `get_once` | permits and tokens balance, retries stop, requests end | `Throttle` |
| Crawl (`web_validator.rs`, `web_validator/context.rs`, `run_config` of `main.rs`, `metrics.rs`) | set of documents, job channel, completion buffer, metrics | `validate`, `validate_link`, `validate_document`, `run_config` | each reachable document is reported once and whole; the run ends; it is given up for a cause only; the exit code is right | `WebGraph`, `Crawl`, `WebValidator` |
| Link extraction, sitemaps, CSS (`web_validator.rs`, `sitemap.rs`, `muffy-css`, `muffy-document`) | none; the sitemap's loop has a stack | `validate_html`, `validate_svg`, `validate_css`, `validate_robots`, `validate_sitemap`, `parse_srcset` | the links and errors of a document are those that its author wrote | `Documents`, `SiteMeaning` |
| Configuration (`config.rs`, `config/`) | the file and the site under way | `read_config`, `merge`, `compile_config`, `Config::site` | nearest file and parent win, circles are errors, longest root wins | `ConfigFiles`, `SiteConfig` |
| Command line (`main.rs`) | none | `run`, `init`, `check-site`, `cache clean` | the configuration of the command is the one used | `ConfigFiles`, `SiteConfig`, `ResponseCache`, `WebValidator` |
| Schema parser (`muffy-rnc`) | none | the productions of `parser.rs` | the tree is the one the grammar gives | `CompactSyntax` |
| Schema compiler (`muffy-validation-macro`) | definition set | `load_schema`, `DefinitionSet`, `PatternNormal`, `AttributeNormal` | overrides and combinations keep their order; normal forms keep the language | `SchemaFiles`, `SchemaLoader`, `SchemaMeaning`, `Patterns`, `SchemaCompiler` |
| Markup validation (`muffy-validation`) | content states | `validate_rule` | an element is fine if and only if the schema accepts it; reported errors are | `ContentModel`, `ContentMeaning`, `Markup`, `MarkupMeaning`, `RelaxNG` |
| Output (`render/`), requests, responses, timers, other caches | none that outlives a call | | | counts only, in `WebValidator` |

How they interact: the program reads and compiles its configuration, then crawls by
it.  Link tasks of the crawl call `HttpClient::get`.  A get goes
through the local cache, where the first task to come computes a URL's entry and
the others wait; the computation goes through the persisted cache, then asks for
the robots.txt of the host *through the same local cache*, then sends the request
under semaphores and limiters, with retries.  A link task that finds a new
document spawns its document task and sends its job over a bounded channel; the
document task extracts links, validates the markup by rules that a macro compiled
from RELAX NG schemas at build time, and spawns a link task for each link; the
consumer in `main.rs` takes jobs into a bounded buffer and renders documents as
they complete.

The hard behaviours: tasks that come to one URL or document at once; slots that
wait for slots; a bounded channel between tasks that wait for each other; writes
to two atomics without a lock; awaits between reading a cache entry and going by
it; kills between two writes; and, in the sequential parts, orders that decide:
of files, sites, definitions, alternatives of a choice, pieces of a text.
`PROJECT.json` lists each hazard at its line with the properties that cover it.

## Modules

The client:

* `TokenBucket`: the abstract limiter.  Windows bring grants, grants are spent or
  lost.  `RateLimiter` implements it.
* `RateLimiter`: `run` and `add_supply`, one action per atomic access, clock read
  or sleep.  The accesses are relaxed: on one atomic they are totally ordered
  anyway, and a stale `load` of `window_count` only makes the compare-exchange
  fail or the refill be skipped, as an early load followed by a delay does here;
  the order between the two atomics is what a delay before `StoreSupply` covers.
  A future without a token reads the clock for the duration of its sleep (`ReadRemainder`), and the timer reads it
  again for the deadline (`Sleep`), so that a sleep can end after the boundary it aims at.
  `granted`, `burst` and `refused` are history.
* `HttpClient`: `slot` is the local cache (`MokaCache::get_with`: one task
  computes, the others wait), `global` the persisted one with fresh entries only.
  Each task has a main call and, inside a computation, one nested robots.txt
  call, which checks no robots.txt and so nests no further.  `Lookup`, `Hit`, `Miss`, `Fetch`,
  `Allow`, `Refuse`, `Follow` and `Return` are the pieces of `get_inner`, `get_cached_locally`,
  `get_cached_globally` and `get_filtered` between awaits.  A fetch, with
  its retries and limits, is one step; what a server answers is chosen from a set
  per URL.
* `ResponseCache`: `get_cached_globally` on the entry of one URL, by runs that
  follow each other (within a run, `HttpClient!FetchedOnce` and
  `SlotsAreFinal`: one computation per URL).  Every cache access may fail,
  `Crash` kills the program between any two of them, and `Clean` removes the database
  between runs.  Writes are taken to be durable once made.  `began`, `newest` and `failed` are history.
  A revalidation that ends in a status to retry is a response, no error: it overwrites the good entry,
  and nothing is restored (`NewestIsKept` and `AnswerStaysStored` speak of the latest response of either kind).
* `Throttle`: `get_retried`, `get_throttled` and `get_once`.  Semaphores serve in order
  of arrival, as tokio's do.  A limiter is its tokens and their refill, at any
  time; `RateLimiter` has the detail.  A limit that is not configured is a supply that
  never runs out.  Factors are whole numbers.

The crawl:

* `WebGraph`: what a crawl works on, and what can be reached in it.  `web` is
  what the run meets: where links lead (which `HttpClient!SameVerdict` shows to be settled
  once in a run), the content types of documents, their elements by the type they are
  validated as, the fragments they lack and the documents that cannot be read; it is chosen at the start.
  What an element is in error for depends on no order but in one way that is left out: an SVG image in a data URL is validated
  for the site of the document that inserts it first (`web_validator.rs:308-315`), so where two documents of different
  sites hold the same image, its errors may depend on the order.  The model fixes them per document and type.
* `Crawl`: the abstract crawl, without tasks, channel or buffer.  Links are open until they are settled, in any
  order; on the way they `Find` documents; `Report` tells of a document once no link in it is open; `End` comes when
  nothing is open or unreported, `GiveUp` for a root link in error, a document that cannot be read or output that cannot be written.
* `WebValidator`: link tasks, document tasks, channel, buffer and consumer.  It implements `Crawl`
  (`ImplementsCrawl`): an open link is one whose task is not done, or has no task yet as its document was not read; `Visit`
  finds a document, the end of a task settles a link, and what moves jobs is a stutter.
  `documents`, `kind` and `doc` are the context's set with the type and the task of each, `task`
  and `sending` the link tasks, `channel` and `buffer` the jobs, `reported`, `metrics` and
  `exit` what the consumer tells.  A document is counted and then rendered, which prints nothing of one without errors
  unless the program is `Verbose`; what is printed may fail to be written (`FailToPrint`) or flushed (`FailToFlush`), which
  gives up the run with the phase `unwritten`.  `Visit` is `validate_link`, for the robots.txt of a
  link and then for the link itself, up to its insertion of a document, `Send` the
  await on the channel after it.
* `Documents`: the `validate_*` functions as operators from the trees, events and entries of
  the external parsers to the elements of a document's output.  The loop of
  `sitemap::parse` is a fold of its handlers over the events.
* `SiteMeaning`: sites as their authors write them, the trees and events that come of it, and what the
  crawl should report.  It EXTENDS `WebValidator` and `Documents`; `Legal` says what can be written, in any length, and
  `SiteAssumption` that `web` is what `Documents` makes of it, which `MCWebValidator` does for its
  sites: so the runs go from what is written to the exit code.

The configuration:

* `ConfigFiles`: where a configuration is looked for (`FindConfig`), `Initialize`, and
  `read_config` as one action per file (`Open`, `Extend`, `Read`), with the `merge`s as operators.  A
  path in a file is a spelling, and `Target` says which file it names from there.  One
  option stands for all that merge alike, with a group (`retry`), a group within it
  (`interval`), a list (`fragments`), a table (`headers`) and a list in a group (`html`).
* `SiteConfig`: `compile_config` from the configuration read, one action per site
  compiled, the configuration of `check-site`'s arguments, and `Config::site`.  It EXTENDS
  `ConfigFiles`: its first steps are the
  reading.  The external sort is any order that the code's comes under, and the order
  of a hash map, which settles who owns a root of two sites, is any.

The markup:

* `CompactSyntax`: the productions of the schema parser with nom's combinators, ordered choice
  and all, over tokens.  Blanks, comments, escapes and the characters of names are left out; a
  colon is a token that has no blank around it; the segments of a literal are cut between words.
* `SchemaFiles`: what the files of a schema hold: parsed by `CompactSyntax`, prefixes resolved, and
  of each include the names that it defines itself.
* `SchemaLoader`: the contents of the files put into a definition set.  The
  recursion over includes is a stack of frames, one step per content.
* `SchemaMeaning`: what the files of a schema define.  `Listing` gives, for some contents and the names
  overridden there, the list of definitions that they come to; it is specified by equations, one per form of content, and an
  instance gives it as a table.  `LoadsAsWritten` compares the definition set with the list.  `Markup` gives the loader the
  contents that `SchemaFiles` parses.
* `Patterns`: patterns, of the schema and compiled, and the constructors of `pattern.rs`.
* `SchemaCompiler`: normal forms of patterns and attributes, and the rules of elements.
* `ContentModel`: content states and their steps over the children of an element.  What the code computes by recursion
  (`is_nullable`, `step`) are functions on a set `States` of them, by equations over the parts of a state, so that they can be
  proved about; `States` is any set closed under parts and steps, `ContentNames` the names of children, and `Depth` says
  that the parts of a state are shallower than it.  The search for missing children goes by rounds, as many as it takes.
* `ContentMeaning`: which children a content model permits, with no state involved: the children are a word, and each operand
  takes places of it, a group's in order, an interleaving's any, a repetition's one run after another (`Permits`); and which
  words complete a state, the shortest of them and the names that they begin with.
* `Markup`: the state machine over loader, compiler and content states: load, compile one definition a
  step, then validate an element that gets children one by one.  Of variants and attribute
  sets whose counts of errors are equal any may be chosen, as they come from hash sets.
* `RelaxNG`: what a pattern means, as the set of attributes and children it matches;
  `MarkupMeaning`: the properties that compare the validator with it.

`MC...`: small instances.  `...Proofs`: theorems.  `CountingLemmas`: what the proofs need of least elements and of sums over sets.

What the models do not tell apart: names are pairs of a prefix and a local name; children that are
white space only, elements of `Except` name classes and inline elements in elements do
not occur in the instances; texts for roles are
compared by word, as `compiler.rs` splits them; text content by data, list or value is text;
two items of a document with the same link are one link task; a file that cannot be read and one that
cannot be parsed are one error; a `loc` in a `loc` does not occur; the two
XML content types of sitemaps are one.

A definition whose comment begins with "Faulty" is a variant of the one that
follows with a plausible bug.  No specification uses it: put in the place of
the right one, it makes the property that should catch the bug fail.

## Runs

| Run | Instance | Shows |
| --- | --- | --- |
| `RateLimiter` | 2 futures, supply 2, window of 2 ticks, clock to 7 | `LongRunBound`, `BurstBound`, `SleepsIntoLaterWindow`, and that it implements `TokenBucket` (`ImplementsBucket`) |
| `RateLimiterWindow` | the same | the documented limit per window is broken (see Findings) |
| `HttpClient` | 2 tasks, 3 hosts, 8 URLs, 2 redirects, one persisted response; servers choose among redirects within and across hosts, loops, denials, 404s and failures; the third host's robots.txt redirects to its own page | one fetch and one verdict per URL, no page against its robots.txt, no deadlock, `EveryGetReturns` |
| `HttpClientShortLink` | a link to a page of another host, whose robots.txt redirects to that page | a deadlock (see Findings) |
| `ResponseCache` | fresh for 1 tick, stale for 2, clock to 8, any number of runs | nothing too old or bad is served, nothing is lost by a failed revalidation |
| `Throttle` | 3 requests, 2 of them to a site; 2 permits and tokens in all, 1 for the site; 2 retries | balance, payment, retries, every request ends |
| `WebValidator` | 5 documents, 2 roots that lead to one page, 4 jobs in the channel and 2 in the buffer; sites with a cycle, a dead link, a page that cannot be read, a root in error, a sitemap, fragments and a document without a content type; and some 145 sites of one document, one for each way of writing it | each document once, complete, with what its author wrote (`ReportsWhatIsWritten`); that the tasks implement the abstract crawl, so documents are reported whole (`ImplementsCrawl`); the run ends, is given up for a cause, failures of the output among them, and its exit code and table are right |
| `Markup` | 16 schemas, some of several files, that include, override and combine definitions, mix attributes and children in choices, interleave and repeat, repeat attributes or choose their names, or are wrong; elements of up to 3 children, words of up to 4 | the definitions loaded are those of the files (`LoadsAsWritten`) and mean what their author meant, from the text on (`LoadsAsMeant`); no valid element is rejected, no invalid one accepted (but for the uses of attributes under Findings); what is reported as missing fits, what is reported as not allowed is.  As an assumption, that the states of 11 content models accept the words of up to 3 children that `Permits` says, and that the search finds the names that their shortest words begin with |
| `SiteConfig` | 3 files that extend each other in every way and set 4 kinds of options of a site and one of their own; a file of 3 sites that extend each other in every way, with and without roots, with equal roots, ignored, with a value that does not compile; command lines without a file, `init` and `check-site` | the nearest file and the nearest parent win, the longest root wins, errors name their causes, the program gets through |
| `SiteConfigLists` | the same | lists of files that extend each other are joined (see Findings) |
| `SiteConfigRecurse`, `SiteConfigIgnored` | the same | two ways in which a site does not inherit (see Findings) |

Why the bounds are enough.  Two futures suffice for every race of the limiter, which is
between a claimant and anyone else, and four windows for a late store to move
across two boundaries.  A task of `HttpClient` holds one slot and waits for one, so a cycle
of waits over two hosts needs two tasks; longer chains are left to the proof, which is
for any number.  Two redirects reach a robots.txt, another host and a page; one more is
one too many.  In `ResponseCache` an age passes
through fresh, stale and expired by tick 4, and 8 let it happen twice.  In
`Throttle` two requests contend for the site's permit and the third
for the global one.  In `WebValidator` the two roots, the sitemap and the cycle
bring up to three tasks to one document; what is written in a document
does not interact with the order of tasks, so sites of one document have few orders.  `Verbose` is FALSE, as
then it matters which documents print; the proofs are for both.  In `Markup` three children
are an element that comes out of order, one too many or one between, and a word of four
leaves room for a missing one after them.  Three files or sites make a chain with a
middle, a circle behind an entry, and a circle of three.  Clocks are
bounded by `MaxTime`, children by `MaxChildren`, the reference's words by `MaxWord`.
`CHECK_DEADLOCK FALSE` is for the limiter, which stops when the clock does, for the
configuration, which ends, and for `Markup`, whose macro stops at an error.

The channel of `WebValidator` has 4 places for 5 documents, as the code has 65536.
With one place TLC finds that the crawl blocks: nothing is taken from the channel before all
roots are validated, and a root's link task waits to send.  Beyond
65536 documents before the roots are validated, or 65536 in the channel and 256
in the buffer, the program does the same.

Fairness.  `HttpClient`: each task runs when it can; tokio schedules runnable
tasks, servers answer or time out, and moka wakes waiters.  `Throttle`: requests run when they
can and windows pass; semaphores are fair, so weak fairness is enough for
them, and a limiter's refill is not consumed forever by others because requests
are finitely many.  `WebValidator`: as long as a task or the consumer can run, one of them does, which is less
than tokio gives, and enough since no step can be taken forever.  `SiteConfig`: the one task goes on.

## Findings

* **The limit per window is not one.**  `configuration.md` says that a rate limit allows only a
  given number of requests in each window.  Claiming a window and storing its supply are two steps: in between
  another future finds the window claimed and takes a token left over from the window before, and the store brings the full
  supply all the same (`RateLimiterWindow`).  A store so late that its window has ended adds to the next one's in the
  same way.  What holds: over all windows, no more than their
  supplies (`LongRunBound`); in one window, no more than the
  supply times the futures plus one (`BurstBound`).  Both are proved.
* **A robots.txt can still deadlock its reader.**  A link that redirects to a page of another host,
  whose robots.txt redirects to that page, waits forever for itself
  (`HttpClientShortLink`).  A link straight to the page does not, as its robots.txt is got first: the third host of
  `HttpClient` is one.
  It cannot happen when robots.txt files redirect to robots.txt files only (`DeadlockFree`, proved).
* **Lists of files are joined** (`SiteConfigLists`).  `configuration.md` says that options set in a file override those of
  the file it extends.  `ignored_fragments`, `ignored_attributes` and `ignored_elements` are joined with theirs, so a file cannot
  take a pattern of its base away; a test shows that this is meant, and `NearestFileWins` says what the code does.
* **`recurse` is inherited by half** (`SiteConfigRecurse`).  The roots of a site that extends a recursive one are
  visited, but their pages are not crawled, as the site is not recursive itself.  In the
  same way a site with `recurse = false` does not keep its roots from being visited.
  Limits are not inherited either: `concurrency` and `rate_limit` of sites are kept by name, and
  the default site, whose requests carry no name, never has any.
* **A site that extends an ignored one panics** (`SiteConfigIgnored`) instead of inheriting or being refused.

Two more disagreements are modelled as they are.  The first interval between attempts is slept before `interval.cap` is
applied (`http_client.rs:238-244`), so it may exceed the cap, which `configuration.md:89` excludes; `TypeOK` of `Throttle` shows
that no later one does.  And attributes in repetitions do not have RELAX NG's meaning, as a TODO of the code says
(`pattern/normal.rs:91-98`), which adds that no schema in use is affected: `(attribute a { text } | attribute b { text })*` compiles to at most one
attribute and rejects valid elements with both, and `(attribute a { text } | y)+` accepts an element with neither.  `RejectsNoValid` and
`AcceptsOnlyValid` are therefore stated for schemas without these uses (`ComplyingRoots`, `DemandingRoots` of `MarkupMeaning`);
`Markup` has schemas with them, of which the properties fail if the condition is dropped.  The second condition has a third
case, which no comment names: an attribute whose name is a choice, `attribute a | b { text }`, is compiled so that an element may have both
(`name_choice` of `attribute/normal.rs`).  Groups of attributes in repetitions, which RELAX NG prohibits, are
accepted; schemas that RELAX NG gives no meaning are outside all of these properties.

Met on the way, where no document promises otherwise, and modelled as they are: the markup options of
a page are those of the site that its `base` is under; a text between children matches a wildcard for names
without a prefix; attributes of a wildcard are reported once each by name; an exception of a data
pattern takes a whole pattern (`parser.rs:295`); a name whose prefix is a keyword, as `text:foo`, does not parse;
the default namespace of a schema does not apply to names without a prefix; an operand that is `notAllowed` gives way to
the next one under `&=` too; attributes of a name class with an exception are never allowed, which a comment concedes (`name.rs:11`).

## Proofs

Each theorem is `Spec => []Inv`, or `[][A]_vars`, for all constants that satisfy the
module's named assumptions.

* `RateLimiterProofs` (any finite set of futures, any positive supply and window, any bound of
  the clock).  `TypeCorrect` needs `ExchangesForward`: a future that tries to claim a window
  computed a later one than it loaded, since the clock only moves forward.
  `LongRunBounded` does not hold by itself of a step: what is granted comes out of tokens, and
  tokens out of refills that a future has claimed and not yet stored.  The invariant is
  therefore a budget, `LongRunBudget`: granted, tokens and the supplies of all pending refills together are at
  most the supplies of the windows claimed.  A claim adds one pending refill and at least one window; a
  store turns a refill into tokens or drops the old ones; a grant turns a token into a
  granted one.  `BurstBounded` has a budget of its own, `BurstBudget`, which starts anew with each window: a future can
  store one late refill there and one more is claimed in it, by whoever comes first.
  `SleepsReachNewWindow` needs what the duration says of the window that refused (`DurationReaches`): from whatever later
  reading, it leads past that window's end; the rest is arithmetic of division and remainder.  `Implements` maps the tokens and pending
  refills to the bucket's grants and shows, action by action, that a step is one of `TokenBucket`'s or a stutter.
* `HttpClientProofs` (any tasks, any web, any persisted responses, any programs of gets, any bound
  of redirects).  `TypeCorrect` comes first, with what a call's place says of the call nested in it
  (`Nesting`).  `ClaimsAlwaysMatch`, `EachServerAskedOnce` and `FilledSlotsStay` come from
  `SlotInv`: claimed slots and computing calls match one to one, and a server is not asked
  for a URL before its slot is filled (`Asked`) - that it was asked once at most is not
  inductive without saying when it was not asked at all.  `DeadlockFree` holds if robots.txt
  URLs redirect to robots.txt URLs only (`RobotsStayRobots`), which the run on a short link
  shows to be needed.  `RobotsInv` says that nested calls then stay on robots.txt
  URLs and that a main call computes a robots.txt URL only with its check off, so without
  nesting.  In a set of tasks that wait for each other each awaited slot would be
  computed by a main call that waits for a robots.txt in its nested one; so would the slot
  of that robots.txt, which `RobotsInv` excludes.  `GoesOn` adds `Awaited`, that a slot some call waits for is filled or
  claimed: if no task could go on, each would wait for a slot that another computes, which `DeadlockFree` excludes.
  `OneVerdict` is about the `Chain` of redirects through the
  filled slots.  The module first unfolds the recursive function, by a least counterexample.
  The theorem then says of each call how far it is on the chain of the URL it was asked for (its trail);
  chains that ended do not change as slots are only filled.  `ResponsesAreVetted` is `VettedInv`: of what
  is persisted, of what is being fetched and of what is in a slot.
* `ResponseCacheProofs` (any pair of periods, any bound of the clock).  All safety
  properties of `ResponseCache` are about the end of a run and depend on what it found at
  the beginning; `RunInv` says what becomes of that between: until a result is saved the store holds
  the entry found (`FoundIsStored`), and a restore is due only while that is the latest response
  (`RestoreIsDue`), within its period when judged (`JudgedRightly`), no later than any result (`TimesInOrder`), and that
  a run which holds an error met one (`FailuresNoted`).
* `ThrottleProofs` (any requests, sites, limits and retries).  The invariant is the types with
  `SiteSteps`, that only requests of a site are at a site's semaphore or limiter, and `AttemptLeft`, that a
  request which is not done has an attempt left; the properties are inductive with them.  `GoesOn` adds `Lines`:
  a semaphore's line has each request that waits for it, once, and nobody else.  Requests take the client's permit before their
  site's, and those that hold the latter wait for no semaphore, so there is always one to go on, or one whose limiter is to be refilled.
* `SiteMeaningProofs`, of `WebValidator` (any webs, roots, capacities).  `NothingLost`, `ReportsWhole` and `TypeCorrect` are about one
  document and its tasks.  `CrawlsAll` has two halves.  No document is inserted that cannot be reached, by induction over steps,
  as `Reachable` is closed.  And at the end each is: `Graph` says that a document inserted has its type settled, came
  from a root or from a document that was read, and that each link task that is done left its document
  inserted; so once nothing is under way the documents are a closed set, and `Reachable`, the least one, is within them.  No
  induction over paths is needed.  `TellsTruth` adds `Tally`, that the metrics are sums over the documents reported, and that sums over
  documents of sums over their results are totals.  `Implements` maps the tasks to open links and shows of each action that it is one of
  `Crawl`'s or a stutter; it needs of `Graph` that a task that is done left its document inserted, and of
  `Streaming` that the consumer reports only when the roots are settled and fine.  `GivesUpRightly` has three causes; for
  the third, output that cannot be written, it needs that a document which prints has an error or the program is verbose, and that the
  errors counted of a document in the buffer or reported are those of its settled type.
* `SiteMeaningProofs`, of `SiteMeaning` (any webs that come of documents as `Legal` says, of any size).  `ReportsTheWritten` takes from
  `TypeCorrect` that what is reported is of a known type; what it adds is that of each type the items of
  what is rendered are the ones meant (`DocumentMeant`).  A sitemap (`SitemapMeant`) is its entries one after the other: an
  invariant of the loop between two entries (`EntriesDone`) says which it found, and that a
  loc adds its entry at its end and at no event before (`AddsAtEnd`).  A file that is cut off ends between two such places, or
  in an entry, and as entries are only ever added (`TableGrows`), what it tells is what the last entry before the cut left.
  A srcset (`SrcsetParsed`) is candidates at places (`AllPlaced`); the parser is shown to go from the place of one to that of the next (`UrlsInOrder`),
  with the commas that belong to a URL and those that do not.  A page (`HtmlMeant`) is its elements in nodes that tell nothing (`IsFiller`), the first base
  element is the first base node (`PageBase`), and an image (`SvgMeant`) is a root before such nodes.
  Loops over texts are handled as tables of states, by least counterexamples.
  `Legal` leaves out what could not be told apart in writing: URLs of a srcset with a space in them or a comma at an end, a candidate
  without a descriptor before a comma without a space, which is part of its URL; and, in a sitemap that is cut off, texts that
  cannot be decoded.
* `SiteConfigProofs` (any files, any sites, however long their chains).  `NearestFilesWin`: a file read makes the
  chain longer by one, and the merge gives what `Nearest` gives of the longer chain, within groups too.
  `NearestParentsWin`: a site's line is its parent's moved by one, so a site compiled on its parent has what
  the nearest in its own line sets; that a line ends is the pigeonhole principle, since a line that does
  not end comes back to a site, which would be a circle.  `ErrorsHaveCauses`: the files from the one that comes again on are a line that
  leads back to its start, and the sites that come back to themselves are one line of parents from any of them; a part of a line
  that is closed under its links has all of what comes after one of its members, which is all of it (`LineIsCircle`), so both are one
  circle (`OneCircle`).  As parents are compiled first (`Ordered`), the only parent without a configuration is an ignored one;
  and what was compiled before an end without error had no cause for one.  `LongestRootsWin`: the order that
  paths are sorted by is total, so a finite set of them can be sorted, and the first of a sorted sequence that
  claims a URL is the longest; whoever owns a root that two sites have, it is a claim of one of them.  `NamesCanBeSorted`:
  sites that name their parents and have no circle have an order with parents first, built one site at a time.
* `MarkupProofs`, loading (any files, however they include, nest, override and combine).  `LoadsWritten` is about the loader
  as a specification of its own, `LoaderSpec`: a step of `Markup` takes a step of it or leaves its variables alone.  While it
  runs, the definitions that the files state are a list of which it has built the first ones, and its agenda comes to the others
  (`Halfway`): frame after frame, each by the equations of `Listing`.  A step takes a definition off
  the list and puts it in the set, or takes the agenda apart and leaves the list as it is: an include becomes two frames
  whose lists make up its own.  Of each name defined so far the entry is the one meant by the places at which it was defined
  (`Built`): the operator stated, if any, and the patterns since the last one that was replaced, in order.  One more place is an operand more, or,
  while no operator is stated, replaces the others; a conflict is two places that state different
  ones.  `ListingAssumption` says that the table has what there is to load, by its equations, which files that include themselves
  would not have, and that of each include the names overridden are those it defines.  TLC evaluates it for the schemas of `Markup`.
* `MarkupProofs`, matching of children (any content model, any children, however patterns nest and operands repeat).  The
  functions of `ContentModel` and `ContentMeaning` have the values that their equations give: there are such functions on the
  states up to any depth, so there is one on all (`NullableIs`, `StepIs`, `MatchesIs`).
  A state is nullable if and only if it permits no children at all (`NullablePermitsNone`).  `StepDerives`, the heart of it, goes by the depth
  of the state: whatever the places, what a state permits that begins with a child is what the state that `step` leads to permits of
  the others.  In a group the child is of the first operand that takes places, and those before it are nullable; in an interleaving it is
  of one copy of an operand; in a repetition of the first run.  The constructors that drop and flatten operands permit what
  the plain ones would.  `ChildrenPlaced` carries it along the children: those kept have their places in the model, and one left out
  had none, whatever would come after it; so without ignored names an element is accepted if and only if its
  children are permitted (`AcceptsWhatIsPermitted`).  `MissingChildrenFound`: what is reported as missing are the names that the
  shortest completions begin with, all of them and no other.  Its invariant (`Ongoing`) is that every
  shortest completion passes through the frontier, n steps away in round n, and that what was visited is no farther: a shortest completion
  that came back there could be shortened (`NoDetour`).  The search ends because each round visits something new, for which the theorem
  takes the states to be finitely many; they are for the content models of `Markup`.  `StatesAssumption` is the closure that `States` stands for; all well-formed states with
  names and operands of any kind are such a set, and TLC evaluates it for those of the content models of `Markup`.
* `CountingLemmas`: numbers and finite sets have least elements; `MapThenSumSet` unfolds by one element and adds up.  Both inductions are
  by a least counterexample, as the library's induction theorems take operators.

Termination is proved up to its last, temporal step.  In each of `HttpClientProofs`, `ThrottleProofs`, `SiteMeaningProofs` and
`SiteConfigProofs` a theorem `GoesOn` says that while work is left some action can be taken (its guard holds, written out, as
`ENABLED` is out of the prover's reach), and `EveryStepAdvances` that each step moves a measure one way, which is bounded
(`StepsAreBounded`, `ProgressIsBounded`, `MarksAreBounded`; the configuration's is its place, then files not read and sites not compiled).  That a run therefore
ends under the fairness stated is what TLC checks (`EveryGetReturns`, `EveryRequestEnds`, `Terminates`, `EveryConfigEnds`).
Of the hypotheses, `RobotsStayRobots` is the condition that the run on a short link
breaks, `Cardinality(Doc) <= JobCapacity` the one that keeps the roots from filling the channel (see Runs), and
`KnownCommands` says that the arguments of the command line are some command's.

Only model-checked: liveness; and the properties of `Markup` other than `LoadsAsWritten`, whose operators recurse over patterns
(`RECURSIVE`, which TLAPS does not take): compilation, attributes, the choice of a variant.  Of `RejectsNoValid`,
`AcceptsOnlyValid` and `MissingChildFits` the part about children, given a compiled content model, is proved.  `LoadsAsMeant` says of the whole way from the text of the files what `LoadsAsWritten` says from their
contents on.

## Plan

1. `RateLimiter`, `HttpClient`, `ResponseCache`, `Throttle`, `WebValidator`, `SiteConfig`, with their theorems: done.
2. `CompactSyntax`, `SchemaLoader`, `SchemaCompiler`, `ContentModel`, `Markup` against `RelaxNG`: done.
3. `Documents` and `SiteMeaning`, and the document types in `WebValidator`: done.
4. `Crawl` and its refinement, `LongestRootWins`, `ExitTells`, progress of every concurrent part: done.
5. `ReportsWhatIsWritten` for documents of every size: done.
6. The loading of schemas proved (`SchemaMeaning`, `MarkupProofs`): done.
7. The matching of children and the search for missing ones proved (`ContentMeaning`, `MarkupProofs`): done.
8. Left: `recursive` of `WebValidator` taken from `SiteConfig!Site` instead of a constant.

## Not modelled, and why

The external parsers (HTML, XML, CSS, robots.txt, TOML) and the libraries for HTTP, caches and time are
modelled by what the code asks of them.  The formatting of output, the wording of errors, colours, the syntax of command-line
arguments, the accessors of configurations, requests, responses and documents, and the adapters around libraries are functions
without state or choice: no property is about them.  Of the repository's lines most of the rest are tests next to the code
they test; together with the above they are why the share of its lines that definitions stand for stays below a third.
The panics on extreme durations, factors and limits need one call and no interleaving.
Loss of writes that fjall has not flushed when the machine, rather than the program, stops is left out of `ResponseCache`:
an older state of the store, to which its properties apply as well.  `cache clean` is taken to run between runs, not during one.
