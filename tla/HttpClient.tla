----------------------------- MODULE HttpClient ------------------------------
(***************************************************************************)
(* Getting links: muffy/src/http_client.rs from `get` down to the fetch.   *)
(*                                                                         *)
(* Tasks share a table of slots, the local cache, with one slot per URL.   *)
(* The first task to look a URL up claims its slot and computes the entry  *)
(* (global cache, robots.txt of the host, server); the others wait for it. *)
(* A get follows redirects from slot to slot, and the computation of a     *)
(* slot starts a nested get of the host's robots.txt, which follows        *)
(* redirects itself: so a task can hold one slot while it waits for        *)
(* another.  The nested get checks no robots.txt, so nesting stops there.  *)
(*                                                                         *)
(* Statuses, bodies and headers are reduced to what the flow tells apart.  *)
(* The retries, limits and timeout of one fetch are inside Fetch, and the  *)
(* ages of global entries are ResponseCache's: an entry here is fresh.     *)
(***************************************************************************)
EXTENDS Naturals, Sequences, FiniteSets

CONSTANTS
    Task,           \* Tasks that get links.
    Url,            \* URLs without fragments.
    RobotsUrl,      \* The URLs whose path is ROBOTS_PATH.
    RobotsOf,       \* The robots.txt URL of each URL's host.
    Serves,         \* What the server of each URL may answer.
    Persisted,      \* URLs for which an earlier run left a response ...
    Program,        \* ... and the sequences of URLs a task may get.
    MaxRedirects    \* Request::max_redirects.

\* Answers of servers.  A "page" is any response that is no redirect and no 404;
\* taken as a robots.txt, it denies some URLs.  A "binary" one is not UTF-8, a
\* "broken" one is a redirect without a usable location.
Page(urls) == [kind |-> "page", denies |-> urls]
Missing == [kind |-> "missing"]
Binary == [kind |-> "binary"]
Redirect(u) == [kind |-> "redirect", to |-> u]
Broken == [kind |-> "broken"]

\* HttpClientError: RobotsTxt, TooManyRedirects, and all the others.
Denied == [kind |-> "denied"]
TooMany == [kind |-> "too_many"]
Failed == [kind |-> "failed"]

Response ==
    {Page(urls) : urls \in SUBSET Url} \cup {Redirect(u) : u \in Url}
        \cup {Missing, Binary, Broken}
Error == {Denied, TooMany, Failed}
Result == Response \cup Error

Call == Task \X {"main", "robot"}
Main(t) == <<t, "main">>
Robot(t) == <<t, "robot">>

\* A slot or a global entry without a result.
Empty == [kind |-> "empty"]
Claimed(c) == [kind |-> "claimed", by |-> c]

IsError(result) == result.kind \in {"denied", "too_many", "failed"}
HasResult(entry) == entry.kind \notin {"empty", "claimed"}
HasResponse(entry) == HasResult(entry) /\ ~IsError(entry)

\* What get_inner makes of the last slot it reads.
Final(result) ==
    CASE result.kind = "redirect" -> TooMany
      [] result.kind = "broken" -> Failed
      [] OTHER -> result

ASSUME UrlAssumption == Url # {} /\ RobotsUrl \subseteq Url /\ Persisted \subseteq Url
ASSUME RobotsOfAssumption == RobotsOf \in [Url -> RobotsUrl]
ASSUME ServesAssumption == Serves \in [Url -> SUBSET (Response \cup {Failed})]
ASSUME ProgramAssumption == Program \subseteq Seq(Url)
ASSUME MaxRedirectsAssumption == MaxRedirects \in Nat

VARIABLES
    todo,       \* The URLs each task has yet to get.
    at,         \* What each call does next.
    url,        \* The URL each call is at.
    hops,       \* Iterations of the redirect loop each call has left.
    robots,     \* Whether the main call of a task checks robots.txt.
    slot,       \* local_cache.
    global,     \* global_cache.
    fetched,    \* History: for each URL, the robots flags of its fetches ...
    verdict     \* ... and the results that gets of it returned.

vars == <<todo, at, url, hops, robots, slot, global, fetched, verdict>>

Label == {"idle", "lookup", "wait", "load", "robot", "fetch"}

Init ==
    /\ todo \in [Task -> Program]
    /\ at = [c \in Call |-> "idle"]
    /\ url = [c \in Call |-> CHOOSE u \in Url : TRUE]
    /\ hops = [c \in Call |-> 0]
    /\ robots = [t \in Task |-> TRUE]
    /\ slot = [u \in Url |-> Empty]
    /\ \E entry \in [Persisted -> UNION {Serves[u] : u \in Persisted}] :
        /\ \A u \in Persisted : entry[u] \in Serves[u]
        /\ global = [u \in Url |-> IF u \in Persisted THEN entry[u] ELSE Empty]
    /\ fetched = [u \in Url |-> <<>>]
    /\ verdict = [u \in Url |-> {}]

-----------------------------------------------------------------------------
\* Faulty: one iteration too many.
EnterLong(c, u) ==
    /\ url' = [url EXCEPT ![c] = u]
    /\ hops' = [hops EXCEPT ![c] = MaxRedirects + 2]

\* The request of call c starts its redirect loop at u.
Enter(c, u) ==
    /\ url' = [url EXCEPT ![c] = u]
    /\ hops' = [hops EXCEPT ![c] = MaxRedirects + 1]

\* get
Get(t) ==
    /\ at[Main(t)] = "idle"
    /\ todo[t] # <<>>
    /\ Enter(Main(t), Head(todo[t]))
    /\ at' = [at EXCEPT ![Main(t)] = "lookup"]
    /\ robots' = [robots EXCEPT ![t] = TRUE]
    /\ UNCHANGED <<todo, slot, global, fetched, verdict>>

\* Faulty: a slot without a result is claimed, whether or not it is claimed.
LookupAgain(c) ==
    /\ at[c] = "lookup"
    /\ robots' = IF c[2] = "main" /\ url[c] \in RobotsUrl
                 THEN [robots EXCEPT ![c[1]] = FALSE] ELSE robots
    /\ \/ /\ ~HasResult(slot[url[c]])
          /\ slot' = [slot EXCEPT ![url[c]] = Claimed(c)]
          /\ at' = [at EXCEPT ![c] = "load"]
       \/ /\ HasResult(slot[url[c]])
          /\ at' = [at EXCEPT ![c] = "wait"]
          /\ UNCHANGED slot
    /\ UNCHANGED <<todo, url, hops, global, fetched, verdict>>

\* Faulty: the check stays on at a robots.txt URL.
LookupChecked(c) ==
    /\ at[c] = "lookup"
    /\ \/ /\ slot[url[c]] = Empty
          /\ slot' = [slot EXCEPT ![url[c]] = Claimed(c)]
          /\ at' = [at EXCEPT ![c] = "load"]
       \/ /\ slot[url[c]] # Empty
          /\ at' = [at EXCEPT ![c] = "wait"]
          /\ UNCHANGED slot
    /\ UNCHANGED <<todo, url, hops, robots, global, fetched, verdict>>

\* One iteration of get_inner up to the local cache.  A robots.txt URL switches
\* the check off for the rest of the redirects.
Lookup(c) ==
    /\ at[c] = "lookup"
    /\ robots' = IF c[2] = "main" /\ url[c] \in RobotsUrl
                 THEN [robots EXCEPT ![c[1]] = FALSE] ELSE robots
    /\ \/ /\ slot[url[c]] = Empty
          /\ slot' = [slot EXCEPT ![url[c]] = Claimed(c)]
          /\ at' = [at EXCEPT ![c] = "load"]
       \/ /\ slot[url[c]] # Empty
          /\ at' = [at EXCEPT ![c] = "wait"]
          /\ UNCHANGED slot
    /\ UNCHANGED <<todo, url, hops, global, fetched, verdict>>

\* The entry of c's slot is computed: waiters, c among them, may read it.
Fill(c, result) == slot' = [slot EXCEPT ![url[c]] = result]
Persist(c, result) == global' = [global EXCEPT ![url[c]] = result]

\* get_cached_globally finds a response.
Hit(c) ==
    /\ at[c] = "load"
    /\ HasResponse(global[url[c]])
    /\ Fill(c, global[url[c]])
    /\ at' = [at EXCEPT ![c] = "wait"]
    /\ UNCHANGED <<todo, url, hops, robots, global, fetched, verdict>>

\* get_cached_globally finds nothing, or an error, which it removes; then
\* get_filtered asks for the robots.txt first if the request is to be checked.
Miss(c) ==
    /\ at[c] = "load"
    /\ ~HasResponse(global[url[c]])
    /\ Persist(c, Empty)
    /\ \/ /\ c[2] = "main" /\ robots[c[1]]
          /\ Enter(Robot(c[1]), RobotsOf[url[c]])
          /\ at' = [at EXCEPT ![c] = "robot", ![Robot(c[1])] = "lookup"]
       \/ /\ ~(c[2] = "main" /\ robots[c[1]])
          /\ at' = [at EXCEPT ![c] = "fetch"]
          /\ UNCHANGED <<url, hops>>
    /\ UNCHANGED <<todo, robots, slot, fetched, verdict>>

\* get_retried answers; the result, an error too, is stored.
Fetch(c) ==
    /\ at[c] = "fetch"
    /\ \E answer \in Serves[url[c]] : Fill(c, answer) /\ Persist(c, answer)
    /\ fetched' = [fetched EXCEPT ![url[c]] = Append(@, c[2] = "main" /\ robots[c[1]])]
    /\ at' = [at EXCEPT ![c] = "wait"]
    /\ UNCHANGED <<todo, url, hops, robots, verdict>>

\* The slot that call c waits for is filled: the call goes on to a redirect
\* while its loop has an iteration left, and is over otherwise.
Ready(c) == at[c] = "wait" /\ HasResult(slot[url[c]])
\* Faulty: a redirect is followed out of the loop's last iteration.
RedirectedLong(c) == Ready(c) /\ slot[url[c]].kind = "redirect" /\ hops[c] > 0
Redirected(c) == Ready(c) /\ slot[url[c]].kind = "redirect" /\ hops[c] > 1
Finished(c) == Ready(c) /\ ~Redirected(c)
Outcome(c) == Final(slot[url[c]])

Follow(c) ==
    /\ Redirected(c)
    /\ url' = [url EXCEPT ![c] = slot[url[c]].to]
    /\ hops' = [hops EXCEPT ![c] = @ - 1]
    /\ at' = [at EXCEPT ![c] = "lookup"]
    /\ UNCHANGED <<todo, robots, slot, global, fetched, verdict>>

\* get returns (RobotsTxt as Ok(None)).
Return(t) ==
    /\ Finished(Main(t))
    /\ verdict' = [verdict EXCEPT ![Head(todo[t])] = @ \cup {Outcome(Main(t))}]
    /\ todo' = [todo EXCEPT ![t] = Tail(@)]
    /\ at' = [at EXCEPT ![Main(t)] = "idle"]
    /\ UNCHANGED <<url, hops, robots, slot, global, fetched>>

\* The errors that get_filtered gets for a URL out of its robots.txt.
Refusal(robot, u) ==
    CASE IsError(robot) -> {robot}
      [] robot.kind = "binary" -> {Failed}
      [] robot.kind = "page" -> IF u \in robot.denies THEN {Denied} ELSE {}
      [] robot.kind = "missing" -> {}

\* Faulty: what the robots.txt says is not asked.
AllowAll(t) ==
    /\ Finished(Robot(t))
    /\ at' = [at EXCEPT ![Robot(t)] = "idle", ![Main(t)] = "fetch"]
    /\ UNCHANGED <<todo, url, hops, robots, slot, global, fetched, verdict>>

\* get_robot returns a list that allows the URL, or none.
Allow(t) ==
    /\ Finished(Robot(t))
    /\ Refusal(Outcome(Robot(t)), url[Main(t)]) = {}
    /\ at' = [at EXCEPT ![Robot(t)] = "idle", ![Main(t)] = "fetch"]
    /\ UNCHANGED <<todo, url, hops, robots, slot, global, fetched, verdict>>

\* The robots.txt denies the URL, or getting it failed: either is the entry of
\* the URL, stored like a fetched one.
Refuse(t) ==
    /\ Finished(Robot(t))
    /\ \E error \in Refusal(Outcome(Robot(t)), url[Main(t)]) :
        Fill(Main(t), error) /\ Persist(Main(t), error)
    /\ at' = [at EXCEPT ![Robot(t)] = "idle", ![Main(t)] = "wait"]
    /\ UNCHANGED <<todo, url, hops, robots, fetched, verdict>>

Advance(c) == Lookup(c) \/ Hit(c) \/ Miss(c) \/ Fetch(c) \/ Follow(c)

Step(t) ==
    \/ Get(t)
    \/ Advance(Main(t))
    \/ Advance(Robot(t))
    \/ Allow(t)
    \/ Refuse(t)
    \/ Return(t)

\* All tasks got all their links.
Done == \A t \in Task : at[Main(t)] = "idle" /\ todo[t] = <<>>

Next == (\E t \in Task : Step(t)) \/ (Done /\ UNCHANGED vars)

Spec == Init /\ [][Next]_vars

\* A task that can run is run: tokio schedules runnable tasks, a server answers
\* or the request times out, and moka wakes the waiters of a slot.
FairSpec == Spec /\ \A t \in Task : WF_vars(Step(t))

-----------------------------------------------------------------------------
TypeOK ==
    /\ todo \in [Task -> Seq(Url)]
    /\ at \in [Call -> Label]
    /\ url \in [Call -> Url]
    /\ hops \in [Call -> 0..(MaxRedirects + 1)]
    /\ robots \in [Task -> BOOLEAN]
    /\ slot \in [Url -> Result \cup {Empty} \cup {Claimed(c) : c \in Call}]
    /\ global \in [Url -> Result \cup {Empty}]
    /\ fetched \in [Url -> Seq(BOOLEAN)]
    /\ verdict \in [Url -> SUBSET Result]

\* A claimed slot is being computed by the call that claimed it, no other call
\* computes it, and every computation has its slot: no waiter waits for
\* nothing, and no entry is computed twice at a time.
Computing == {"load", "robot", "fetch"}
Computes(c) == at[c] \in Computing
ClaimsMatch ==
    /\ \A u \in Url : slot[u].kind = "claimed" =>
        Computes(slot[u].by) /\ url[slot[u].by] = u
    /\ \A c \in Call : Computes(c) => slot[url[c]] = Claimed(c)

\* However many links lead to a URL, within a run its server is asked once.
FetchedOnce == \A u \in Url : Len(fetched[u]) <= 1

\* The response or error at the end of n iterations of the redirect loop from u
\* according to the filled slots.
Chain[n \in Nat] == [u \in Url |->
    IF slot[u].kind = "redirect" /\ n > 1 THEN Chain[n - 1][slot[u].to] ELSE Final(slot[u])]
Settled(u) == Chain[MaxRedirects + 1][u]

\* Links to the same URL get the same verdict, whichever task gets them, in
\* whatever order and with or without a robots.txt check on the way.
SameVerdict == \A u \in Url : verdict[u] \subseteq {Settled(u)}

\* A response that a get can see was allowed by the robots.txt of its host, or
\* comes from an earlier run, or was fetched by a call that had the check off,
\* on the way of a redirect from some robots.txt.
Vetted ==
    \A u \in Url : HasResponse(slot[u]) =>
        \/ u \in Persisted
        \/ fetched[u] = <<FALSE>>
        \/ Refusal(Settled(RobotsOf[u]), u) = {}

\* No set of tasks waits for slots that only tasks of the set can fill ("...
\* must not deadlock", the tests redirect_to_robots_txt and
\* redirect_from_robots_txt in http_client.rs).
WaitsFor(t, tasks) ==
    \E c \in {Main(t), Robot(t)} :
        /\ at[c] = "wait"
        /\ slot[url[c]].kind = "claimed"
        /\ slot[url[c]].by[1] \in tasks
NoDeadlock == ~\E tasks \in (SUBSET Task) \ {{}} : \A t \in tasks : WaitsFor(t, tasks)

\* A filled slot never changes within a run, so what one task validated against
\* is what every other sees.
SlotsAreFinal ==
    [][\A u \in Url : HasResult(slot[u]) => slot'[u] = slot[u]]_vars

\* Every link that is asked for gets a verdict.
EveryGetReturns == <>[]Done

==============================================================================
