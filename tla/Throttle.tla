------------------------------ MODULE Throttle -------------------------------
(***************************************************************************)
(* Sending the requests that the caches let through: `get_retried`,        *)
(* `get_throttled` and `get_once` of muffy/src/http_client.rs.             *)
(*                                                                         *)
(* An attempt takes a permit of the global semaphore, then one of its      *)
(* site's, then a token of its site's rate limiter and one of the global   *)
(* limiter, and holds the permits until the server answered or the timeout *)
(* struck.  Between attempts a request sleeps.  Semaphores serve in the    *)
(* order of arrival, as tokio's do; a limiter serves whoever comes when it *)
(* has tokens, and is reduced to its tokens and their refill (RateLimiter).*)
(***************************************************************************)
EXTENDS Naturals, Sequences, FiniteSets

CONSTANTS
    Request,        \* Requests under way at the same time.
    Site,           \* Sites with limits of their own.
    SiteOf,         \* The site of each request, or AnySite.
    AnySite,        \* No site with limits.
    Concurrency,    \* Permits: [{AnySite} \cup Site -> Nat \ {0}], AnySite
                    \* standing for the global semaphore.
    Supply,         \* Tokens per window, likewise.
    Count,          \* RetryConfig::count.
    Initial,        \* RetryDurationConfig::initial.
    Cap,            \* RetryDurationConfig::cap.
    Factor          \* RetryConfig::factor, a whole number here.

Limit == {AnySite} \cup Site

ASSUME SiteAssumption == AnySite \notin Site /\ SiteOf \in [Request -> Limit]
ASSUME LimitAssumption ==
    /\ Concurrency \in [Limit -> Nat \ {0}]
    /\ Supply \in [Limit -> Nat \ {0}]
ASSUME RetryAssumption ==
    Count \in Nat /\ Initial \in Nat /\ Cap \in Nat /\ Factor \in Nat
ASSUME RequestAssumption == IsFiniteSet(Request)

VARIABLES
    pc,         \* What each request does next.
    permits,    \* Free permits of each semaphore ...
    queue,      \* ... and the requests that wait for one, in order.
    tokens,     \* Tokens of each limiter.
    attempts,   \* Attempts each request has made.
    backoff,    \* The next interval of each request.
    interval,   \* The interval each request sleeps, or slept last.
    outcome,    \* The outcome of each request's last attempt.
    spent       \* History: the tokens each request took from each limiter.

vars == <<pc, permits, queue, tokens, attempts, backoff, interval, outcome, spent>>

PC == {"idle", "global", "site", "site_token", "global_token", "send", "sleep", "done"}
Outcome == {"none", "ok", "retry", "error"}

Init ==
    /\ pc = [r \in Request |-> "idle"]
    /\ permits = Concurrency
    /\ queue = [l \in Limit |-> <<>>]
    /\ tokens = Supply
    /\ attempts = [r \in Request |-> 0]
    /\ backoff = [r \in Request |-> Initial]
    /\ interval = [r \in Request |-> 0]
    /\ outcome = [r \in Request |-> "none"]
    /\ spent = [r \in Request |-> [l \in Limit |-> 0]]

Goto(r, label) == pc' = [pc EXCEPT ![r] = label]

\* Semaphore::acquire: line up, then take a permit as the first in the line.
LineUp(r, l) == queue' = [queue EXCEPT ![l] = Append(@, r)]
Acquire(r, l) ==
    /\ queue[l] # <<>> /\ Head(queue[l]) = r
    /\ permits[l] > 0
    /\ permits' = [permits EXCEPT ![l] = @ - 1]

\* RateLimiter::run up to its future.
Take(r, l) ==
    /\ tokens[l] > 0
    /\ tokens' = [tokens EXCEPT ![l] = @ - 1]
    /\ spent' = [spent EXCEPT ![r][l] = @ + 1]

-----------------------------------------------------------------------------
\* get_retried starts its first attempt.
Start(r) ==
    /\ pc[r] = "idle"
    /\ LineUp(r, AnySite)
    /\ Goto(r, "global")
    /\ UNCHANGED <<permits, tokens, attempts, backoff, interval, outcome, spent>>

\* The global permit is there: on to the site's semaphore, if the site has one.
AcquireGlobal(r) ==
    /\ pc[r] = "global"
    /\ Acquire(r, AnySite)
    /\ \/ /\ SiteOf[r] \in Site
          /\ queue' = [queue EXCEPT ![AnySite] = Tail(@), ![SiteOf[r]] = Append(@, r)]
          /\ Goto(r, "site")
       \/ /\ SiteOf[r] = AnySite
          /\ queue' = [queue EXCEPT ![AnySite] = Tail(@)]
          /\ Goto(r, "global_token")
    /\ UNCHANGED <<tokens, attempts, backoff, interval, outcome, spent>>

\* Faulty: the site's limiter is passed by.
AcquireUnlimited(r) ==
    /\ pc[r] = "site"
    /\ Acquire(r, SiteOf[r])
    /\ queue' = [queue EXCEPT ![SiteOf[r]] = Tail(@)]
    /\ Goto(r, "global_token")
    /\ UNCHANGED <<tokens, attempts, backoff, interval, outcome, spent>>

AcquireSite(r) ==
    /\ pc[r] = "site"
    /\ Acquire(r, SiteOf[r])
    /\ queue' = [queue EXCEPT ![SiteOf[r]] = Tail(@)]
    /\ Goto(r, "site_token")
    /\ UNCHANGED <<tokens, attempts, backoff, interval, outcome, spent>>

\* The site's limiter runs the global one, which runs the request.
TakeSite(r) ==
    /\ pc[r] = "site_token"
    /\ Take(r, SiteOf[r])
    /\ Goto(r, "global_token")
    /\ UNCHANGED <<permits, queue, attempts, backoff, interval, outcome>>

TakeGlobal(r) ==
    /\ pc[r] = "global_token"
    /\ Take(r, AnySite)
    /\ Goto(r, "send")
    /\ UNCHANGED <<permits, queue, attempts, backoff, interval, outcome>>

\* Faulty: the site's permit leaks.
ReleaseGlobal(r) == permits' = [permits EXCEPT ![AnySite] = @ + 1]

\* The permits of request r are dropped.
Release(r) ==
    permits' = [l \in Limit |-> permits[l] + (IF l \in {AnySite, SiteOf[r]} THEN 1 ELSE 0)]

\* Faulty: one retry too many.
SendMore(r) ==
    /\ pc[r] = "send"
    /\ Release(r)
    /\ attempts' = [attempts EXCEPT ![r] = @ + 1]
    /\ \E result \in {"ok", "retry", "error"} :
        /\ outcome' = [outcome EXCEPT ![r] = result]
        /\ \/ /\ result = "ok" \/ attempts[r] > Count
              /\ Goto(r, "done")
              /\ UNCHANGED interval
           \/ /\ result # "ok" /\ attempts[r] <= Count
              /\ Goto(r, "sleep")
              /\ interval' = [interval EXCEPT ![r] = backoff[r]]
    /\ UNCHANGED <<queue, tokens, backoff, spent>>

\* Faulty: errors are not tried again.
SendOnce(r) ==
    /\ pc[r] = "send"
    /\ Release(r)
    /\ attempts' = [attempts EXCEPT ![r] = @ + 1]
    /\ \E result \in {"ok", "retry", "error"} :
        /\ outcome' = [outcome EXCEPT ![r] = result]
        /\ \/ /\ result # "retry" \/ attempts[r] = Count
              /\ Goto(r, "done")
              /\ UNCHANGED interval
           \/ /\ result = "retry" /\ attempts[r] < Count
              /\ Goto(r, "sleep")
              /\ interval' = [interval EXCEPT ![r] = backoff[r]]
    /\ UNCHANGED <<queue, tokens, backoff, spent>>

\* The server answers or the timeout strikes.  Errors and statuses to retry are
\* tried again, after a sleep, while retries are left.
Send(r) ==
    /\ pc[r] = "send"
    /\ Release(r)
    /\ attempts' = [attempts EXCEPT ![r] = @ + 1]
    /\ \E result \in {"ok", "retry", "error"} :
        /\ outcome' = [outcome EXCEPT ![r] = result]
        /\ \/ /\ result = "ok" \/ attempts[r] = Count
              /\ Goto(r, "done")
              /\ UNCHANGED interval
           \/ /\ result # "ok" /\ attempts[r] < Count
              /\ Goto(r, "sleep")
              /\ interval' = [interval EXCEPT ![r] = backoff[r]]
    /\ UNCHANGED <<queue, tokens, backoff, spent>>

Shorter(m, n) == IF m <= n THEN m ELSE n

\* The sleep ends: the next interval grows and the next attempt starts.
Retry(r) ==
    /\ pc[r] = "sleep"
    /\ backoff' = [backoff EXCEPT ![r] = Shorter(@ * Factor, Cap)]
    /\ LineUp(r, AnySite)
    /\ Goto(r, "global")
    /\ UNCHANGED <<permits, tokens, attempts, interval, outcome, spent>>

\* A new window of a limiter begins.
Refill(l) ==
    /\ tokens[l] < Supply[l]
    /\ tokens' = [tokens EXCEPT ![l] = Supply[l]]
    /\ UNCHANGED <<pc, permits, queue, attempts, backoff, interval, outcome, spent>>

Step(r) ==
    \/ Start(r)
    \/ AcquireGlobal(r)
    \/ AcquireSite(r)
    \/ TakeSite(r)
    \/ TakeGlobal(r)
    \/ Send(r)
    \/ Retry(r)

Done == \A r \in Request : pc[r] = "done"

Next ==
    \/ \E r \in Request : Step(r)
    \/ \E l \in Limit : Refill(l)
    \/ Done /\ UNCHANGED vars

Spec == Init /\ [][Next]_vars

\* Requests run when they can, sends end (in an answer or the timeout), sleeps
\* end, and windows pass.
FairSpec ==
    /\ Spec
    /\ \A r \in Request : WF_vars(Step(r))
    /\ \A l \in Limit : WF_vars(Refill(l))

-----------------------------------------------------------------------------
\* Only the initial interval may pass the cap.
Interval == {Initial} \cup 0..Cap

TypeOK ==
    /\ pc \in [Request -> PC]
    /\ permits \in [Limit -> Nat] /\ \A l \in Limit : permits[l] <= Concurrency[l]
    /\ queue \in [Limit -> Seq(Request)]
    /\ tokens \in [Limit -> Nat] /\ \A l \in Limit : tokens[l] <= Supply[l]
    /\ attempts \in [Request -> 0..(Count + 1)]
    /\ backoff \in [Request -> Interval] /\ interval \in [Request -> Interval \cup {0}]
    /\ outcome \in [Request -> Outcome]
    /\ spent \in [Request -> [Limit -> Nat]]

\* The requests that hold a permit of each semaphore.
Holders(l) ==
    {r \in Request :
        IF l = AnySite
        THEN pc[r] \in {"site", "site_token", "global_token", "send"}
        ELSE SiteOf[r] = l /\ pc[r] \in {"site_token", "global_token", "send"}}

\* No permit leaks or is forged over retries, errors and timeouts, and a request
\* that sleeps between attempts occupies none.
PermitsBalance ==
    \A l \in Limit : permits[l] + Cardinality(Holders(l)) = Concurrency[l]

\* Every attempt, retries included, is paid with one token of each limiter that
\* applies, and no token is paid twice: what a request took in excess of its
\* attempts is for the attempt under way.
EveryAttemptPaid ==
    \A r \in Request :
        /\ spent[r][AnySite] = attempts[r] + (IF pc[r] = "send" THEN 1 ELSE 0)
        /\ SiteOf[r] \in Site =>
            spent[r][SiteOf[r]] =
                attempts[r] + (IF pc[r] \in {"global_token", "send"} THEN 1 ELSE 0)

\* A request gives up only with its retries exhausted, and never tries again
\* after a response that is not to be retried.
GivesUpOnlyExhausted ==
    \A r \in Request :
        /\ pc[r] = "done" => outcome[r] = "ok" \/ attempts[r] = Count + 1
        /\ pc[r] # "done" => outcome[r] # "ok"

\* Permits are taken in one order, global before site, so that requests of all
\* sites get through: each ends, with a response or an error.
EveryRequestEnds == <>[]Done

==============================================================================
