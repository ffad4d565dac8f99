---------------------------- MODULE RateLimiter ------------------------------
(***************************************************************************)
(* The token bucket of muffy/src/rate_limiter.rs.  Futures share two       *)
(* atomics, `token_count` and `window_count`, that no lock ties together:  *)
(* a future that wins the compare-exchange on the window refills the       *)
(* tokens in a later, separate step, so other futures, and the clock, can  *)
(* move in between.  One action is one atomic access or one clock read.    *)
(*                                                                         *)
(* `now` is `time.elapsed()` in ticks.  The runtime gives no bound on how  *)
(* long a step may take, so Tick can happen anywhere.                      *)
(***************************************************************************)
EXTENDS Naturals, FiniteSets

CONSTANTS
    Task,       \* Futures that run under the limiter at the same time.
    Supply,     \* RateLimiter::supply.
    Window,     \* RateLimiter::window, in ticks.
    MaxTime     \* Bound on the clock.

ASSUME TaskAssumption == IsFiniteSet(Task)
ASSUME SupplyAssumption == Supply \in Nat \ {0}
ASSUME WindowAssumption == Window \in Nat \ {0}
ASSUME MaxTimeAssumption == MaxTime \in Nat

VARIABLES
    tokens,         \* token_count.
    windowCount,    \* window_count.
    now,            \* time.elapsed().
    pc,             \* What each future does next.
    old,            \* add_supply: the window count it loaded.
    new,            \* add_supply: the window it computed.
    duration,       \* How long a future is about to sleep, and ...
    deadline,       \* ... when it wakes up: both 0 outside of `sleep`.
    granted,        \* History: futures let through so far ...
    burst,          \* ... and in the current window of the clock, ...
    refused         \* ... and the window in which one that sleeps found no token.

sleepVars == <<duration, deadline, refused>>
vars == <<tokens, windowCount, now, pc, old, new, granted, burst, sleepVars>>

PC == {"idle", "load", "elapsed", "exchange", "store", "take", "remainder", "sleep",
       "asleep", "run"}

Init ==
    /\ tokens = Supply
    /\ windowCount = 0
    /\ now = 0
    /\ pc = [t \in Task |-> "idle"]
    /\ old = [t \in Task |-> 0]
    /\ new = [t \in Task |-> 0]
    /\ duration = [t \in Task |-> 0]
    /\ deadline = [t \in Task |-> 0]
    /\ granted = 0
    /\ burst = 0
    /\ refused = [t \in Task |-> 0]

\* The window the clock is in.
CurrentWindow == now \div Window

Goto(t, label) == pc' = [pc EXCEPT ![t] = label]

-----------------------------------------------------------------------------
Run(t) ==
    /\ pc[t] = "idle"
    /\ Goto(t, "load")
    /\ UNCHANGED <<tokens, windowCount, now, old, new, granted, burst, sleepVars>>

LoadWindow(t) ==
    /\ pc[t] = "load"
    /\ old' = [old EXCEPT ![t] = windowCount]
    /\ Goto(t, "elapsed")
    /\ UNCHANGED <<tokens, windowCount, now, new, granted, burst, sleepVars>>

ReadElapsed(t) ==
    /\ pc[t] = "elapsed"
    /\ new' = [new EXCEPT ![t] = CurrentWindow]
    /\ Goto(t, IF CurrentWindow > old[t] THEN "exchange" ELSE "take")
    /\ UNCHANGED <<tokens, windowCount, now, old, granted, burst, sleepVars>>

\* Faulty: the window is stored, not compared and exchanged.
ExchangeAlways(t) ==
    /\ pc[t] = "exchange"
    /\ windowCount' = new[t]
    /\ Goto(t, "store")
    /\ UNCHANGED <<tokens, now, old, new, granted, burst, sleepVars>>

ExchangeWindow(t) ==
    /\ pc[t] = "exchange"
    /\ \/ /\ windowCount = old[t]
          /\ windowCount' = new[t]
          /\ Goto(t, "store")
       \/ /\ windowCount # old[t]
          /\ Goto(t, "take")
          /\ UNCHANGED windowCount
    /\ UNCHANGED <<tokens, now, old, new, granted, burst, sleepVars>>

\* Faulty: the supply is added to the tokens that are left.
AddSupply(t) ==
    /\ pc[t] = "store"
    /\ tokens' = tokens + Supply
    /\ Goto(t, "take")
    /\ UNCHANGED <<windowCount, now, old, new, granted, burst, sleepVars>>

StoreSupply(t) ==
    /\ pc[t] = "store"
    /\ tokens' = Supply
    /\ Goto(t, "take")
    /\ UNCHANGED <<windowCount, now, old, new, granted, burst, sleepVars>>

\* The fetch_update that decrements the tokens, or fails on zero.
TakeToken(t) ==
    /\ pc[t] = "take"
    /\ \/ /\ tokens > 0
          /\ tokens' = tokens - 1
          /\ granted' = granted + 1
          /\ burst' = burst + 1
          /\ Goto(t, "run")
          /\ UNCHANGED refused
       \/ /\ tokens = 0
          /\ Goto(t, "remainder")
          /\ refused' = [refused EXCEPT ![t] = CurrentWindow]
          /\ UNCHANGED <<tokens, granted, burst>>
    /\ UNCHANGED <<windowCount, now, old, new, duration, deadline>>

\* Faulty: the sleep is to last for what has passed of the window.
ReadPassed(t) ==
    /\ pc[t] = "remainder"
    /\ duration' = [duration EXCEPT ![t] = now % Window]
    /\ Goto(t, "sleep")
    /\ UNCHANGED <<tokens, windowCount, now, old, new, granted, burst, deadline, refused>>

\* The sleep is to last for what the clock, read again, leaves of its window ...
ReadRemainder(t) ==
    /\ pc[t] = "remainder"
    /\ duration' = [duration EXCEPT ![t] = Window - (now % Window)]
    /\ Goto(t, "sleep")
    /\ UNCHANGED <<tokens, windowCount, now, old, new, granted, burst, deadline, refused>>

\* ... and lasts that long from a reading of the timer's own: what passes
\* between the two readings is slept past the boundary.
Sleep(t) ==
    /\ pc[t] = "sleep"
    /\ deadline' = [deadline EXCEPT ![t] = now + duration[t]]
    /\ duration' = [duration EXCEPT ![t] = 0]
    /\ Goto(t, "asleep")
    /\ UNCHANGED <<tokens, windowCount, now, old, new, granted, burst, refused>>

Wake(t) ==
    /\ pc[t] = "asleep"
    /\ now >= deadline[t]
    /\ deadline' = [deadline EXCEPT ![t] = 0]
    /\ refused' = [refused EXCEPT ![t] = 0]
    /\ Goto(t, "load")
    /\ UNCHANGED <<tokens, windowCount, now, old, new, granted, burst, duration>>

\* The limited future completes.
Complete(t) ==
    /\ pc[t] = "run"
    /\ Goto(t, "idle")
    /\ UNCHANGED <<tokens, windowCount, now, old, new, granted, burst, sleepVars>>

Tick ==
    /\ now < MaxTime
    /\ now' = now + 1
    /\ burst' = IF now' \div Window > CurrentWindow THEN 0 ELSE burst
    /\ UNCHANGED <<tokens, windowCount, pc, old, new, granted, sleepVars>>

Step(t) ==
    \/ Run(t)
    \/ LoadWindow(t)
    \/ ReadElapsed(t)
    \/ ExchangeWindow(t)
    \/ StoreSupply(t)
    \/ TakeToken(t)
    \/ ReadRemainder(t)
    \/ Sleep(t)
    \/ Wake(t)
    \/ Complete(t)

Next == Tick \/ \E t \in Task : Step(t)

Spec == Init /\ [][Next]_vars

-----------------------------------------------------------------------------
\* Futures that have claimed a window and not stored its supply yet.
Refilling == {t \in Task : pc[t] = "store"}

\* Every variable keeps its type; the tokens never exceed the supply, and
\* neither a claimed nor a computed window lies in the future.
TypeOK ==
    /\ tokens \in 0..Supply
    /\ now \in 0..MaxTime
    /\ windowCount \in 0..CurrentWindow
    /\ pc \in [Task -> PC]
    /\ old \in [Task -> Nat]
    /\ new \in [Task -> Nat]
    /\ \A t \in Task : old[t] <= windowCount /\ new[t] <= CurrentWindow
    /\ duration \in [Task -> 0..Window]
    /\ deadline \in [Task -> Nat]
    /\ granted \in Nat
    /\ burst \in 0..granted
    /\ refused \in [Task -> 0..CurrentWindow]

\* However the two atomics interleave, the limiter never lets through more
\* futures than the supplies of the windows begun so far: a late store can
\* move grants from one window to another but can never mint one.
LongRunBound == granted <= Supply * (1 + CurrentWindow)

\* What the late stores can do at worst: within one window of the clock, the
\* window's own supply and one late refill (or the leftovers of earlier
\* windows) for each future that runs under the limiter.
BurstBound == burst <= Supply * (Cardinality(Task) + 1)

\* "A rate limit allows only a given number of requests in each time window"
\* (doc/src/content/docs/configuration.md): the documented promise of `run`.
AtMostSupplyPerWindow == burst <= Supply

\* A future that found no token wakes up in a later window than the one that
\* refused it, so that it never polls an empty bucket within a window, and at
\* the latest in the one after that in which it falls asleep (the `sleep` in
\* `run`).  It may wake up well after the boundary, though: its duration and its
\* deadline come from two readings of the clock.
SleepsIntoLaterWindow ==
    \A t \in Task : pc[t] = "asleep" =>
        deadline[t] \div Window \in (refused[t] + 1)..(CurrentWindow + 1)

\* The budget behind LongRunBound: what was granted, what can be taken and what
\* is still to be stored together never exceed the supplies of the claimed
\* windows (the compare-exchange admits one winner per window).
LongRunBudget ==
    granted + tokens + Supply * Cardinality(Refilling) <= Supply * (1 + windowCount)

\* Futures whose refill is late: the window they claimed, or are the only ones
\* able to claim, may be over when they store its supply.
Late(t) == pc[t] = "exchange" /\ old[t] = windowCount /\ new[t] < CurrentWindow
Claims == {t \in Task : pc[t] = "store" \/ Late(t)}

\* Tokens are out of reach while every future is late with a refill that will
\* overwrite them.
Usable == IF Claims = Task THEN 0 ELSE tokens

\* The supply that the current window has not brought yet.
Fresh == IF windowCount < CurrentWindow THEN Supply ELSE 0

\* The budget behind BurstBound.
BurstBudget ==
    burst + Usable + Supply * Cardinality(Claims) + Fresh
        <= Supply * (Cardinality(Task) + 1)

\* No store is ever lost: a window that was claimed brings its supply, so
\* the budget of grants moves only as the abstract bucket allows.
Bucket == INSTANCE TokenBucket WITH
    credited <- windowCount,
    budget <- tokens + Supply * Cardinality(Refilling)

ImplementsBucket == Bucket!Spec

==============================================================================
