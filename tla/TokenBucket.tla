----------------------------- MODULE TokenBucket -----------------------------
(***************************************************************************)
(* What a rate limiter promises in the long run, without its atomics: time *)
(* is cut into windows, each window that begins adds at most Supply grants *)
(* to the budget, and a grant spends one.  Unspent grants may be lost.     *)
(* RateLimiter implements this specification.                              *)
(***************************************************************************)
EXTENDS Naturals

CONSTANT Supply     \* Grants per window, at least one.

VARIABLES
    credited,   \* Number of the last window whose supply was credited.
    budget,     \* Grants that may still be given.
    granted     \* Grants given so far.

vars == <<credited, budget, granted>>

Init ==
    /\ credited = 0
    /\ budget = Supply
    /\ granted = 0

\* A later window is credited; the windows skipped in between bring nothing.
Credit ==
    /\ credited' \in Nat
    /\ credited' > credited
    /\ budget' = budget + Supply
    /\ UNCHANGED granted

\* Leftovers are lost when a refill overwrites them.
Lose ==
    /\ budget' \in Nat
    /\ budget' < budget
    /\ UNCHANGED <<credited, granted>>

Grant ==
    /\ budget > 0
    /\ budget' = budget - 1
    /\ granted' = granted + 1
    /\ UNCHANGED credited

Next == Credit \/ Lose \/ Grant

Spec == Init /\ [][Next]_vars

==============================================================================
