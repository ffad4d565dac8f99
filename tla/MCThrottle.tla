----------------------------- MODULE MCThrottle ------------------------------
(***************************************************************************)
(* Three requests, two of them to a site with limits of its own.           *)
(***************************************************************************)
EXTENDS Throttle, TLC

CONSTANTS r1, r2, r3, s

MCSiteOf == (r1 :> s) @@ (r2 :> s) @@ (r3 :> AnySite)
MCConcurrency == (AnySite :> 2) @@ (s :> 1)
MCSupply == (AnySite :> 2) @@ (s :> 1)

==============================================================================
