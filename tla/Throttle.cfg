SPECIFICATION FairSpec
CONSTANTS
    r1 = r1
    r2 = r2
    r3 = r3
    s = s
    AnySite = AnySite
    Request = {r1, r2, r3}
    Site = {s}
    SiteOf <- MCSiteOf
    Concurrency <- MCConcurrency
    Supply <- MCSupply
    Count = 2
    Initial = 3
    Cap = 2
    Factor = 2
INVARIANTS
    TypeOK
    PermitsBalance
    EveryAttemptPaid
    GivesUpOnlyExhausted
PROPERTIES
    EveryRequestEnds
