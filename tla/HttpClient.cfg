SPECIFICATION FairSpec
CONSTANTS
    Task = {t1, t2}
    r1 = r1
    r2 = r2
    r3 = r3
    a = a
    b = b
    c = c
    d = d
    e = e
    Url <- MCUrl
    RobotsUrl <- MCRobotsUrl
    RobotsOf <- MCRobotsOf
    Serves <- MCServes
    Program <- MCProgram
    Persisted = {a}
    MaxRedirects = 2
INVARIANTS
    TypeOK
    FetchedOnce
    SameVerdict
    Vetted
    NoDeadlock
PROPERTIES
    SlotsAreFinal
    EveryGetReturns
