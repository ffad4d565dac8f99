SPECIFICATION Spec
CONSTANTS
    Task = {t1, t2}
    r1 = r1
    r2 = r2
    r3 = r3
    a = a
    b = b
    c = c
    d = d
    e = e
    Url <- MCUrl
    RobotsUrl <- MCRobotsUrl
    RobotsOf <- MCRobotsOf
    Serves <- ShortLinkServes
    Program <- ShortLinkProgram
    Persisted = {}
    MaxRedirects = 2
INVARIANTS
    NoDeadlock
