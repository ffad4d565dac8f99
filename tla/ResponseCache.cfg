SPECIFICATION Spec
CONSTANTS
    MaxAge = 1
    Stale = 2
    MaxTime = 8
INVARIANTS
    NeverTooStale
    BadAnswersAreFresh
    NewestIsKept
    AnswerStaysStored
