SPECIFICATION FairSpec
CONSTANTS
    Unset = Unset
    Garbage = Garbage
    Bad = Bad
    Default = Default
    Value <- MCValue
    Header = {"agent", "accept"}
    Written <- MCWritten
    Target <- MCTarget
    Cases <- MCCases
    TestUrl <- MCTestUrl
INVARIANTS
    NearestFileWins
    NearestParentWins
    LongestRootWins
    StopsForCause
PROPERTIES
    EveryConfigEnds
CHECK_DEADLOCK FALSE
