SPECIFICATION Spec
CONSTANTS
    Unset = Unset
    Garbage = Garbage
    Bad = Bad
    Default = Default
    Value <- MCValue
    Header = {"agent", "accept"}
    Written <- MCWritten
    Target <- MCTarget
    Cases <- MCCases
    TestUrl <- MCTestUrl
INVARIANTS
    InheritsFromIgnored
CHECK_DEADLOCK FALSE
