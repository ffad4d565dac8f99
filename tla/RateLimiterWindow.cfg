SPECIFICATION Spec
CONSTANTS
    Task = {t1, t2}
    Supply = 2
    Window = 2
    MaxTime = 7
INVARIANTS
    AtMostSupplyPerWindow
CHECK_DEADLOCK FALSE
