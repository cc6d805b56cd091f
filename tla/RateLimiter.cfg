\* Three requests of two addresses over windows of two seconds.
CONSTANTS
    Keys = {k1, k2}
    Requests = {r1, r2, r3}
    Limit = 2
    Window = 2
    MaxDelay = 1
    MaxTries = 2
    MaxTime = 5
    Absent = Absent
SPECIFICATION FairSpec
INVARIANTS
    WindowBound
    NoUnjustBlock
PROPERTIES
    CountersGo
\* The requests and the clock come to an end.
CHECK_DEADLOCK FALSE
