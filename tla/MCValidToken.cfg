\* One launch after another; nothing fails.
CONSTANTS
    Guests = {g1, g2}
    Runs = {r1}
    Calls = {c1}
    Absent = Absent
    Faults = {}
SPECIFICATION FairSpec
PROPERTY
    ValidTokenIsKept
