\* Two users' requests and a visitor over one slug; everything may fail.
CONSTANTS
    Users = {u1, u2}
    CodeIds = {i1, i2}
    Slugs = {s1}
    Dests = {d1, d2, bad}
    Labels = {l1}
    Absent = Absent
    Requests = {r1, r2}
    Visits = {v1}
    Malicious = {bad}
    MaxSlugAttempts = 2
    MaxScans = 0
    Faults = {"postgres", "redis", "crash"}
SPECIFICATION Spec
SYMMETRY Symmetry
INVARIANTS
    TypeOK
    RowsAgree
    StaleIsExplained
    NoUnsafeTarget
PROPERTIES
    OnlyOwnerWrites
    NotFoundIsFinal
    ImplementsDirectory
