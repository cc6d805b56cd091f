\* Two requests and a visit under fairness; nothing fails.
CONSTANTS
    Users = {u1}
    CodeIds = {i1, i2}
    Slugs = {s1}
    Dests = {d1, d2}
    Labels = {l1}
    Absent = Absent
    Requests = {r1, r2}
    Visits = {v1}
    Malicious = {}
    MaxSlugAttempts = 2
    MaxScans = 1
    Faults = {}
SPECIFICATION FairSpec
PROPERTIES
    RequestsEnd
    EventuallyConsistent
