\* Nothing fails: one owner, one visitor, one slug.
CONSTANTS
    Users = {u1}
    CodeIds = {i1}
    Slugs = {s1}
    Dests = {d1, d2}
    Labels = {l1}
    Absent = Absent
    Requests = {r1}
    Visits = {v1}
    Malicious = {}
    MaxSlugAttempts = 2
    MaxScans = 0
    Faults = {}
SPECIFICATION Spec
INVARIANT
    ResolveIsCurrent
