\* A slug drawn twice, up to three of its scans over two days, one report.
CONSTANTS
    Users = {u1}
    CodeIds = {i1, i2}
    Slugs = {s1}
    Dests = {d1}
    Labels = {l1}
    Absent = Absent
    Visits = {v1, v2}
    Reports = {a1}
    Clients <- MCClients
    Days = {1, 2}
    TopLimit = 1
    MaxScans = 3
SPECIFICATION Spec
INVARIANTS
    ReportAgrees
    OwnScans
    ScansAccountedFor
