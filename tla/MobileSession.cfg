\* Three guests, two requests; network, storage and the app itself fail.
CONSTANTS
    Guests = {g1, g2, g3}
    Runs = {r1, r2}
    Calls = {c1, c2}
    Absent = Absent
    Faults = {"network", "storage"}
SPECIFICATION FairSpec
INVARIANTS
    TypeOK
    ReadyHasToken
    CallsCarryTheirUser
PROPERTY
    BootstrapEnds
