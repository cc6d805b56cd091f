\* Two links and a code of blanks, two checks at a time, two releases; everything fails.
CONSTANTS
    link = link
    trap = trap
    blanks = blanks
    Codes = {link, trap, blanks}
    Trim <- MCTrim
    Urls <- MCUrls
    Domains = {"shop", "evil"}
    Blocklists <- MCBlocklists
    Checks = {k1, k2}
    MaxEntries = 2
    Absent = Absent
    Faults = {"network", "redis", "start", "stop"}
SPECIFICATION FairSpec
INVARIANTS
    TypeOK
    
    VerdictsHold
PROPERTIES
    SpinnerStops
    BlocklistTakesEffect
