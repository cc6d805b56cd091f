\* Two links, two checks at a time; one release, and nothing fails.
CONSTANTS
    link = link
    trap = trap
    blanks = blanks
    Codes = {link, trap, blanks}
    Trim <- MCTrim
    Urls <- MCUrls
    Domains = {"shop", "evil"}
    Blocklists = {{"evil"}}
    Checks = {k1, k2}
    MaxEntries = 2
    Absent = Absent
    Faults = {}
SPECIFICATION Spec
INVARIANT
    SheetShowsItsCode
