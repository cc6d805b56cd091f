\* Three codes of two guests, one to a page, two calls at a time, and calls get lost.
CONSTANTS
    MaxCodes = 3
    PageSize = 1
    Opened = {2}
    Contents = {c1, c2}
    Original = c1
    Calls = {k1, k2}
    MaxGuests = 2
    Absent = Absent
SYMMETRY CallSymmetry
SPECIFICATION Spec
INVARIANTS
    TypeOK
    ListAgrees
    DetailsAgree
    NothingHangs
