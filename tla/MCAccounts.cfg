\* Two users, three requests; statements and the process fail.
CONSTANTS
    a = a
    A = A
    b = b
    UserIds = {u1, u2}
    Emails <- MCEmails
    Fold <- MCFold
    Passwords = {p, q}
    Requests = {r1, r2, r3}
    Absent = Absent
    Faults = {"postgres", "crash"}
SPECIFICATION Spec
SYMMETRY Symmetry
INVARIANTS
    TypeOK
    EmailNamesOneUser
    TokensHold
PROPERTIES
    SettledForGood
    CredentialsTogether
