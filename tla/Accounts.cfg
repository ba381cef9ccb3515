SPECIFICATION Spec
CONSTANTS
    Users = {u1, u2, u3}
    Admins = {u1, u2}
    NoUser = NoUser
    Sids = {s1, s2}
    NoSid = NoSid
    Calls = {c1, c2}
    Threshold = 1
    MaxAttempts = 2
    MaxPasswords = 1
    MaxTokens = 1
    MaxCalls = 4
    MaxFaults = 1
SYMMETRY Symmetry
INVARIANTS TypeOK ThresholdLocks OldPasswordIsOut
PROPERTIES RevocationIsFinal BarredStaysOut LastAdminFalls
CHECK_DEADLOCK FALSE
