SPECIFICATION Spec
CONSTANTS
    Users = {u1}
    Admins = {u1}
    NoUser = NoUser
    Sids = {s1, s2}
    NoSid = NoSid
    Calls = {c1, c2}
    Threshold = 1
    MaxAttempts = 1
    MaxPasswords = 1
    MaxTokens = 1
    MaxCalls = 3
    MaxFaults = 0
INVARIANT ChangeEndsPriorSessions
CHECK_DEADLOCK FALSE
