\* One call at a time while the administrator switches the feature off.
CONSTANTS
    u1 = u1
    u2 = u2
    r1 = r1
    r2 = r2
    Users <- MCOneUser
    Reqs <- MCOneReq
    SignGroupUsers = {u1}
    LegacyUsers = {}
    DaySeconds = 2
    SignInDays = 2
    QuotaValues = {0, 2}
    StoreFaults = FALSE
    MaxTime = 3
    MaxRequests = 2
SPECIFICATION Spec
INVARIANT NoGrantWhileDisabled
