\* A DoSign call completes between the queries of one GetUserSignInfo call.
CONSTANTS
    u1 = u1
    u2 = u2
    u3 = u3
    r1 = r1
    r2 = r2
    v1 = v1
    v2 = v2
    Users <- MCOneUser
    Reqs <- MCOneReq
    Views <- MCOneView
    SignGroupUsers = {u1}
    LegacyUsers = {}
    DaySeconds = 2
    SignInDays = 2
    QuotaValues = {2}
    StoreFaults = FALSE
    MaxTime = 4
    MaxRequests = 2
    LegacyLookbackDays = 30
SPECIFICATION InfoSpec
INVARIANT ViewCoherent
