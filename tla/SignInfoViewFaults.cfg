\* One DoSign handler, one view, failing stores, the reward switched off and on: a view built while nothing it reads changes is coherent.
CONSTANTS
    u1 = u1
    u2 = u2
    u3 = u3
    r1 = r1
    r2 = r2
    v1 = v1
    v2 = v2
    Users <- MCThreeUsers
    Reqs <- MCOneReq
    Views <- MCOneView
    SignGroupUsers = {u1, u2}
    LegacyUsers = {u2}
    DaySeconds = 2
    SignInDays = 2
    QuotaValues = {0, 2}
    StoreFaults = TRUE
    MaxTime = 4
    MaxRequests = 2
    LegacyLookbackDays = 30
SPECIFICATION InfoSpec
INVARIANT ViewCoherentWhenQuiet
