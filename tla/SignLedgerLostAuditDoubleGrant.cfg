\* One call at a time, a failing log store: a lost sign row lets the user sign again.
CONSTANTS
    u1 = u1
    u2 = u2
    r1 = r1
    r2 = r2
    Users <- MCOneUser
    Reqs <- MCOneReq
    SignGroupUsers = {u1}
    LegacyUsers = {}
    DaySeconds = 2
    SignInDays = 2
    QuotaValues = {2}
    StoreFaults = TRUE
    MaxTime = 4
    MaxRequests = 3
SPECIFICATION Spec
INVARIANT AtMostOneGrantPerDay
