\* One call at a time, stores that never fail: one reward a day, the window bound, and the calendar against its reference (u2 is a legacy user on the 30-day look-back).
CONSTANTS
    u1 = u1
    u2 = u2
    r1 = r1
    r2 = r2
    Users <- MCTwoUsers
    Reqs <- MCOneReq
    SignGroupUsers = {u1}
    LegacyUsers = {u2}
    DaySeconds = 2
    SignInDays = 2
    QuotaValues = {2}
    StoreFaults = FALSE
    MaxTime = 8
    MaxRequests = 5
    LegacyLookbackDays = 30
SPECIFICATION Spec
INVARIANT GrantsWithinWindow
INVARIANT CalendarMatchesReference
PROPERTY SignOnceSpec
