\* One call at a time: a call checked before the window closes writes its row after the calendar's last day.
CONSTANTS
    u1 = u1
    u2 = u2
    r1 = r1
    r2 = r2
    Users <- MCOneUser
    Reqs <- MCOneReq
    SignGroupUsers = {u1}
    LegacyUsers = {}
    DaySeconds = 2
    SignInDays = 2
    QuotaValues = {2}
    StoreFaults = FALSE
    MaxTime = 8
    MaxRequests = 5
    LegacyLookbackDays = 30
SPECIFICATION Spec
INVARIANT CalendarShowsEverySignedDay
