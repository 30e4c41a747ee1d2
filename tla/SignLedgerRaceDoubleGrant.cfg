\* Two calls in flight for one user: the check-then-act race.
CONSTANTS
    u1 = u1
    u2 = u2
    r1 = r1
    r2 = r2
    Users <- MCOneUser
    Reqs <- MCTwoReqs
    SignGroupUsers = {u1}
    LegacyUsers = {}
    DaySeconds = 2
    SignInDays = 2
    QuotaValues = {2}
    StoreFaults = FALSE
    MaxTime = 4
    MaxRequests = 3
SPECIFICATION Spec
INVARIANT AtMostOneGrantPerDay
