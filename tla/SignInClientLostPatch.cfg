\* The card and the modal both sign: the shown balance after both replies.
CONSTANTS
    u1 = u1
    u2 = u2
    r1 = r1
    r2 = r2
    Users <- MCOneUser
    Reqs <- MCTwoReqs
    Me = u1
    SignGroupUsers = {u1}
    LegacyUsers = {}
    DaySeconds = 2
    SignInDays = 2
    QuotaValues = {2}
    StoreFaults = FALSE
    MaxTime = 4
    MaxRequests = 2
SPECIFICATION ClientSpec
INVARIANT DisplayedQuotaCatchesUp
