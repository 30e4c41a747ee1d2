\* The card and the modal on one page, failing stores, the reward switched off and on: the shown balance never runs ahead, and every spinner stops.
CONSTANTS
    u1 = u1
    u2 = u2
    r1 = r1
    r2 = r2
    Users <- MCOneUser
    Reqs <- MCTwoReqs
    Me = u1
    SignGroupUsers = {u1}
    LegacyUsers = {}
    DaySeconds = 2
    SignInDays = 2
    QuotaValues = {0, 2}
    StoreFaults = TRUE
    MaxTime = 3
    MaxRequests = 2
SPECIFICATION ClientSpec
INVARIANT DisplayedQuotaNeverAhead
PROPERTY SignSettles
