\* Two calls in flight, failing stores, the administrator changing the reward: the audit log never overstates.
CONSTANTS
    u1 = u1
    u2 = u2
    r1 = r1
    r2 = r2
    Users <- MCTwoUsers
    Reqs <- MCTwoReqs
    SignGroupUsers = {u1, u2}
    LegacyUsers = {}
    DaySeconds = 2
    SignInDays = 2
    QuotaValues = {0, 2}
    StoreFaults = TRUE
    MaxTime = 4
    MaxRequests = 3
SPECIFICATION Spec
INVARIANT TypeOK
INVARIANT AuditBackedByGrant
