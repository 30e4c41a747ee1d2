----------------------------- MODULE SignLedger -----------------------------
(***************************************************************************)
(* The daily check-in ("sign") reward ledger of model/sign.go.             *)
(*                                                                         *)
(* A request of the HTTP handler controller.Sign runs model.DoSign, which  *)
(* is not atomic: it evaluates CheckUserSignEligibility (user record,      *)
(* group, registration window, then "signed today" as a count query on the *)
(* log table), then IncreaseUserQuota, then creates the sign log entry.    *)
(* Each of those is one step of the request below, so requests of the     *)
(* same user interleave between them, the clock moves on between them and  *)
(* an administrator may change common.QuotaForSign between them.           *)
(*                                                                         *)
(* Time is in seconds with a day of DaySeconds seconds; a day number is    *)
(* t \div DaySeconds (server-local midnight at multiples of DaySeconds).   *)
(***************************************************************************)
EXTENDS Integers, FiniteSets

CONSTANTS
    Users,          \* user ids
    Reqs,           \* request handlers that may run DoSign at the same time
    DaySeconds,     \* 24 * 60 * 60, abstracted
    SignInDays,     \* common.SignInDays
    QuotaValues,    \* values an administrator may give common.QuotaForSign
    SignGroupUsers, \* users whose group ratio_setting.IsGroupSignEnabled
    LegacyUsers,    \* users created before CreatedTime was recorded (0)
    StoreFaults,    \* whether the user and log stores may fail a call
    MaxTime,        \* bound on the clock
    MaxRequests     \* bound on the number of DoSign calls

ASSUME UsersAssumption == Users # {}
ASSUME ReqsAssumption == Reqs # {}
ASSUME DaySecondsAssumption == DaySeconds \in Nat \ {0}
ASSUME SignInDaysAssumption == SignInDays \in Nat
ASSUME QuotaValuesAssumption == QuotaValues \subseteq Nat /\ QuotaValues # {}
ASSUME UserSetsAssumption ==
    SignGroupUsers \subseteq Users /\ LegacyUsers \subseteq Users
ASSUME StoreFaultsAssumption == StoreFaults \in BOOLEAN
ASSUME BoundsAssumption == MaxTime \in Nat /\ MaxRequests \in Nat

VARIABLES
    now,            \* common.GetTimestamp()
    created,        \* user.CreatedTime; Unregistered before the user exists
    quotaForSign,   \* common.QuotaForSign
    balance,        \* user.Quota, counted from 0
    signLogs,       \* the log rows of type LogTypeSign
    grants,         \* history: every successful IncreaseUserQuota of DoSign
    pc,             \* the step each request handler is at
    reqUser,        \* DoSign's userId
    reqId,          \* which DoSign call the handler runs (1, 2, ...)
    reqQuota,       \* DoSign's local quota (line 116)
    issued          \* number of DoSign calls so far

vars == <<now, created, quotaForSign, balance, signLogs, grants,
          pc, reqUser, reqId, reqQuota, issued>>

\* CreatedTime of a user that does not exist yet; 0 is a legacy user
\* ("no registration time recorded").
Unregistered == -1

\* A sign log row (user_id, created_at, quota); id is the DoSign call that
\* wrote it, a history field that the Log table does not have.
Entry == [id : Nat, user : Users, at : Nat, quota : Nat]

\* The userId of a handler that runs no DoSign call.
NoUser == CHOOSE u \in Users : TRUE

DayOf(t) == t \div DaySeconds

\* GetTodayStartTimestamp, GetTodayEndTimestamp (23:59:59 of today).
TodayStart == DayOf(now) * DaySeconds
TodayEnd == TodayStart + DaySeconds - 1

\* (common.GetTimestamp() - user.CreatedTime) / (24 * 60 * 60); the
\* dividend is never negative, so Go's truncation is the floor.
RegisteredDays(u) == (now - created[u]) \div DaySeconds

\* Mutant: the query excludes the last second of the day.
HasUserSignedTodayExclusiveEnd(u) ==
    \E l \in signLogs : l.user = u /\ TodayStart <= l.at /\ l.at < TodayEnd

\* HasUserSignedToday: count of sign rows of u in [todayStart, todayEnd] > 0.
HasUserSignedToday(u) ==
    \E l \in signLogs : l.user = u /\ TodayStart <= l.at /\ l.at <= TodayEnd

\* Mutant: the window check compares with > instead of >=.
EligibilityReasonLateWindow(u) ==
    CASE quotaForSign <= 0              -> "disabled"
      [] u \notin SignGroupUsers         -> "group"
      [] created[u] <= 0                -> "noreg"
      [] RegisteredDays(u) > SignInDays -> "window"
      [] OTHER                          -> "ok"

\* The checks of CheckUserSignEligibility before "signed today", in the
\* code's order; "ok" when all pass.
EligibilityReason(u) ==
    CASE quotaForSign <= 0              -> "disabled"
      [] u \notin SignGroupUsers              -> "group"
      [] created[u] <= 0                -> "noreg"
      [] RegisteredDays(u) >= SignInDays -> "window"
      [] OTHER                          -> "ok"

-----------------------------------------------------------------------------
Init ==
    /\ now = 1
    /\ created = [u \in Users |-> IF u \in LegacyUsers THEN 0 ELSE Unregistered]
    /\ quotaForSign \in QuotaValues
    /\ balance = [u \in Users |-> 0]
    /\ signLogs = {}
    /\ grants = {}
    /\ pc = [r \in Reqs |-> "idle"]
    /\ reqUser = [r \in Reqs |-> NoUser]
    /\ reqId = [r \in Reqs |-> 0]
    /\ reqQuota = [r \in Reqs |-> 0]
    /\ issued = 0

\* A handler returns from DoSign; its locals are gone.
Return(r) ==
    /\ pc' = [pc EXCEPT ![r] = "idle"]
    /\ reqUser' = [reqUser EXCEPT ![r] = NoUser]
    /\ reqId' = [reqId EXCEPT ![r] = 0]
    /\ reqQuota' = [reqQuota EXCEPT ![r] = 0]

\* controller.Sign calls DoSign(userId) for a logged-in user u, which runs
\* CheckUserSignEligibility up to and including the window check; on a
\* failed check DoSign returns the reason and changes nothing.
DoSignCheckUser(r, u) ==
    /\ pc[r] = "idle"
    /\ issued < MaxRequests
    /\ created[u] # Unregistered
    /\ issued' = issued + 1
    /\ \/ /\ EligibilityReason(u) = "ok"
          /\ pc' = [pc EXCEPT ![r] = "today"]
          /\ reqId' = [reqId EXCEPT ![r] = issued + 1]
          /\ reqUser' = [reqUser EXCEPT ![r] = u]
       \/ /\ EligibilityReason(u) # "ok"
          /\ UNCHANGED <<pc, reqUser, reqId>>
       \/ /\ StoreFaults /\ quotaForSign > 0      \* GetUserById fails
          /\ UNCHANGED <<pc, reqUser, reqId>>
    /\ UNCHANGED <<now, created, quotaForSign, balance, signLogs, grants,
                   reqQuota>>

\* The "signed today" check of CheckUserSignEligibility.
DoSignCheckToday(r) ==
    /\ pc[r] = "today"
    /\ \/ /\ ~HasUserSignedToday(reqUser[r])
          /\ pc' = [pc EXCEPT ![r] = "quota"]
          /\ UNCHANGED <<reqUser, reqId, reqQuota>>
       \/ /\ HasUserSignedToday(reqUser[r])
          /\ Return(r)
       \/ /\ StoreFaults                            \* the count query fails
          /\ Return(r)
    /\ UNCHANGED <<now, created, quotaForSign, balance, signLogs, grants,
                   issued>>

\* Mutant: the error of IncreaseUserQuota does not return, so the sign row
\* is written anyway.
DoSignIncreaseQuotaNoReturn(r) ==
    LET u == reqUser[r]
        q == quotaForSign
    IN
    /\ pc[r] = "quota"
    /\ \/ /\ balance' = [balance EXCEPT ![u] = @ + q]
          /\ grants' = grants \cup
                {[id |-> reqId[r], user |-> u, at |-> now, quota |-> q]}
       \/ StoreFaults /\ UNCHANGED <<balance, grants>>
    /\ reqQuota' = [reqQuota EXCEPT ![r] = q]
    /\ pc' = [pc EXCEPT ![r] = "log"]
    /\ UNCHANGED <<now, created, quotaForSign, signLogs, issued, reqUser, reqId>>

\* Mutant: a failed IncreaseUserQuota is "rolled back" by subtracting the
\* quota it never added.
DoSignIncreaseQuotaRollback(r) ==
    LET u == reqUser[r]
        q == quotaForSign
    IN
    /\ pc[r] = "quota"
    /\ \/ /\ balance' = [balance EXCEPT ![u] = @ + q]
          /\ grants' = grants \cup
                {[id |-> reqId[r], user |-> u, at |-> now, quota |-> q]}
          /\ reqQuota' = [reqQuota EXCEPT ![r] = q]
          /\ pc' = [pc EXCEPT ![r] = "log"]
          /\ UNCHANGED <<reqUser, reqId>>
       \/ /\ StoreFaults
          /\ Return(r)
          /\ balance' = [balance EXCEPT ![u] = @ - q]
          /\ UNCHANGED grants
    /\ UNCHANGED <<now, created, quotaForSign, signLogs, issued>>

\* quota := common.QuotaForSign; IncreaseUserQuota(userId, quota, true);
\* the username lookup before it is best effort and changes nothing.
DoSignIncreaseQuota(r) ==
    LET u == reqUser[r]
        q == quotaForSign
    IN
    /\ pc[r] = "quota"
    /\ \/ /\ balance' = [balance EXCEPT ![u] = @ + q]
          /\ grants' = grants \cup
                {[id |-> reqId[r], user |-> u, at |-> now, quota |-> q]}
          /\ reqQuota' = [reqQuota EXCEPT ![r] = q]
          /\ pc' = [pc EXCEPT ![r] = "log"]
          /\ UNCHANGED <<reqUser, reqId>>
       \/ /\ StoreFaults                            \* returns the error
          /\ Return(r)
          /\ UNCHANGED <<balance, grants>>
    /\ UNCHANGED <<now, created, quotaForSign, signLogs, issued>>

\* LOG_DB.Create of the sign row stamped common.GetTimestamp(); a failure is
\* only written to the system log and DoSign still reports success.
DoSignWriteLog(r) ==
    /\ pc[r] = "log"
    /\ \/ signLogs' = signLogs \cup
            {[id |-> reqId[r], user |-> reqUser[r], at |-> now,
              quota |-> reqQuota[r]]}
       \/ StoreFaults /\ UNCHANGED signLogs
    /\ Return(r)
    /\ UNCHANGED <<now, created, quotaForSign, balance, grants, issued>>

-----------------------------------------------------------------------------
(* The environment: the clock, user registration and the administrator.   *)

Tick ==
    /\ now < MaxTime
    /\ now' = now + 1
    /\ UNCHANGED <<created, quotaForSign, balance, signLogs, grants,
                   pc, reqUser, reqId, reqQuota, issued>>

\* A new user is created with CreatedTime = now.
Register(u) ==
    /\ created[u] = Unregistered
    /\ created' = [created EXCEPT ![u] = now]
    /\ UNCHANGED <<now, quotaForSign, balance, signLogs, grants,
                   pc, reqUser, reqId, reqQuota, issued>>

\* An option update writes common.QuotaForSign; DoSign reads it unlocked.
SetQuotaForSign(v) ==
    /\ v # quotaForSign
    /\ quotaForSign' = v
    /\ UNCHANGED <<now, created, balance, signLogs, grants,
                   pc, reqUser, reqId, reqQuota, issued>>

\* The bounds are exhausted and every handler has returned.
Terminated ==
    /\ issued = MaxRequests
    /\ now = MaxTime
    /\ \A r \in Reqs : pc[r] = "idle"
    /\ UNCHANGED vars

Next ==
    \/ \E r \in Reqs :
          \/ \E u \in Users : DoSignCheckUser(r, u)
          \/ DoSignCheckToday(r)
          \/ DoSignIncreaseQuota(r)
          \/ DoSignWriteLog(r)
    \/ Tick
    \/ \E u \in Users : Register(u)
    \/ \E v \in QuotaValues : SetQuotaForSign(v)
    \/ Terminated

Spec == Init /\ [][Next]_vars

-----------------------------------------------------------------------------
TypeOK ==
    /\ now \in Nat
    /\ created \in [Users -> {Unregistered} \cup Nat]
    /\ quotaForSign \in QuotaValues
    /\ balance \in [Users -> Nat]
    /\ signLogs \subseteq Entry
    /\ grants \subseteq Entry
    /\ pc \in [Reqs -> {"idle", "today", "quota", "log"}]
    /\ reqUser \in [Reqs -> Users]
    /\ reqId \in [Reqs -> Nat]
    /\ reqQuota \in [Reqs -> Nat]
    /\ issued \in Nat

\* Every sign row in the audit log stands for quota that DoSign really
\* added: the same call granted the same amount to the same user no later
\* than the row's timestamp.  It rests on DoSign increasing the quota before
\* writing the row and returning when IncreaseUserQuota fails.
AuditBackedByGrant ==
    \A l \in signLogs :
        \E g \in grants : /\ g.id = l.id
                          /\ g.user = l.user
                          /\ g.quota = l.quota
                          /\ g.at <= l.at

\* A user is rewarded at most once per calendar day (spec section 5): no two
\* successful IncreaseUserQuota calls of DoSign for one user on one day.
AtMostOneGrantPerDay ==
    \A g, h \in grants :
        (g.user = h.user /\ DayOf(g.at) = DayOf(h.at)) => g = h

\* The registration window bounds the number of rewards of a client that
\* waits for each reply: at most SignInDays + 2.  The window of SignInDays
\* times 24 hours touches SignInDays + 1 calendar days, and the last call
\* may pass the window check (line 66) before midnight and the "signed
\* today" query (line 85) after it, on a day the window no longer covers.
GrantsWithinWindow ==
    \A u \in Users : Cardinality({g \in grants : g.user = u}) <= SignInDays + 2

\* The registration window as the spec states it: a user is rewarded on at
\* most SignInDays days (section 3, scenario B).
GrantsWithinSignInDays ==
    \A u \in Users : Cardinality({g \in grants : g.user = u}) <= SignInDays

\* A disabled feature (QuotaForSign <= 0) gives no rewards (section 4.2):
\* every reward of DoSign is a positive amount.
NoGrantWhileDisabled ==
    \A g \in grants : g.quota > 0

=============================================================================
