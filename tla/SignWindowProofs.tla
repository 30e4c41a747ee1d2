-------------------------- MODULE SignWindowProofs --------------------------
(***************************************************************************)
(* Proof that a user is rewarded at most SignInDays + 2 times when DoSign *)
(* calls run one at a time and the stores do not fail.                     *)
(*                                                                         *)
(* The window check of CheckUserSignEligibility (sign.go:66) lets a call   *)
(* through only while fewer than SignInDays whole days have passed since  *)
(* CreatedTime, so every check falls on a day no later than                *)
(* LastWindowDay.  Rewards are on distinct days (OneRewardPerDay); all but *)
(* one lie between the registration day and LastWindowDay, at most        *)
(* SignInDays + 1 days, and one more may follow when the clock passes     *)
(* midnight between the check and IncreaseUserQuota.                       *)
(***************************************************************************)
EXTENDS SignOnceProofs

\* The day of the last second at which the window check still passes.
LastWindowDay(u) == DayOf(created[u] + SignInDays * DaySeconds - 1)

\* The rewards of user u.
GrantsOf(u) == {g \in grants : g.user = u}

\* No user is registered after the clock.
CreatedNotAhead == \A u \in Users : created[u] <= now

\* A rewarded user was registered (CreatedTime > 0) no later than each of
\* its rewards.
GrantsAfterRegistration ==
    \A g \in grants : created[g.user] \in Nat \ {0} /\ created[g.user] <= g.at

\* A handler past the window check holds a registered user none of whose
\* rewards is past its window.
PendingInWindow(r) ==
    pc[r] \in {"today", "quota"} =>
        /\ created[reqUser[r]] \in Nat \ {0}
        /\ \A g \in GrantsOf(reqUser[r]) : DayOf(g.at) <= LastWindowDay(reqUser[r])

\* At most one reward of a user is past its window.
OneLateGrant ==
    \A g, h \in grants :
        (/\ g.user = h.user
         /\ DayOf(g.at) > LastWindowDay(g.user)
         /\ DayOf(h.at) > LastWindowDay(h.user)) => g = h

WindowInv(r) ==
    /\ OnceInv(r)
    /\ CreatedNotAhead
    /\ GrantsAfterRegistration
    /\ PendingInWindow(r)
    /\ OneLateGrant

-----------------------------------------------------------------------------
(* Arithmetic of day numbers over the integers.                            *)

\* x lies in day x \div DaySeconds.
LEMMA DivBounds ==
    ASSUME NEW x \in Int
    PROVE  /\ DayOf(x) \in Int
           /\ DayOf(x) * DaySeconds <= x
           /\ x < DayOf(x) * DaySeconds + DaySeconds
BY DaySecondsAssumption DEF DayOf

\* Multiplying by the day length keeps order.
LEMMA TimesDayMonotone ==
    ASSUME NEW a \in Int, NEW b \in Int, a <= b
    PROVE  a * DaySeconds <= b * DaySeconds
BY DaySecondsAssumption

\* A time before the start of day k is on a day before k.
LEMMA DayBelow ==
    ASSUME NEW x \in Int, NEW k \in Int, x < k * DaySeconds
    PROVE  DayOf(x) < k
<1>1. DayOf(x) \in Int /\ DayOf(x) * DaySeconds <= x
  BY DivBounds
<1>2. SUFFICES ASSUME DayOf(x) >= k PROVE FALSE
  BY <1>1
<1>3. k * DaySeconds <= DayOf(x) * DaySeconds
  BY <1>1, <1>2, TimesDayMonotone
<1>4. QED
  BY <1>1, <1>3, DaySecondsAssumption

\* A time that passes the window check, fewer than SignInDays whole days
\* after c, is no later than the window's last second.
LEMMA WindowEnd ==
    ASSUME NEW c \in Int, NEW t \in Int, (t - c) \div DaySeconds < SignInDays
    PROVE  t <= c + SignInDays * DaySeconds - 1
<1> DEFINE q == (t - c) \div DaySeconds
<1>1. q \in Int /\ t - c < q * DaySeconds + DaySeconds
  BY DivBounds DEF DayOf
<1>2. (q + 1) * DaySeconds <= SignInDays * DaySeconds
  BY <1>1, SignInDaysAssumption, TimesDayMonotone
<1>3. QED
  BY <1>1, <1>2, DaySecondsAssumption, SignInDaysAssumption

\* The window touches at most SignInDays + 1 days.
LEMMA WindowSpan ==
    ASSUME NEW c \in Int
    PROVE  DayOf(c + SignInDays * DaySeconds - 1) <= DayOf(c) + SignInDays
<1>1. DayOf(c) \in Int /\ c < DayOf(c) * DaySeconds + DaySeconds
  BY DivBounds
<1>2. c + SignInDays * DaySeconds - 1
        < (DayOf(c) + SignInDays + 1) * DaySeconds
  BY <1>1, SignInDaysAssumption, DaySecondsAssumption
<1>3. /\ c + SignInDays * DaySeconds - 1 \in Int
      /\ DayOf(c) + SignInDays + 1 \in Int
  BY <1>1, SignInDaysAssumption, DaySecondsAssumption
<1>4. DayOf(c + SignInDays * DaySeconds - 1) < DayOf(c) + SignInDays + 1
  BY <1>2, <1>3, DayBelow
<1>5. DayOf(c + SignInDays * DaySeconds - 1) \in Int
  BY <1>3, DivBounds
<1>6. QED
  BY <1>1, <1>4, <1>5, SignInDaysAssumption

-----------------------------------------------------------------------------
(* Counting the rewards of a user.                                         *)

\* A set whose elements are all equal is finite with at most one element.
LEMMA AtMostOneFinite ==
    ASSUME NEW S, \A x, y \in S : x = y
    PROVE  IsFiniteSet(S) /\ Cardinality(S) <= 1
<1>1. CASE S = {}
  <2>1. IsFiniteSet({}) /\ Cardinality({}) = 0
    BY FS_EmptySet
  <2>2. QED
    BY <1>1, <2>1
<1>2. CASE S # {}
  <2>1. PICK x \in S : TRUE
    BY <1>2
  <2>2. S = {x}
    BY <2>1
  <2>3. IsFiniteSet({x}) /\ Cardinality({x}) = 1
    BY FS_Singleton
  <2>4. QED
    BY <2>2, <2>3
<1>3. QED
  BY <1>1, <1>2

\* The rewards of u on days up to LastWindowDay are on distinct days from
\* the registration day on: at most SignInDays + 1 of them.
LEMMA InWindowCount ==
    ASSUME TypeOK, AtMostOneGrantPerDay, GrantsAfterRegistration,
           NEW u \in Users
    PROVE  LET E == {g \in GrantsOf(u) : DayOf(g.at) <= LastWindowDay(u)}
           IN  IsFiniteSet(E) /\ Cardinality(E) <= SignInDays + 1
<1> DEFINE E == {g \in GrantsOf(u) : DayOf(g.at) <= LastWindowDay(u)}
<1> SUFFICES IsFiniteSet(E) /\ Cardinality(E) <= SignInDays + 1
  OBVIOUS
<1>1. CASE E = {}
  BY <1>1, FS_EmptySet, SignInDaysAssumption
<1>2. CASE E # {}
  <2> DEFINE c == created[u]
             lo == DayOf(c)
             hi == LastWindowDay(u)
             f == [g \in E |-> DayOf(g.at)]
  <2>1. c \in Nat
    BY <1>2 DEF GrantsAfterRegistration, GrantsOf
  <2>2. lo \in Int /\ hi \in Int
    BY <2>1, DivBounds, SignInDaysAssumption, DaySecondsAssumption
       DEF LastWindowDay
  <2>3. \A g \in E : g.at \in Nat /\ c <= g.at
    BY DEF GrantsAfterRegistration, GrantsOf, TypeOK, Entry
  <2>4. f \in [E -> lo..hi]
    <3> SUFFICES ASSUME NEW g \in E PROVE DayOf(g.at) \in lo..hi
      OBVIOUS
    <3>1. lo <= DayOf(g.at)
      BY <2>1, <2>3, DayMonotone
    <3>2. DayOf(g.at) \in Int
      BY <2>3, DivBounds
    <3>3. QED
      BY <2>2, <3>1, <3>2
  <2>5. f \in Injection(E, lo..hi)
    BY <2>4 DEF Injection, IsInjective, AtMostOneGrantPerDay, GrantsOf
  <2>6. IsFiniteSet(E) /\ Cardinality(E) <= Cardinality(lo..hi)
    BY <2>2, <2>5, FS_Interval, FS_Injection
  <2>7. Cardinality(lo..hi) <= SignInDays + 1
    <3>1. hi <= lo + SignInDays
      BY <2>1, WindowSpan DEF LastWindowDay
    <3>2. Cardinality(lo..hi) = IF lo > hi THEN 0 ELSE hi - lo + 1
      BY <2>2, FS_Interval
    <3>3. QED
      BY <2>2, <3>1, <3>2, SignInDaysAssumption
  <2>8. Cardinality(E) \in Nat /\ Cardinality(lo..hi) \in Nat
    BY <2>2, <2>6, FS_Interval, FS_CardinalityType
  <2>9. QED
    BY <2>6, <2>7, <2>8, SignInDaysAssumption
<1>3. QED
  BY <1>1, <1>2

\* So u has at most SignInDays + 2 rewards: those up to LastWindowDay and
\* at most one after it.
LEMMA WindowCount ==
    ASSUME TypeOK, AtMostOneGrantPerDay, GrantsAfterRegistration,
           OneLateGrant, NEW u \in Users
    PROVE  Cardinality(GrantsOf(u)) <= SignInDays + 2
<1> DEFINE E == {g \in GrantsOf(u) : DayOf(g.at) <= LastWindowDay(u)}
           L == {g \in GrantsOf(u) : DayOf(g.at) > LastWindowDay(u)}
<1>1. IsFiniteSet(E) /\ Cardinality(E) <= SignInDays + 1
  BY InWindowCount
<1>2. IsFiniteSet(L) /\ Cardinality(L) <= 1
  <2>1. \A x, y \in L : x = y
    BY DEF OneLateGrant, GrantsOf
  <2>2. QED
    BY <2>1, AtMostOneFinite
<1>3. GrantsOf(u) = E \cup L
  <2>1. \A g \in GrantsOf(u) : DayOf(g.at) \in Int /\ LastWindowDay(u) \in Int
    <3> SUFFICES ASSUME NEW g \in GrantsOf(u)
                 PROVE  DayOf(g.at) \in Int /\ LastWindowDay(u) \in Int
      OBVIOUS
    <3>1. g.at \in Nat /\ created[u] \in Nat
      BY DEF GrantsOf, TypeOK, Entry, GrantsAfterRegistration
    <3>2. created[u] + SignInDays * DaySeconds - 1 \in Int
      BY <3>1, SignInDaysAssumption, DaySecondsAssumption
    <3>3. QED
      BY <3>1, <3>2, DivBounds DEF LastWindowDay
  <2>2. QED
    BY <2>1
<1>4. IsFiniteSet(E \cap L) /\ Cardinality(E \cap L) \in Nat
  BY <1>1, FS_Subset, FS_CardinalityType
<1>5. Cardinality(E \cup L)
        = Cardinality(E) + Cardinality(L) - Cardinality(E \cap L)
  BY <1>1, <1>2, FS_Union
<1>6. Cardinality(E) \in Nat /\ Cardinality(L) \in Nat
  BY <1>1, <1>2, FS_CardinalityType
<1>7. Cardinality(GrantsOf(u)) = Cardinality(E \cup L)
  BY <1>3
<1>8. QED
  BY <1>1, <1>2, <1>4, <1>5, <1>6, <1>7, SignInDaysAssumption

-----------------------------------------------------------------------------
(* The inductive invariant.                                                *)

\* A call that passes CheckUserSignEligibility's checks before the
\* signed-today query has a registered user within its window.
LEMMA EligibleInWindow ==
    ASSUME TypeOK, NEW u \in Users, EligibilityReason(u) = "ok"
    PROVE  /\ created[u] \in Nat \ {0}
           /\ (now - created[u]) \div DaySeconds < SignInDays
<1>1. ~(quotaForSign <= 0) /\ ~(u \notin SignGroupUsers)
      /\ ~(created[u] <= 0) /\ ~(RegisteredDays(u) >= SignInDays)
  BY DEF EligibilityReason
<1>2. created[u] \in Nat \ {0}
  BY <1>1 DEF TypeOK, Unregistered
<1>3. RegisteredDays(u) \in Int
  BY <1>2, DivBounds DEF TypeOK, RegisteredDays, DayOf
<1>4. QED
  BY <1>1, <1>2, <1>3, SignInDaysAssumption DEF RegisteredDays

\* So every reward the user already has is on a day no later than
\* LastWindowDay.
LEMMA EligibleGrantsInWindow ==
    ASSUME TypeOK, NotAhead, NEW u \in Users, EligibilityReason(u) = "ok"
    PROVE  \A g \in GrantsOf(u) : DayOf(g.at) <= LastWindowDay(u)
<1> SUFFICES ASSUME NEW g \in GrantsOf(u)
             PROVE  DayOf(g.at) <= LastWindowDay(u)
  OBVIOUS
<1>1. created[u] \in Nat \ {0} /\ (now - created[u]) \div DaySeconds < SignInDays
  BY EligibleInWindow
<1>2. now <= created[u] + SignInDays * DaySeconds - 1
  BY <1>1, WindowEnd DEF TypeOK
<1>3. g.at \in Nat /\ now \in Nat /\ g.at <= now
  BY DEF GrantsOf, TypeOK, Entry, NotAhead
<1>4. created[u] + SignInDays * DaySeconds - 1 \in Nat
  BY <1>1, SignInDaysAssumption, DaySecondsAssumption
<1>5. QED
  BY <1>2, <1>3, <1>4, DayMonotone DEF LastWindowDay

\* WindowInv holds initially.
LEMMA WindowInvInit ==
    ASSUME NEW r \in Reqs
    PROVE  Init => WindowInv(r)
BY OnceInvInit DEF Init, WindowInv, CreatedNotAhead, GrantsAfterRegistration,
                   PendingInWindow, OneLateGrant, Unregistered

\* Every step of the one handler and of the environment keeps WindowInv.
LEMMA WindowInvStep ==
    ASSUME NEW r, Solo(r)
    PROVE  WindowInv(r) /\ [Next]_vars => WindowInv(r)'
<1> SUFFICES ASSUME WindowInv(r), [Next]_vars PROVE WindowInv(r)'
  OBVIOUS
<1> USE DEF WindowInv, Solo
<1>0. OnceInv(r)'
  BY OnceInvStep
<1>a. TypeOK /\ TypeOK'
  BY <1>0 DEF OnceInv
<1>r. r \in Reqs /\ reqUser[r] \in Users
  BY <1>a DEF TypeOK
<1>1. ASSUME NEW u \in Users, DoSignCheckUser(r, u) PROVE WindowInv(r)'
  <2>1. UNCHANGED <<now, created, grants>>
    BY <1>1 DEF DoSignCheckUser
  <2>2. (CreatedNotAhead /\ GrantsAfterRegistration /\ OneLateGrant)'
    BY <2>1 DEF CreatedNotAhead, GrantsAfterRegistration, OneLateGrant,
                LastWindowDay
  <2>3. CASE /\ EligibilityReason(u) = "ok"
             /\ pc' = [pc EXCEPT ![r] = "today"]
             /\ reqUser' = [reqUser EXCEPT ![r] = u]
    <3>1. created[u] \in Nat \ {0}
      BY <2>3, <1>a, EligibleInWindow
    <3>2. \A g \in GrantsOf(u) : DayOf(g.at) <= LastWindowDay(u)
      BY <2>3, <1>a, EligibleGrantsInWindow DEF OnceInv
    <3>3. PendingInWindow(r)'
      BY <1>a, <2>1, <2>3, <3>1, <3>2 DEF PendingInWindow, GrantsOf,
                                         LastWindowDay, TypeOK
    <3>4. QED
      BY <1>0, <2>2, <3>3
  <2>4. CASE UNCHANGED <<pc, reqUser, reqId>>
    BY <1>0, <2>1, <2>2, <2>4 DEF PendingInWindow, GrantsOf, LastWindowDay
  <2>5. QED
    BY <1>1, <2>3, <2>4 DEF DoSignCheckUser
<1>2. ASSUME DoSignCheckToday(r) PROVE WindowInv(r)'
  <2>1. /\ UNCHANGED <<now, created, grants>>
        /\ pc[r] = "today"
    BY <1>2 DEF DoSignCheckToday
  <2>2. (CreatedNotAhead /\ GrantsAfterRegistration /\ OneLateGrant)'
    BY <2>1 DEF CreatedNotAhead, GrantsAfterRegistration, OneLateGrant,
                LastWindowDay
  <2>3. CASE UNCHANGED reqUser
    BY <1>0, <2>1, <2>2, <2>3 DEF PendingInWindow, GrantsOf, LastWindowDay
  <2>4. CASE pc' = [pc EXCEPT ![r] = "idle"]
    BY <1>0, <1>a, <1>r, <2>2, <2>4 DEF PendingInWindow, TypeOK
  <2>5. QED
    BY <1>2, <2>3, <2>4 DEF DoSignCheckToday, Return
<1>3. ASSUME DoSignIncreaseQuota(r) PROVE WindowInv(r)'
  <2> DEFINE v == reqUser[r]
             g0 == [id |-> reqId[r], user |-> v, at |-> now,
                    quota |-> quotaForSign]
  <2>1. /\ grants' = grants \cup {g0}
        /\ pc' = [pc EXCEPT ![r] = "log"]
        /\ pc[r] = "quota"
        /\ UNCHANGED <<now, created>>
    BY <1>3 DEF DoSignIncreaseQuota
  <2>2. created[v] \in Nat \ {0} /\ created[v] <= now
    BY <1>r, <2>1 DEF PendingInWindow, CreatedNotAhead
  <2>3. GrantsAfterRegistration'
    BY <2>1, <2>2 DEF GrantsAfterRegistration
  <2>4. OneLateGrant'
    \* v's earlier rewards are all within its window.
    <3>1. \A h \in grants : h.user = v => DayOf(h.at) <= LastWindowDay(v)
      BY <2>1 DEF PendingInWindow, GrantsOf
    <3>2. \A h \in grants : h.user = v =>
              ~(DayOf(h.at) > LastWindowDay(v))
      <4> SUFFICES ASSUME NEW h \in grants, h.user = v
                   PROVE  ~(DayOf(h.at) > LastWindowDay(v))
        OBVIOUS
      <4>1. h.at \in Nat /\ created[v] + SignInDays * DaySeconds - 1 \in Int
        BY <2>2, <1>a, SignInDaysAssumption, DaySecondsAssumption
           DEF TypeOK, Entry
      <4>2. DayOf(h.at) \in Int /\ LastWindowDay(v) \in Int
        BY <4>1, DivBounds DEF LastWindowDay
      <4>3. QED
        BY <3>1, <4>2
    <3>3. QED
      BY <2>1, <3>2 DEF OneLateGrant, LastWindowDay
  <2>5. QED
    BY <1>0, <1>a, <1>r, <2>1, <2>3, <2>4 DEF CreatedNotAhead, PendingInWindow,
                                             TypeOK
<1>4. ASSUME DoSignWriteLog(r) PROVE WindowInv(r)'
  <2>1. /\ UNCHANGED <<now, created, grants>>
        /\ pc' = [pc EXCEPT ![r] = "idle"]
    BY <1>4 DEF DoSignWriteLog, Return
  <2>2. QED
    BY <1>0, <1>a, <1>r, <2>1 DEF CreatedNotAhead, GrantsAfterRegistration,
                                 OneLateGrant, PendingInWindow, LastWindowDay,
                                 TypeOK
<1>5. CASE Tick
  <2>1. CreatedNotAhead'
    BY <1>a, <1>5 DEF Tick, CreatedNotAhead, TypeOK, Unregistered
  <2>2. (GrantsAfterRegistration /\ OneLateGrant /\ PendingInWindow(r))'
    BY <1>5 DEF Tick, GrantsAfterRegistration, OneLateGrant, PendingInWindow,
                GrantsOf, LastWindowDay
  <2>3. QED
    BY <1>0, <2>1, <2>2
<1>6. ASSUME NEW u \in Users, Register(u) PROVE WindowInv(r)'
  \* Only an unregistered user is registered, and it has no reward and
  \* is no handler's user.
  <2>1. /\ created[u] = Unregistered
        /\ created' = [created EXCEPT ![u] = now]
        /\ UNCHANGED <<now, grants, pc, reqUser>>
    BY <1>6 DEF Register
  <2>2. \A g \in grants : g.user # u
    BY <2>1 DEF GrantsAfterRegistration, Unregistered
  <2>3. pc[r] \in {"today", "quota"} => reqUser[r] # u
    BY <2>1 DEF PendingInWindow, Unregistered
  <2>4. QED
    BY <1>0, <1>a, <2>1, <2>2, <2>3 DEF CreatedNotAhead,
        GrantsAfterRegistration, OneLateGrant, PendingInWindow, GrantsOf,
        LastWindowDay, TypeOK
<1>7. ASSUME NEW v \in QuotaValues, SetQuotaForSign(v) PROVE WindowInv(r)'
  BY <1>0, <1>7 DEF SetQuotaForSign, CreatedNotAhead, GrantsAfterRegistration,
                   OneLateGrant, PendingInWindow, GrantsOf, LastWindowDay
<1>8. CASE Terminated \/ UNCHANGED vars
  BY <1>0, <1>8 DEF Terminated, vars, CreatedNotAhead, GrantsAfterRegistration,
                   OneLateGrant, PendingInWindow, GrantsOf, LastWindowDay
<1>9. QED
  BY <1>1, <1>2, <1>3, <1>4, <1>5, <1>6, <1>7, <1>8 DEF Next

\* With one DoSign call at a time and stores that never fail, a user is
\* rewarded at most SignInDays + 2 times, for every window length and day
\* length: SignInDays + 1 days touched by the 24-hour window of the check
\* at sign.go:66, and one more when the clock passes midnight between that
\* check and IncreaseUserQuota.
THEOREM RewardsWithinWindow ==
    ASSUME NEW r, Solo(r)
    PROVE  Spec => []GrantsWithinWindow
<1>1. Init => WindowInv(r)
  BY WindowInvInit DEF Solo
<1>2. WindowInv(r) /\ [Next]_vars => WindowInv(r)'
  BY WindowInvStep
<1>3. WindowInv(r) => GrantsWithinWindow
  BY WindowCount DEF WindowInv, OnceInv, GrantsWithinWindow, GrantsOf
<1>4. QED
  BY <1>1, <1>2, <1>3, PTL DEF Spec

=============================================================================
