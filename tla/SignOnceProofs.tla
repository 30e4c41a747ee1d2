--------------------------- MODULE SignOnceProofs ---------------------------
(***************************************************************************)
(* Proofs that DoSign gives at most one reward per user and day, and that  *)
(* SignLedger implements SignOnce, when DoSign calls run one at a time    *)
(* (one handler) and the user and log stores do not fail.                 *)
(***************************************************************************)
EXTENDS SignLedgerProofs, SignOnceRefinement, FiniteSetTheorems

-----------------------------------------------------------------------------
(* Day numbers: t \div DaySeconds.                                        *)

\* A time lies in its day: TodayStart <= now <= TodayEnd.
LEMMA DayBounds ==
    ASSUME NEW t \in Nat
    PROVE  /\ DayOf(t) * DaySeconds <= t
           /\ t <= DayOf(t) * DaySeconds + DaySeconds - 1
BY DaySecondsAssumption DEF DayOf

\* A later time is on the same day or a later one.
LEMMA DayMonotone ==
    ASSUME NEW x \in Nat, NEW y \in Nat, x <= y
    PROVE  DayOf(x) <= DayOf(y)
BY DaySecondsAssumption DEF DayOf

\* A time before the start of y's day is on an earlier day.
LEMMA DayBefore ==
    ASSUME NEW x \in Nat, NEW y \in Nat, x < DayOf(y) * DaySeconds
    PROVE  DayOf(x) < DayOf(y)
BY DaySecondsAssumption DEF DayOf

-----------------------------------------------------------------------------
(* The inductive invariant, for the one handler r.                         *)

\* Rows and grants are never dated after the clock.
NotAhead ==
    /\ \A l \in signLogs : l.at <= now
    /\ \A g \in grants : g.at <= now

\* Call ids: every grant belongs to a call already issued, the handler runs
\* the latest call, and before its IncreaseUserQuota no grant has its id;
\* after it, the grants with its id are its user's.
CallIds(r) ==
    /\ \A g \in grants : g.id <= issued
    /\ pc[r] # "idle" => reqId[r] = issued
    /\ pc[r] \in {"today", "quota"} => \A g \in grants : g.id < reqId[r]
    /\ pc[r] = "log" => \A g \in grants : g.id = reqId[r] => g.user = reqUser[r]

\* Every grant but the one the handler is about to record has a sign row of
\* its user written no earlier.
GrantsLogged(r) ==
    \A g \in grants :
        \/ pc[r] = "log" /\ g.id = reqId[r]
        \/ \E l \in signLogs : l.user = g.user /\ g.at <= l.at

\* A handler past its signed-today check holds a user with no grant today.
NoGrantToday(r) ==
    pc[r] = "quota" =>
        \A g \in grants : g.user = reqUser[r] => DayOf(g.at) < DayOf(now)

OnceInv(r) ==
    /\ TypeOK
    /\ NotAhead
    /\ CallIds(r)
    /\ GrantsLogged(r)
    /\ NoGrantToday(r)
    /\ AtMostOneGrantPerDay

\* The hypotheses of this module's results: one handler, no store faults.
Solo(r) == Reqs = {r} /\ ~StoreFaults

-----------------------------------------------------------------------------
\* OnceInv holds initially: there are no rows and no grants.
LEMMA OnceInvInit ==
    ASSUME NEW r \in Reqs
    PROVE  Init => OnceInv(r)
BY TypeInit DEF Init, OnceInv, NotAhead, CallIds, GrantsLogged, NoGrantToday,
                AtMostOneGrantPerDay

\* Every step of the one handler and of the environment keeps OnceInv.
LEMMA OnceInvStep ==
    ASSUME NEW r, Solo(r)
    PROVE  OnceInv(r) /\ [Next]_vars => OnceInv(r)'
<1> SUFFICES ASSUME OnceInv(r), [Next]_vars PROVE OnceInv(r)'
  OBVIOUS
<1> USE DEF OnceInv, Solo
<1>0. TypeOK'
  BY TypeStep
<1>r. r \in Reqs
  OBVIOUS
<1>1. ASSUME NEW u \in Users, DoSignCheckUser(r, u) PROVE OnceInv(r)'
  <2>1. /\ pc[r] = "idle" /\ issued' = issued + 1
        /\ UNCHANGED <<now, signLogs, grants>>
    BY <1>1 DEF DoSignCheckUser
  <2>2. GrantsLogged(r)' /\ NotAhead' /\ AtMostOneGrantPerDay'
    \* The handler was idle, so every grant already has its row.
    BY <1>0, <2>1 DEF GrantsLogged, NotAhead, AtMostOneGrantPerDay, TypeOK
  <2>3. CASE /\ pc' = [pc EXCEPT ![r] = "today"]
             /\ reqId' = [reqId EXCEPT ![r] = issued + 1]
             /\ reqUser' = [reqUser EXCEPT ![r] = u]
    \* It takes a fresh id above every grant's.
    BY <1>0, <2>1, <2>2, <2>3 DEF CallIds, NoGrantToday, TypeOK, Entry
  <2>4. CASE UNCHANGED <<pc, reqUser, reqId>>
    BY <1>0, <2>1, <2>2, <2>4 DEF CallIds, NoGrantToday, TypeOK, Entry
  <2>5. QED
    BY <1>1, <2>3, <2>4 DEF DoSignCheckUser
<1>2. ASSUME DoSignCheckToday(r) PROVE OnceInv(r)'
  <2>1. CASE ~HasUserSignedToday(reqUser[r]) /\ pc' = [pc EXCEPT ![r] = "quota"]
              /\ UNCHANGED <<reqUser, reqId, reqQuota>>
    \* Every grant of the user has a row no later than now and none today.
    <3>1. NoGrantToday(r)'
      <4> SUFFICES ASSUME NEW g \in grants, g.user = reqUser[r]
                   PROVE  DayOf(g.at) < DayOf(now)
        BY <1>2, <2>1 DEF DoSignCheckToday, NoGrantToday
      <4>1. PICK l \in signLogs : l.user = g.user /\ g.at <= l.at
        BY <1>2 DEF GrantsLogged, DoSignCheckToday
      <4>2. /\ l.at \in Nat /\ g.at \in Nat /\ now \in Nat /\ l.at <= now
        BY DEF TypeOK, Entry, NotAhead
      <4>a. now <= TodayEnd
        BY <4>2, DayBounds DEF TodayEnd, TodayStart
      <4>b. ~(TodayStart <= l.at /\ l.at <= TodayEnd)
        BY <2>1, <4>1 DEF HasUserSignedToday
      <4>3. l.at < TodayStart
        BY <4>2, <4>a, <4>b, DaySecondsAssumption DEF TodayStart, TodayEnd, DayOf
      <4>4. DayOf(l.at) < DayOf(now)
        BY <4>2, <4>3, DayBefore DEF TodayStart
      <4>5. DayOf(g.at) <= DayOf(l.at)
        BY <4>1, <4>2, DayMonotone
      <4>6. QED
        BY <4>2, <4>4, <4>5, DaySecondsAssumption DEF DayOf
    <3>2. QED
      BY <1>0, <1>2, <2>1, <3>1 DEF DoSignCheckToday, NotAhead, CallIds,
                                   GrantsLogged, AtMostOneGrantPerDay
  <2>2. CASE Return(r)
    BY <1>0, <1>2, <2>2 DEF DoSignCheckToday, Return, TypeOK, NotAhead,
                           CallIds, GrantsLogged, NoGrantToday,
                           AtMostOneGrantPerDay
  <2>3. QED
    BY <1>2, <2>1, <2>2 DEF DoSignCheckToday
<1>3. ASSUME DoSignIncreaseQuota(r) PROVE OnceInv(r)'
  <2> DEFINE g0 == [id |-> reqId[r], user |-> reqUser[r], at |-> now,
                    quota |-> quotaForSign]
  <2>1. /\ grants' = grants \cup {g0}
        /\ pc' = [pc EXCEPT ![r] = "log"]
        /\ UNCHANGED <<reqUser, reqId, now, signLogs, issued>>
    BY <1>3 DEF DoSignIncreaseQuota
  <2>2. pc[r] = "quota"
    BY <1>3 DEF DoSignIncreaseQuota
  <2>3. (NotAhead /\ CallIds(r) /\ GrantsLogged(r) /\ NoGrantToday(r))'
    BY <1>0, <2>1, <2>2 DEF TypeOK, NotAhead, CallIds, GrantsLogged,
                           NoGrantToday
  <2>4. AtMostOneGrantPerDay'
    \* The user's earlier grants are all on earlier days than g0.
    <3>1. \A h \in grants : h.user = g0.user => DayOf(h.at) # DayOf(g0.at)
      BY <2>2, DaySecondsAssumption DEF NoGrantToday, TypeOK, Entry, DayOf
    <3>2. QED
      BY <2>1, <3>1 DEF AtMostOneGrantPerDay
  <2>5. QED
    BY <1>0, <2>3, <2>4
<1>4. ASSUME DoSignWriteLog(r) PROVE OnceInv(r)'
  \* The new row, of the handler's user at now, logs the pending grant.
  <2>1. /\ signLogs' = signLogs \cup
              {[id |-> reqId[r], user |-> reqUser[r], at |-> now,
                quota |-> reqQuota[r]]}
        /\ pc' = [pc EXCEPT ![r] = "idle"]
        /\ pc[r] = "log"
        /\ UNCHANGED <<now, grants, issued>>
    BY <1>4 DEF DoSignWriteLog, Return
  <2>2. GrantsLogged(r)'
    <3> SUFFICES ASSUME NEW g \in grants
                 PROVE  \E l \in signLogs' : l.user = g.user /\ g.at <= l.at
      BY <2>1 DEF GrantsLogged
    <3>1. CASE g.id = reqId[r]
      \* The pending grant: its user is the handler's, dated no later.
      <4>1. g.user = reqUser[r] /\ g.at <= now
        BY <2>1, <3>1 DEF CallIds, NotAhead
      <4>2. [id |-> reqId[r], user |-> reqUser[r], at |-> now,
             quota |-> reqQuota[r]] \in signLogs'
        BY <2>1
      <4>3. QED
        BY <4>1, <4>2
    <3>2. CASE g.id # reqId[r]
      BY <2>1, <3>2 DEF GrantsLogged
    <3>3. QED
      BY <3>1, <3>2
  <2>3. QED
    BY <1>0, <2>1, <2>2 DEF TypeOK, NotAhead, CallIds, NoGrantToday,
                           AtMostOneGrantPerDay
<1>5. CASE Tick
  <2>1. NoGrantToday(r)'
    <3> SUFFICES ASSUME pc[r] = "quota", NEW g \in grants, g.user = reqUser[r]
                 PROVE  DayOf(g.at) < DayOf(now + 1)
      BY <1>5 DEF Tick, NoGrantToday
    <3>1. DayOf(g.at) < DayOf(now)
      BY DEF NoGrantToday
    <3>2. DayOf(now) <= DayOf(now + 1)
      BY DayMonotone DEF TypeOK
    <3>3. QED
      BY <3>1, <3>2, DaySecondsAssumption DEF TypeOK, Entry, DayOf
  <2>2. QED
    BY <1>0, <1>5, <2>1 DEF Tick, TypeOK, Entry, NotAhead, CallIds,
                           GrantsLogged, AtMostOneGrantPerDay
<1>6. ASSUME NEW u \in Users, Register(u) PROVE OnceInv(r)'
  BY <1>0, <1>6 DEF Register, NotAhead, CallIds, GrantsLogged, NoGrantToday,
                   AtMostOneGrantPerDay
<1>7. ASSUME NEW v \in QuotaValues, SetQuotaForSign(v) PROVE OnceInv(r)'
  BY <1>0, <1>7 DEF SetQuotaForSign, NotAhead, CallIds, GrantsLogged,
                   NoGrantToday, AtMostOneGrantPerDay
<1>8. CASE Terminated \/ UNCHANGED vars
  BY <1>0, <1>8 DEF Terminated, vars, NotAhead, CallIds, GrantsLogged,
                   NoGrantToday, AtMostOneGrantPerDay
<1>9. QED
  BY <1>1, <1>2, <1>3, <1>4, <1>5, <1>6, <1>7, <1>8 DEF Next

\* With one DoSign call at a time and stores that never fail, no user is
\* rewarded twice on one day: the signed-today count query of
\* CheckUserSignEligibility (sign.go:72-79) sees the row of every earlier
\* reward, because DoSign writes that row before it returns.
THEOREM OneRewardPerDay ==
    ASSUME NEW r, Solo(r)
    PROVE  Spec => []AtMostOneGrantPerDay
<1>1. Init => OnceInv(r)
  BY OnceInvInit DEF Solo
<1>2. OnceInv(r) /\ [Next]_vars => OnceInv(r)'
  BY OnceInvStep
<1>3. OnceInv(r) => AtMostOneGrantPerDay
  BY DEF OnceInv
<1>4. QED
  BY <1>1, <1>2, <1>3, PTL DEF Spec

-----------------------------------------------------------------------------
(* Refinement: the ledger's initial states and steps are SignOnce's.       *)

\* The ledger starts where SignOnce does: no reward, every balance 0.
LEMMA RefineInit == Init => SO!AInit
BY DEF Init, SO!AInit, RewardedDays

\* Every ledger step is a SignOnce step or leaves the clock, QuotaForSign,
\* the balances and the rewarded days alone: IncreaseUserQuota is Reward,
\* the clock is ATick, an option update is SetQuota.
LEMMA RefineStep ==
    ASSUME NEW r, Solo(r)
    PROVE  OnceInv(r) /\ [Next]_vars => [SO!ANext]_SO!avars
<1> SUFFICES ASSUME OnceInv(r), [Next]_vars PROVE [SO!ANext]_SO!avars
  OBVIOUS
<1> USE DEF Solo
<1> DEFINE Same == UNCHANGED <<now, quotaForSign, balance, grants>>
<1>0. Same => UNCHANGED SO!avars
  BY DEF SO!avars, RewardedDays
<1>1. ASSUME NEW u \in Users, DoSignCheckUser(r, u) PROVE Same
  BY <1>1 DEF DoSignCheckUser
<1>2. ASSUME DoSignCheckToday(r) PROVE Same
  BY <1>2 DEF DoSignCheckToday
<1>3. ASSUME DoSignIncreaseQuota(r) PROVE SO!Reward(reqUser[r])
  <2> DEFINE u == reqUser[r]
             g0 == [id |-> reqId[r], user |-> u, at |-> now, quota |-> quotaForSign]
  <2>1. /\ pc[r] = "quota"
        /\ grants' = grants \cup {g0}
        /\ balance' = [balance EXCEPT ![u] = @ + quotaForSign]
        /\ UNCHANGED <<now, quotaForSign>>
    BY <1>3 DEF DoSignIncreaseQuota
  <2>2. [user |-> u, day |-> SO!ADay(now)] \notin RewardedDays
    \* No grant of u today (NoGrantToday), so no rewarded day of u today.
    <3>1. \A g \in grants : g.user = u => DayOf(g.at) # DayOf(now)
      BY <2>1, DaySecondsAssumption DEF OnceInv, NoGrantToday, TypeOK, Entry,
                                       DayOf
    <3>2. QED
      BY <3>1 DEF RewardedDays, SO!ADay, DayOf
  <2>3. RewardedDays' = RewardedDays \cup {[user |-> u, day |-> SO!ADay(now)]}
    <3>1. RewardedDays' = {[user |-> g.user, day |-> DayOf(g.at)] : g \in grants'}
      BY DEF RewardedDays
    <3>2. [user |-> g0.user, day |-> DayOf(g0.at)]
              = [user |-> u, day |-> SO!ADay(now)]
      BY DEF SO!ADay, DayOf
    <3>3. QED
      BY <2>1, <3>1, <3>2 DEF RewardedDays
  <2>4. QED
    BY <2>1, <2>2, <2>3 DEF SO!Reward
<1>4. ASSUME DoSignWriteLog(r) PROVE Same
  BY <1>4 DEF DoSignWriteLog
<1>5. ASSUME Tick PROVE SO!ATick
  BY <1>5 DEF Tick, SO!ATick, RewardedDays
<1>6. ASSUME NEW u \in Users, Register(u) PROVE Same
  BY <1>6 DEF Register
<1>7. ASSUME NEW v \in QuotaValues, SetQuotaForSign(v) PROVE SO!SetQuota(v)
  BY <1>7 DEF SetQuotaForSign, SO!SetQuota, RewardedDays
<1>8. ASSUME Terminated \/ UNCHANGED vars PROVE Same
  BY <1>8 DEF Terminated, vars
<1>9. QED
  <2>1. reqUser[r] \in Users
    BY DEF OnceInv, TypeOK
  <2>2. QED
    BY <1>0, <1>1, <1>2, <1>3, <1>4, <1>5, <1>6, <1>7, <1>8, <2>1
       DEF Next, SO!ANext

\* With one DoSign call at a time and stores that never fail, the ledger
\* implements SignOnce: every quota DoSign gives is the one reward of a
\* (user, day) pair not rewarded before, of the current QuotaForSign.
THEOREM ImplementsSignOnce ==
    ASSUME NEW r, Solo(r)
    PROVE  Spec => SignOnceSpec
<1>1. Init => OnceInv(r) /\ SO!AInit
  BY OnceInvInit, RefineInit DEF Solo
<1>2. OnceInv(r) /\ [Next]_vars => OnceInv(r)'
  BY OnceInvStep
<1>3. OnceInv(r) /\ [Next]_vars => [SO!ANext]_SO!avars
  BY RefineStep
<1>4. QED
  BY <1>1, <1>2, <1>3, PTL DEF Spec, SignOnceSpec, SO!ASpec

=============================================================================
