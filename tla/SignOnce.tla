------------------------------ MODULE SignOnce ------------------------------
(***************************************************************************)
(* What the check-in feature promises, with no handlers and no log table: *)
(* a user is rewarded at most once per calendar day, each reward adds the *)
(* configured QuotaForSign to the user's quota, and nothing else changes  *)
(* the quota.  The clock and the option are the environment.  SignLedger  *)
(* implements it when DoSign calls of one client run one at a time and    *)
(* the stores do not fail (SignOnceRefinement).                           *)
(***************************************************************************)
EXTENDS Integers

CONSTANTS Users, DaySeconds, QuotaValues

VARIABLES
    now,          \* the clock, in seconds
    quotaForSign, \* the configured reward
    balance,      \* each user's quota
    rewarded      \* the (user, day) pairs that have been rewarded

avars == <<now, quotaForSign, balance, rewarded>>

ADay(t) == t \div DaySeconds

AInit ==
    /\ now = 1
    /\ quotaForSign \in QuotaValues
    /\ balance = [u \in Users |-> 0]
    /\ rewarded = {}

\* The one reward of user u today.
Reward(u) ==
    /\ [user |-> u, day |-> ADay(now)] \notin rewarded
    /\ rewarded' = rewarded \cup {[user |-> u, day |-> ADay(now)]}
    /\ balance' = [balance EXCEPT ![u] = @ + quotaForSign]
    /\ UNCHANGED <<now, quotaForSign>>

ATick ==
    /\ now' = now + 1
    /\ UNCHANGED <<quotaForSign, balance, rewarded>>

SetQuota(v) ==
    /\ quotaForSign' = v
    /\ UNCHANGED <<now, balance, rewarded>>

ANext ==
    \/ \E u \in Users : Reward(u)
    \/ ATick
    \/ \E v \in QuotaValues : SetQuota(v)

ASpec == AInit /\ [][ANext]_avars

=============================================================================
