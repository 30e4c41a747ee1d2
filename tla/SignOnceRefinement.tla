------------------------- MODULE SignOnceRefinement -------------------------
(***************************************************************************)
(* The reward ledger seen as SignOnce: the clock, the option and the      *)
(* quotas are the ledger's own, and a (user, day) pair is rewarded when    *)
(* DoSign's IncreaseUserQuota gave that user a reward on that day.  The   *)
(* handler steps that change no quota are stuttering steps of SignOnce.   *)
(***************************************************************************)
EXTENDS SignLedger

\* The (user, day) pairs of the rewards DoSign has given.
RewardedDays == {[user |-> g.user, day |-> DayOf(g.at)] : g \in grants}

SO == INSTANCE SignOnce WITH rewarded <- RewardedDays

\* The ledger implements SignOnce: every DoSign reward is the first of its
\* user on its calendar day and adds QuotaForSign to the quota, and no
\* other step changes a quota.  It holds for a client that waits for each
\* DoSign reply and stores that do not fail; the race and the lost row
\* write break it (the runs race_double_grant, lost_audit_double_grant).
SignOnceSpec == SO!ASpec

=============================================================================
