-------------------------- MODULE SignLedgerProofs --------------------------
(***************************************************************************)
(* Proofs about SignLedger for every value of its constants.               *)
(***************************************************************************)
EXTENDS SignLedger, TLAPS

\* A handler that is about to write its sign row already holds the grant it
\* will record: its own call id, user and quota, given no later than now.
PendingBacked ==
    \A r \in Reqs :
        pc[r] = "log" =>
            \E g \in grants : /\ g.id = reqId[r]
                              /\ g.user = reqUser[r]
                              /\ g.quota = reqQuota[r]
                              /\ g.at <= now

\* The inductive invariant behind AuditBackedByGrant.
AuditInv == TypeOK /\ AuditBackedByGrant /\ PendingBacked

-----------------------------------------------------------------------------
\* NoUser is a user, so resetting a handler keeps reqUser typed.
LEMMA NoUserType == NoUser \in Users
BY UsersAssumption DEF NoUser

\* The initial state is well typed.
LEMMA TypeInit == Init => TypeOK
BY NoUserType, QuotaValuesAssumption DEF Init, TypeOK, Unregistered

\* Every step of SignLedger keeps the clock, balances, sign rows, grants
\* and handler locals in their types.
LEMMA TypeStep == TypeOK /\ [Next]_vars => TypeOK'
<1> SUFFICES ASSUME TypeOK, [Next]_vars PROVE TypeOK'
  OBVIOUS
<1> USE NoUserType, QuotaValuesAssumption DEF TypeOK, Entry
<1>1. ASSUME NEW r \in Reqs, NEW u \in Users, DoSignCheckUser(r, u)
      PROVE TypeOK'
  BY <1>1 DEF DoSignCheckUser
<1>2. ASSUME NEW r \in Reqs, DoSignCheckToday(r) PROVE TypeOK'
  BY <1>2 DEF DoSignCheckToday, Return
<1>3. ASSUME NEW r \in Reqs, DoSignIncreaseQuota(r) PROVE TypeOK'
  BY <1>3 DEF DoSignIncreaseQuota, Return
<1>4. ASSUME NEW r \in Reqs, DoSignWriteLog(r) PROVE TypeOK'
  BY <1>4 DEF DoSignWriteLog, Return
<1>5. CASE Tick
  BY <1>5 DEF Tick
<1>6. ASSUME NEW u \in Users, Register(u) PROVE TypeOK'
  BY <1>6 DEF Register, Unregistered
<1>7. ASSUME NEW v \in QuotaValues, SetQuotaForSign(v) PROVE TypeOK'
  BY <1>7 DEF SetQuotaForSign
<1>8. CASE Terminated \/ UNCHANGED vars
  BY <1>8 DEF Terminated, vars
<1>9. QED
  BY <1>1, <1>2, <1>3, <1>4, <1>5, <1>6, <1>7, <1>8 DEF Next

\* Every reachable state of the ledger is well typed.
THEOREM TypeCorrect == Spec => []TypeOK
BY TypeInit, TypeStep, PTL DEF Spec

\* AuditInv holds initially: there are no sign rows and no handler is
\* about to write one.
LEMMA AuditInvInit == Init => AuditInv
<1> SUFFICES ASSUME Init PROVE AuditInv
  OBVIOUS
<1>1. TypeOK
  BY TypeInit
<1>2. AuditBackedByGrant
  BY DEF Init, AuditBackedByGrant
<1>3. PendingBacked
  BY DEF Init, PendingBacked
<1>4. QED
  BY <1>1, <1>2, <1>3 DEF AuditInv

\* Every step of SignLedger keeps AuditInv.
LEMMA AuditInvStep == AuditInv /\ [Next]_vars => AuditInv'
<1> SUFFICES ASSUME AuditInv, [Next]_vars PROVE AuditInv'
  OBVIOUS
<1> USE DEF AuditInv
<1>0. TypeOK'
  BY TypeStep
<1>1. ASSUME NEW r \in Reqs, NEW u \in Users, DoSignCheckUser(r, u)
      PROVE AuditInv'
  \* r was idle, so no handler in "log" changes; rows and grants stay.
  BY <1>0, <1>1 DEF DoSignCheckUser, AuditBackedByGrant, PendingBacked, TypeOK
<1>2. ASSUME NEW r \in Reqs, DoSignCheckToday(r) PROVE AuditInv'
  BY <1>0, <1>2 DEF DoSignCheckToday, Return, AuditBackedByGrant,
                   PendingBacked, TypeOK
<1>3. ASSUME NEW r \in Reqs, DoSignIncreaseQuota(r) PROVE AuditInv'
  <2> DEFINE g == [id |-> reqId[r], user |-> reqUser[r], at |-> now,
                   quota |-> quotaForSign]
  <2>1. CASE /\ grants' = grants \cup {g}
             /\ reqQuota' = [reqQuota EXCEPT ![r] = quotaForSign]
             /\ pc' = [pc EXCEPT ![r] = "log"]
             /\ UNCHANGED <<reqUser, reqId>>
    \* The new grant carries r's id, user, quota and the current time.
    <3>1. AuditBackedByGrant'
      BY <1>3, <2>1 DEF DoSignIncreaseQuota, AuditBackedByGrant
    <3>2. PendingBacked'
      <4> SUFFICES ASSUME NEW s \in Reqs, pc'[s] = "log"
                   PROVE \E h \in grants' : /\ h.id = reqId'[s]
                                             /\ h.user = reqUser'[s]
                                             /\ h.quota = reqQuota'[s]
                                             /\ h.at <= now'
        BY DEF PendingBacked
      <4>1. now' = now
        BY <1>3 DEF DoSignIncreaseQuota
      <4>2. CASE s = r
        <5>1. g \in grants'
          BY <2>1
        <5>2. /\ g.id = reqId'[s] /\ g.user = reqUser'[s]
              /\ g.quota = reqQuota'[s] /\ g.at <= now'
          BY <2>1, <4>1, <4>2 DEF TypeOK
        <5>3. QED
          BY <5>1, <5>2
      <4>3. CASE s # r
        <5>1. /\ pc[s] = "log" /\ reqId'[s] = reqId[s]
              /\ reqUser'[s] = reqUser[s] /\ reqQuota'[s] = reqQuota[s]
          BY <2>1, <4>3 DEF TypeOK
        <5>2. PICK h \in grants : /\ h.id = reqId[s]
                                 /\ h.user = reqUser[s]
                                 /\ h.quota = reqQuota[s]
                                 /\ h.at <= now
          BY <5>1 DEF PendingBacked
        <5>3. QED
          BY <2>1, <4>1, <5>1, <5>2
      <4>4. QED
        BY <4>2, <4>3
    <3>3. QED
      BY <1>0, <3>1, <3>2
  <2>2. CASE Return(r) /\ UNCHANGED grants
    BY <1>0, <1>3, <2>2 DEF DoSignIncreaseQuota, Return, AuditBackedByGrant,
                           PendingBacked, TypeOK
  <2>3. QED
    BY <1>3, <2>1, <2>2 DEF DoSignIncreaseQuota
<1>4. ASSUME NEW r \in Reqs, DoSignWriteLog(r) PROVE AuditInv'
  <2>1. PICK g \in grants : /\ g.id = reqId[r]
                           /\ g.user = reqUser[r]
                           /\ g.quota = reqQuota[r]
                           /\ g.at <= now
    BY <1>4 DEF DoSignWriteLog, PendingBacked
  <2>2. AuditBackedByGrant'
    BY <1>4, <2>1 DEF DoSignWriteLog, Return, AuditBackedByGrant
  <2>3. PendingBacked'
    BY <1>4 DEF DoSignWriteLog, Return, PendingBacked, TypeOK
  <2>4. QED
    BY <1>0, <2>2, <2>3
<1>5. CASE Tick
  \* The clock only moves forward.
  BY <1>0, <1>5 DEF Tick, AuditBackedByGrant, PendingBacked, TypeOK, Entry
<1>6. ASSUME NEW u \in Users, Register(u) PROVE AuditInv'
  BY <1>0, <1>6 DEF Register, AuditBackedByGrant, PendingBacked
<1>7. ASSUME NEW v \in QuotaValues, SetQuotaForSign(v) PROVE AuditInv'
  BY <1>0, <1>7 DEF SetQuotaForSign, AuditBackedByGrant, PendingBacked
<1>8. CASE Terminated \/ UNCHANGED vars
  BY <1>0, <1>8 DEF Terminated, vars, AuditBackedByGrant, PendingBacked
<1>9. QED
  BY <1>1, <1>2, <1>3, <1>4, <1>5, <1>6, <1>7, <1>8 DEF Next

\* Every sign row in the audit log is backed by quota that the same DoSign
\* call gave the same user no later: DoSign increases the quota before it
\* writes the row and returns when IncreaseUserQuota fails.
THEOREM AuditNeverOverstates == Spec => []AuditBackedByGrant
<1>1. Init => AuditInv
  BY AuditInvInit
<1>2. AuditInv /\ [Next]_vars => AuditInv'
  BY AuditInvStep
<1>3. AuditInv => AuditBackedByGrant
  BY DEF AuditInv
<1>4. QED
  BY <1>1, <1>2, <1>3, PTL DEF Spec

=============================================================================
