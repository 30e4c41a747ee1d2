------------------------- MODULE SignInClientProofs -------------------------
(***************************************************************************)
(* Proof that the balance the web client shows never runs ahead of the    *)
(* user's quota on the server, for any number of components, any store    *)
(* faults and any option updates.                                          *)
(***************************************************************************)
EXTENDS SignInClient, SignLedgerProofs

\* The client variables the proof reads, in their types.
ClientTypeOK ==
    /\ ctxQuota \in Nat
    /\ captured \in [Reqs -> Nat]
    /\ reply \in [Reqs -> [ok : BOOLEAN, quota : Nat]]
    /\ sphase \in [Reqs -> {"idle", "sent", "running", "replied", "refresh"}]

\* A server handler is busy only with the POST of its own component, for
\* the page's user.
HandlerServesPost ==
    \A c \in Reqs : pc[c] # "idle" => sphase[c] = "running" /\ reqUser[c] = Me

\* Each doSign's captured quota is behind the server balance, and so is
\* captured + the reward once DoSign has increased the quota: in the
\* handler's reqQuota while it writes the row, in the reply after.
PatchBacked(c) ==
    /\ captured[c] <= balance[Me]
    /\ pc[c] = "log" => captured[c] + reqQuota[c] <= balance[Me]
    /\ (sphase[c] = "replied" /\ reply[c].ok)
          => captured[c] + reply[c].quota <= balance[Me]

PatchesBacked == \A c \in Reqs : PatchBacked(c)

ClientInv ==
    /\ TypeOK
    /\ ClientTypeOK
    /\ HandlerServesPost
    /\ PatchesBacked
    /\ DisplayedQuotaNeverAhead

-----------------------------------------------------------------------------
\* Every step of the page is a step of the ledger or leaves its variables
\* alone: the server runs DoSign only for the POSTs of the components.
LEMMA ClientStepIsLedgerStep == [ClientNext]_allVars => [Next]_vars
<1> SUFFICES ASSUME [ClientNext]_allVars PROVE [Next]_vars
  OBVIOUS
<1>1. ASSUME NEW c \in Reqs, ServeSign(c) PROVE Next
  BY <1>1, MeAssumption DEF ServeSign, Next
<1>2. ASSUME NEW c \in Reqs, ServeSignStep(c) PROVE Next
  BY <1>2 DEF ServeSignStep, Next
<1>3. CASE (Tick \/ \E u \in Users : Register(u)
               \/ \E v \in QuotaValues : SetQuotaForSign(v))
  BY <1>3 DEF Next
<1>4. ASSUME NEW c \in Reqs, Mount(c) \/ ClickSign(c) \/ ApplySignReply(c)
      PROVE  UNCHANGED vars
  BY <1>4 DEF Mount, ClickSign, ApplySignReply
<1>5. ASSUME NEW f \in fetches, ServeInfo(f) \/ ApplyInfo(f)
      PROVE  UNCHANGED vars
  BY <1>5 DEF ServeInfo, ApplyInfo
<1>6. CASE ClientDone \/ UNCHANGED allVars
  BY <1>6 DEF ClientDone, allVars
<1>7. QED
  BY <1>1, <1>2, <1>3, <1>4, <1>5, <1>6 DEF ClientNext

\* A component whose doSign, handler and reply a step leaves alone stays
\* backed when the balance does not shrink.
LEMMA BackedKept ==
    ASSUME TypeOK, TypeOK', ClientTypeOK, ClientTypeOK',
           NEW d \in Reqs, PatchBacked(d),
           balance'[Me] >= balance[Me],
           captured'[d] = captured[d], pc'[d] = pc[d],
           reqQuota'[d] = reqQuota[d], sphase'[d] = sphase[d],
           reply'[d] = reply[d]
    PROVE  PatchBacked(d)'
BY MeAssumption DEF PatchBacked, TypeOK, ClientTypeOK

\* The initial page is backed: nothing is shown, captured or replied.
LEMMA ClientInvInit == ClientInit => ClientInv
BY TypeInit, MeAssumption DEF ClientInit, Init, ClientInv, ClientTypeOK,
   HandlerServesPost, PatchesBacked, PatchBacked, DisplayedQuotaNeverAhead

\* A step that changes the doSign, handler and reply of one component c
\* only, keeps c backed, does not shrink the balance and leaves the shown
\* quota alone keeps ClientInv.
LEMMA StepOfOne ==
    ASSUME ClientInv, TypeOK', ClientTypeOK', HandlerServesPost',
           NEW c \in Reqs, PatchBacked(c)',
           balance'[Me] >= balance[Me], ctxQuota' = ctxQuota,
           \A d \in Reqs \ {c} :
               /\ captured'[d] = captured[d] /\ pc'[d] = pc[d]
               /\ reqQuota'[d] = reqQuota[d] /\ sphase'[d] = sphase[d]
               /\ reply'[d] = reply[d]
    PROVE  ClientInv'
<1>1. PatchesBacked'
  <2> SUFFICES ASSUME NEW d \in Reqs PROVE PatchBacked(d)'
    BY DEF PatchesBacked
  <2>1. CASE d = c
    BY <2>1
  <2>2. CASE d # c
    BY <2>2, BackedKept DEF ClientInv, PatchesBacked
  <2>3. QED
    BY <2>1, <2>2
<1>2. DisplayedQuotaNeverAhead'
  BY MeAssumption DEF ClientInv, DisplayedQuotaNeverAhead, TypeOK, ClientTypeOK
<1>3. QED
  BY <1>1, <1>2 DEF ClientInv

\* Every step of the page keeps ClientInv.
LEMMA ClientInvStep == ClientInv /\ [ClientNext]_allVars => ClientInv'
<1> SUFFICES ASSUME ClientInv, [ClientNext]_allVars PROVE ClientInv'
  OBVIOUS
<1> USE MeAssumption
<1>0. TypeOK'
  BY TypeStep, ClientStepIsLedgerStep DEF ClientInv
<1>t. TypeOK /\ ClientTypeOK /\ HandlerServesPost /\ PatchesBacked
      /\ DisplayedQuotaNeverAhead
  BY DEF ClientInv
<1>1. ASSUME NEW c \in Reqs, Mount(c) PROVE ClientInv'
  <2>1. UNCHANGED <<vars, ctxQuota, captured, reply, sphase>>
    BY <1>1 DEF Mount
  <2>2. UNCHANGED <<balance, pc, reqUser, reqQuota>>
    BY <2>1 DEF vars
  <2>3. QED
    BY <1>0, <1>t, <2>1, <2>2 DEF ClientInv, ClientTypeOK, HandlerServesPost,
                                 PatchBacked, PatchesBacked,
                                 DisplayedQuotaNeverAhead
<1>2. ASSUME NEW c \in Reqs, ClickSign(c) PROVE ClientInv'
  \* The closure captures the shown quota, which is behind the balance.
  <2>1. /\ UNCHANGED <<vars, ctxQuota, reply>>
        /\ captured' = [captured EXCEPT ![c] = ctxQuota]
        /\ sphase' = [sphase EXCEPT ![c] = "sent"]
        /\ sphase[c] = "idle"
    BY <1>2 DEF ClickSign
  <2>2. pc[c] = "idle"
    BY <1>t, <2>1 DEF HandlerServesPost
  <2>3. ClientTypeOK' /\ HandlerServesPost'
    BY <1>t, <2>1, <2>2 DEF vars, ClientTypeOK, HandlerServesPost
  <2>4. PatchBacked(c)'
    BY <1>t, <2>1, <2>2 DEF vars, ClientTypeOK, PatchBacked,
                           DisplayedQuotaNeverAhead
  <2>5. /\ UNCHANGED <<balance, pc, reqQuota>>
        /\ balance[Me] \in Nat
    BY <1>t, <2>1 DEF vars, TypeOK
  <2>6. \A d \in Reqs \ {c} : captured'[d] = captured[d] /\ sphase'[d] = sphase[d]
    BY <1>t, <2>1 DEF ClientTypeOK
  <2>7. QED
    BY <1>0, <1>t, <2>1, <2>3, <2>4, <2>5, <2>6, StepOfOne
<1>3. ASSUME NEW c \in Reqs, ServeSign(c) PROVE ClientInv'
  \* The handler takes the POST for Me and does not touch the balance; a
  \* refused call replies at once, with ok FALSE.
  <2>1. /\ DoSignCheckUser(c, Me)
        /\ sphase' = [sphase EXCEPT ![c] = IF pc'[c] = "idle" THEN "replied"
                                                             ELSE "running"]
        /\ reply' = [reply EXCEPT ![c] = [ok |-> FALSE, quota |-> 0]]
        /\ UNCHANGED <<ctxQuota, captured>>
    BY <1>3 DEF ServeSign
  <2>2. /\ UNCHANGED <<balance, reqQuota>>
        /\ \/ pc' = [pc EXCEPT ![c] = "today"] /\ reqUser' = [reqUser EXCEPT ![c] = Me]
           \/ UNCHANGED <<pc, reqUser>>
    BY <2>1 DEF DoSignCheckUser
  <2>3. ClientTypeOK' /\ HandlerServesPost'
    BY <1>t, <2>1, <2>2 DEF ClientTypeOK, HandlerServesPost, TypeOK
  <2>4. PatchBacked(c)'
    BY <1>t, <2>1, <2>2 DEF ClientTypeOK, PatchBacked, PatchesBacked, TypeOK
  <2>5. QED
    BY <1>0, <1>t, <2>1, <2>2, <2>3, <2>4, StepOfOne DEF TypeOK, ClientTypeOK

<1>4. ASSUME NEW c \in Reqs, ServeSignStep(c) PROVE ClientInv'
  <2>1. /\ sphase[c] = "running"
        /\ UNCHANGED <<ctxQuota, captured>>
        /\ SignReply(c)
    BY <1>4 DEF ServeSignStep
  <2>2. pc[c] # "idle" => reqUser[c] = Me
    BY <1>t DEF HandlerServesPost
  \* What the reply records: ok exactly when the handler returns from the
  \* row write, with the reward it gave.
  <2>3. /\ pc'[c] = "idle" => /\ sphase'[c] = "replied"
                              /\ reply'[c] = [ok |-> pc[c] = "log",
                                              quota |-> reqQuota[c]]
        /\ pc'[c] # "idle" => /\ sphase'[c] = sphase[c]
                              /\ reply'[c] = reply[c]
        /\ \A d \in Reqs \ {c} : sphase'[d] = sphase[d] /\ reply'[d] = reply[d]
    BY <1>t, <2>1 DEF SignReply, ClientTypeOK
  <2>4. ClientTypeOK'
    <3>1. CASE pc'[c] = "idle"
      <4>1. /\ sphase' = [sphase EXCEPT ![c] = "replied"]
            /\ reply' = [reply EXCEPT ![c] = [ok |-> pc[c] = "log",
                                              quota |-> reqQuota[c]]]
        BY <2>1, <3>1 DEF SignReply
      <4>2. [ok |-> pc[c] = "log", quota |-> reqQuota[c]]
              \in [ok : BOOLEAN, quota : Nat]
        BY <1>t DEF TypeOK
      <4>3. QED
        BY <1>t, <2>1, <4>1, <4>2 DEF ClientTypeOK
    <3>2. CASE pc'[c] # "idle"
      BY <1>t, <2>1, <3>2 DEF SignReply, ClientTypeOK
    <3>3. QED
      BY <3>1, <3>2
  \* The ledger step of c: it keeps c's user Me, touches no other handler
  \* and does not shrink the balance.
  <2>5. ASSUME /\ pc'[c] # "idle" => reqUser'[c] = Me
               /\ \A d \in Reqs \ {c} : /\ pc'[d] = pc[d]
                                        /\ reqQuota'[d] = reqQuota[d]
                                        /\ reqUser'[d] = reqUser[d]
               /\ balance'[Me] >= balance[Me]
               /\ PatchBacked(c)'
        PROVE  ClientInv'
    <3>1. HandlerServesPost'
      <4> SUFFICES ASSUME NEW d \in Reqs, pc'[d] # "idle"
                   PROVE  sphase'[d] = "running" /\ reqUser'[d] = Me
        BY DEF HandlerServesPost
      <4>1. CASE d = c
        BY <2>1, <2>3, <2>5, <4>1
      <4>2. CASE d # c
        BY <1>t, <2>3, <2>5, <4>2 DEF HandlerServesPost
      <4>3. QED
        BY <4>1, <4>2
    <3>2. QED
      BY <1>0, <1>t, <2>1, <2>3, <2>4, <2>5, <3>1, StepOfOne
  <2>6. CASE DoSignCheckToday(c)
    <3>1. /\ UNCHANGED balance
          /\ pc[c] = "today"
          /\ pc'[c] \in {"quota", "idle"}
          /\ pc'[c] = "quota" => reqUser'[c] = reqUser[c]
          /\ \A d \in Reqs \ {c} : /\ pc'[d] = pc[d]
                                   /\ reqQuota'[d] = reqQuota[d]
                                   /\ reqUser'[d] = reqUser[d]
      BY <1>t, <2>6 DEF DoSignCheckToday, Return, TypeOK
    <3>2. PatchBacked(c)'
      <4>1. captured'[c] <= balance'[Me]
        BY <1>t, <2>1, <3>1 DEF PatchesBacked, PatchBacked
      <4>2. pc'[c] # "log"
        BY <3>1
      <4>3. ~(sphase'[c] = "replied" /\ reply'[c].ok)
        <5>1. CASE pc'[c] = "idle"
          <6>1. reply'[c].ok = (pc[c] = "log")
            BY <2>3, <5>1
          <6>2. QED
            BY <3>1, <6>1
        <5>2. CASE pc'[c] # "idle"
          BY <2>1, <2>3, <5>2
        <5>3. QED
          BY <5>1, <5>2
      <4>4. QED
        BY <4>1, <4>2, <4>3 DEF PatchBacked
    <3>3. QED
      BY <1>t, <2>2, <2>5, <3>1, <3>2 DEF TypeOK
  <2>7. CASE DoSignIncreaseQuota(c)
    <3> DEFINE q == quotaForSign
    <3>1. pc[c] = "quota" /\ reqUser[c] = Me
      BY <2>2, <2>7 DEF DoSignIncreaseQuota
    <3>2. q \in Nat /\ balance[Me] \in Nat /\ captured[c] \in Nat
          /\ captured[c] <= balance[Me]
      BY <1>t, QuotaValuesAssumption DEF TypeOK, ClientTypeOK, PatchesBacked,
                                         PatchBacked
    <3>3. CASE /\ balance' = [balance EXCEPT ![Me] = @ + q]
               /\ reqQuota' = [reqQuota EXCEPT ![c] = q]
               /\ pc' = [pc EXCEPT ![c] = "log"]
               /\ UNCHANGED reqUser
      \* The reward lands on Me's balance above the captured quota.
      <4>1. balance'[Me] = balance[Me] + q
        BY <1>t, <3>3 DEF TypeOK
      <4>2. pc'[c] = "log" /\ reqQuota'[c] = q
        BY <1>t, <3>3 DEF TypeOK
      <4>3. PatchBacked(c)'
        <5>1. captured'[c] <= balance'[Me]
          BY <2>1, <3>2, <4>1
        <5>2. captured'[c] + reqQuota'[c] <= balance'[Me]
          BY <2>1, <3>2, <4>1, <4>2
        <5>3. ~(sphase'[c] = "replied")
          BY <2>1, <2>3, <4>2
        <5>4. QED
          BY <5>1, <5>2, <5>3 DEF PatchBacked
      <4>4. QED
        BY <1>t, <3>1, <3>2, <3>3, <4>1, <4>2, <4>3, <2>5 DEF TypeOK
    <3>4. CASE Return(c) /\ UNCHANGED balance
      \* A failed increase replies ok FALSE.
      <4>1. pc'[c] = "idle"
        BY <1>t, <3>4 DEF Return, TypeOK
      <4>2. PatchBacked(c)'
        <5>1. captured'[c] <= balance'[Me]
          BY <2>1, <3>2, <3>4
        <5>2. ~(sphase'[c] = "replied" /\ reply'[c].ok)
          <6>1. reply'[c].ok = (pc[c] = "log")
            BY <2>3, <4>1
          <6>2. QED
            BY <3>1, <6>1
        <5>3. QED
          BY <4>1, <5>1, <5>2 DEF PatchBacked
      <4>3. QED
        BY <1>t, <3>2, <3>4, <4>1, <4>2, <2>5 DEF TypeOK, Return
    <3>5. QED
      BY <2>7, <3>1, <3>3, <3>4 DEF DoSignIncreaseQuota
  <2>8. CASE DoSignWriteLog(c)
    \* The handler returns and replies ok with the reward it gave.
    <3>1. /\ pc[c] = "log"
          /\ Return(c)
          /\ UNCHANGED balance
      BY <2>8 DEF DoSignWriteLog
    <3>2. pc'[c] = "idle"
      BY <1>t, <3>1 DEF Return, TypeOK
    <3>3. PatchBacked(c)'
      <4>1. captured[c] + reqQuota[c] <= balance[Me]
        BY <1>t, <3>1 DEF PatchesBacked, PatchBacked
      <4>2. reply'[c] = [ok |-> TRUE, quota |-> reqQuota[c]]
        BY <2>3, <3>1, <3>2
      <4>3. captured[c] <= balance[Me]
        BY <1>t DEF PatchesBacked, PatchBacked
      <4>4. QED
        BY <2>1, <3>1, <3>2, <4>1, <4>2, <4>3 DEF PatchBacked
    <3>4. /\ \A d \in Reqs \ {c} : /\ pc'[d] = pc[d]
                                   /\ reqQuota'[d] = reqQuota[d]
                                   /\ reqUser'[d] = reqUser[d]
          /\ balance'[Me] >= balance[Me]
      BY <1>t, <3>1 DEF Return, TypeOK
    <3>5. QED
      BY <3>2, <3>3, <3>4, <2>5
  <2>9. QED
    BY <1>4, <2>6, <2>7, <2>8 DEF ServeSignStep
<1>5. ASSUME NEW c \in Reqs, ApplySignReply(c) PROVE ClientInv'
  <2>1. /\ sphase[c] = "replied"
        /\ UNCHANGED <<vars, captured, reply>>
        /\ sphase'[c] \in {"refresh", "idle"}
        /\ \A d \in Reqs \ {c} : sphase'[d] = sphase[d]
        /\ sphase' \in [Reqs -> {"idle", "sent", "running", "replied", "refresh"}]
    BY <1>t, <1>5 DEF ApplySignReply, ClientTypeOK
  <2>2. UNCHANGED <<balance, pc, reqUser, reqQuota>>
    BY <2>1 DEF vars
  <2>3. pc[c] = "idle"
    BY <1>t, <2>1 DEF HandlerServesPost
  \* The patch: captured + data.quota, behind the balance by PatchBacked.
  <2>4. ctxQuota' <= balance'[Me] /\ ctxQuota' \in Nat
    <3>1. CASE reply[c].ok
      <4>1. ctxQuota' = captured[c] + reply[c].quota
        BY <1>5, <3>1 DEF ApplySignReply
      <4>2. QED
        BY <1>t, <2>1, <2>2, <3>1, <4>1 DEF PatchesBacked, PatchBacked,
                                           ClientTypeOK
    <3>2. CASE ~reply[c].ok
      <4>1. ctxQuota' = ctxQuota
        BY <1>5, <3>2 DEF ApplySignReply
      <4>2. QED
        BY <1>t, <2>2, <4>1 DEF DisplayedQuotaNeverAhead, ClientTypeOK
    <3>3. QED
      BY <3>1, <3>2
  <2>5. ClientTypeOK' /\ HandlerServesPost'
    BY <1>t, <2>1, <2>2, <2>4 DEF ClientTypeOK, HandlerServesPost
  <2>6. PatchesBacked'
    <3> SUFFICES ASSUME NEW d \in Reqs PROVE PatchBacked(d)'
      BY DEF PatchesBacked
    <3>1. CASE d = c
      BY <1>t, <2>1, <2>2, <2>3, <3>1 DEF PatchesBacked, PatchBacked
    <3>2. CASE d # c
      BY <1>t, <2>1, <2>2, <3>2 DEF PatchesBacked, PatchBacked
    <3>3. QED
      BY <3>1, <3>2
  <2>7. QED
    BY <1>0, <2>4, <2>5, <2>6 DEF ClientInv, DisplayedQuotaNeverAhead
<1>6. ASSUME NEW f \in fetches, ServeInfo(f) \/ ApplyInfo(f)
      PROVE  ClientInv'
  \* A GET's reply only ends a doSign that awaits its refresh: that
  \* component's handler is idle and its reply is not read again.
  <2>1. /\ UNCHANGED <<vars, ctxQuota, captured, reply>>
        /\ \A d \in Reqs : sphase'[d] # sphase[d] =>
               sphase[d] = "refresh" /\ sphase'[d] = "idle"
        /\ sphase' \in [Reqs -> {"idle", "sent", "running", "replied", "refresh"}]
    BY <1>t, <1>6 DEF ServeInfo, ApplyInfo, ClientTypeOK
  <2>2. UNCHANGED <<balance, pc, reqUser, reqQuota>>
    BY <2>1 DEF vars
  <2>3. QED
    BY <1>0, <1>t, <2>1, <2>2 DEF ClientInv, ClientTypeOK, HandlerServesPost,
       PatchesBacked, PatchBacked, DisplayedQuotaNeverAhead
<1>7. CASE /\ (Tick \/ \E u \in Users : Register(u)
                  \/ \E v \in QuotaValues : SetQuotaForSign(v))
           /\ UNCHANGED clientVars
  <2>1. UNCHANGED <<balance, pc, reqUser, reqQuota>>
    BY <1>7 DEF Tick, Register, SetQuotaForSign
  <2>2. QED
    BY <1>0, <1>t, <1>7, <2>1 DEF clientVars, ClientInv, ClientTypeOK,
       HandlerServesPost, PatchesBacked, PatchBacked, DisplayedQuotaNeverAhead
<1>8. CASE ClientDone \/ UNCHANGED allVars
  <2>1. UNCHANGED <<balance, pc, reqUser, reqQuota, ctxQuota, captured,
                    reply, sphase>>
    BY <1>8 DEF ClientDone, allVars, vars, clientVars
  <2>2. QED
    BY <1>0, <1>t, <2>1 DEF ClientInv, ClientTypeOK, HandlerServesPost,
       PatchesBacked, PatchBacked, DisplayedQuotaNeverAhead
<1>9. QED
  BY <1>1, <1>2, <1>3, <1>4, <1>5, <1>6, <1>7, <1>8 DEF ClientNext

\* On any page, with any number of components, failing stores and option
\* updates, the balance the page shows never runs ahead of the user's
\* quota on the server: every patch of the UserContext (index.jsx:310-315)
\* adds a reward DoSign has already given to a quota read before it.
THEOREM DisplayNeverAhead == ClientSpec => []DisplayedQuotaNeverAhead
<1>1. ClientInit => ClientInv
  BY ClientInvInit
<1>2. ClientInv /\ [ClientNext]_allVars => ClientInv'
  BY ClientInvStep
<1>3. ClientInv => DisplayedQuotaNeverAhead
  BY DEF ClientInv
<1>4. QED
  BY <1>1, <1>2, <1>3, PTL DEF ClientSpec

=============================================================================
