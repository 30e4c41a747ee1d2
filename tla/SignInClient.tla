---------------------------- MODULE SignInClient ----------------------------
(***************************************************************************)
(* The web client (src/web/src/components/signin/index.jsx) composed with *)
(* the reward ledger.  The SignIn card and the SignInButton modal are two *)
(* components of one page; each keeps its own loading, signLoading and    *)
(* signInfo, and both patch the quota of the shared UserContext.  A       *)
(* component is a member of Reqs: the server handler with the same name   *)
(* serves its POST /api/user/sign, so DoSign runs in the ledger's steps.  *)
(* GET /api/user/sign/info is answered in one step: the interleavings of  *)
(* GetUserSignInfo's own reads are SignInfoView's subject.                *)
(***************************************************************************)
EXTENDS SignLedger

\* The logged-in user whose page holds the components.
CONSTANT Me

ASSUME MeAssumption == Me \in Users

VARIABLES
    mounted,     \* the component's mount effect has run
    ctxQuota,    \* userState.user.quota of the UserContext
    loading,     \* loading[c]
    signLoading, \* signLoading[c]
    signInfo,    \* signInfo[c]: NoInfo (null) or the last SignInfo applied
    sphase,      \* where doSign of c is: idle, sent, running, replied, refresh
    captured,    \* userState.user.quota in the closure of c's doSign
    reply,       \* the reply of c's POST: [ok, quota]
    awaited,     \* the GET that c's doSign awaits
    fetchSeq,    \* the number of GETs sent, naming each one
    fetches      \* GETs in flight: [comp, n, answered, ok, info]

clientVars == <<mounted, ctxQuota, loading, signLoading, signInfo, sphase,
                captured, reply, awaited, fetchSeq, fetches>>

allVars == <<vars, clientVars>>

\* The fields of SignInfo the client acts on.
NoInfo == [signedToday |-> FALSE, canSign |-> FALSE, quotaPerSign |-> -1]

\* GetUserSignInfo(Me) read in one step.  The early returns (feature
\* disabled, group, no registration) leave signed_today and can_sign false.
SignInfoOf(u) ==
    [signedToday  |-> EligibilityReason(u) \notin {"disabled", "group", "noreg"}
                         /\ HasUserSignedToday(u),
     canSign      |-> EligibilityReason(u) = "ok" /\ ~HasUserSignedToday(u),
     quotaPerSign |-> quotaForSign]

ClientInit ==
    /\ Init
    /\ mounted = [c \in Reqs |-> FALSE]
    /\ ctxQuota = 0
    /\ loading = [c \in Reqs |-> FALSE]
    /\ signLoading = [c \in Reqs |-> FALSE]
    /\ signInfo = [c \in Reqs |-> NoInfo]
    /\ sphase = [c \in Reqs |-> "idle"]
    /\ captured = [c \in Reqs |-> 0]
    /\ reply = [c \in Reqs |-> [ok |-> FALSE, quota |-> 0]]
    /\ awaited = [c \in Reqs |-> 0]
    /\ fetchSeq = 0
    /\ fetches = {}

\* getSignInfo up to its await: setLoading(true) and the GET is sent.
GetSignInfoSend(c) ==
    /\ loading' = [loading EXCEPT ![c] = TRUE]
    /\ fetchSeq' = fetchSeq + 1
    /\ fetches' = fetches \cup
         {[comp |-> c, n |-> fetchSeq + 1, answered |-> FALSE, ok |-> FALSE,
           info |-> NoInfo]}

\* The mount effect of a component of a logged-in user.
Mount(c) ==
    /\ ~mounted[c]
    /\ created[Me] # Unregistered
    /\ mounted' = [mounted EXCEPT ![c] = TRUE]
    /\ GetSignInfoSend(c)
    /\ UNCHANGED <<vars, ctxQuota, signLoading, signInfo, sphase, captured,
                   reply, awaited>>

\* controller.GetSignInfo answers a GET: success with the view, or an
\* ApiError when a store call fails.
ServeInfo(f) ==
    /\ ~f.answered
    /\ \/ fetches' = (fetches \ {f}) \cup
              {[f EXCEPT !.answered = TRUE, !.ok = TRUE, !.info = SignInfoOf(Me)]}
       \/ StoreFaults /\ fetches' = (fetches \ {f}) \cup {[f EXCEPT !.answered = TRUE]}
    /\ UNCHANGED <<vars, mounted, ctxQuota, loading, signLoading, signInfo,
                   sphase, captured, reply, awaited, fetchSeq>>

\* Mutant: the awaiting doSign resumes only when its GET succeeded, as if
\* setSignLoading(false) sat in the try block instead of the finally.
ApplyInfoOkOnly(f) ==
    LET c == f.comp
        resumes == sphase[c] = "refresh" /\ awaited[c] = f.n /\ f.ok
    IN
    /\ f.answered
    /\ fetches' = fetches \ {f}
    /\ signInfo' = [signInfo EXCEPT ![c] = IF f.ok THEN f.info ELSE NoInfo]
    /\ loading' = [loading EXCEPT ![c] = FALSE]
    /\ signLoading' = [signLoading EXCEPT ![c] = IF resumes THEN FALSE ELSE @]
    /\ sphase' = [sphase EXCEPT ![c] = IF resumes THEN "idle" ELSE @]
    /\ UNCHANGED <<vars, mounted, ctxQuota, captured, reply, awaited, fetchSeq>>

\* The finally of getSignInfo: the reply is applied (setSignInfo(data), or
\* null on an error) and loading cleared, whatever other GET is in flight.
\* If this is the GET a doSign awaits, that doSign's finally follows.
ApplyInfo(f) ==
    LET c == f.comp
        resumes == sphase[c] = "refresh" /\ awaited[c] = f.n
    IN
    /\ f.answered
    /\ fetches' = fetches \ {f}
    /\ signInfo' = [signInfo EXCEPT ![c] = IF f.ok THEN f.info ELSE NoInfo]
    /\ loading' = [loading EXCEPT ![c] = FALSE]
    /\ signLoading' = [signLoading EXCEPT ![c] = IF resumes THEN FALSE ELSE @]
    /\ sphase' = [sphase EXCEPT ![c] = IF resumes THEN "idle" ELSE @]
    /\ UNCHANGED <<vars, mounted, ctxQuota, captured, reply, awaited, fetchSeq>>

\* The sign button is rendered when the applied info says not signed today
\* and can sign (the bound MaxRequests counts the POSTs not yet served
\* too, so that every POST sent is served); a click runs doSign with the closure of that render:
\* setSignLoading(true) and the POST.
ClickSign(c) ==
    /\ mounted[c]
    /\ ~signInfo[c].signedToday /\ signInfo[c].canSign
    /\ ~signLoading[c]
    /\ sphase[c] = "idle"
    /\ issued + Cardinality({d \in Reqs : sphase[d] = "sent"}) < MaxRequests
    /\ signLoading' = [signLoading EXCEPT ![c] = TRUE]
    /\ captured' = [captured EXCEPT ![c] = ctxQuota]
    /\ sphase' = [sphase EXCEPT ![c] = "sent"]
    /\ UNCHANGED <<vars, mounted, ctxQuota, loading, signInfo, reply, awaited,
                   fetchSeq, fetches>>

\* controller.Sign's reply once the handler has returned: success with the
\* quota when DoSign got past IncreaseUserQuota, a failure otherwise (an
\* ineligible user, or the ApiError of a failed store call).
SignReply(c) ==
    IF pc'[c] = "idle"
    THEN /\ sphase' = [sphase EXCEPT ![c] = "replied"]
         /\ reply' = [reply EXCEPT ![c] = [ok |-> pc[c] = "log", quota |-> reqQuota[c]]]
    ELSE UNCHANGED <<sphase, reply>>

\* The server takes the POST of c: DoSign's first step for the user.
ServeSign(c) ==
    /\ sphase[c] = "sent"
    /\ DoSignCheckUser(c, Me)
    /\ sphase' = [sphase EXCEPT ![c] = IF pc'[c] = "idle" THEN "replied" ELSE "running"]
    /\ reply' = [reply EXCEPT ![c] = [ok |-> FALSE, quota |-> 0]]
    /\ UNCHANGED <<mounted, ctxQuota, loading, signLoading, signInfo, captured,
                   awaited, fetchSeq, fetches>>

\* The later steps of DoSign for the POST of c.
ServeSignStep(c) ==
    /\ sphase[c] = "running"
    /\ \/ DoSignCheckToday(c)
       \/ DoSignIncreaseQuota(c)
       \/ DoSignWriteLog(c)
    /\ SignReply(c)
    /\ UNCHANGED <<mounted, ctxQuota, loading, signLoading, signInfo, captured,
                   awaited, fetchSeq, fetches>>

\* Mutant: the patch adds the quota_per_sign the component displays
\* instead of the data.quota of the reply.
ApplySignReplyInfoQuota(c) ==
    /\ sphase[c] = "replied"
    /\ \/ /\ reply[c].ok
          /\ ctxQuota' = captured[c] + signInfo[c].quotaPerSign
          /\ GetSignInfoSend(c)
          /\ awaited' = [awaited EXCEPT ![c] = fetchSeq + 1]
          /\ sphase' = [sphase EXCEPT ![c] = "refresh"]
          /\ UNCHANGED signLoading
       \/ /\ ~reply[c].ok
          /\ signLoading' = [signLoading EXCEPT ![c] = FALSE]
          /\ sphase' = [sphase EXCEPT ![c] = "idle"]
          /\ UNCHANGED <<ctxQuota, loading, awaited, fetchSeq, fetches>>
    /\ UNCHANGED <<vars, mounted, signInfo, captured, reply>>

\* doSign after the await of the POST.  On success the UserContext quota
\* becomes the captured userState.user.quota + data.quota and doSign awaits
\* a fresh getSignInfo; on failure showError, and the finally clears
\* signLoading.
ApplySignReply(c) ==
    /\ sphase[c] = "replied"
    /\ \/ /\ reply[c].ok
          /\ ctxQuota' = captured[c] + reply[c].quota
          /\ GetSignInfoSend(c)
          /\ awaited' = [awaited EXCEPT ![c] = fetchSeq + 1]
          /\ sphase' = [sphase EXCEPT ![c] = "refresh"]
          /\ UNCHANGED signLoading
       \/ /\ ~reply[c].ok
          /\ signLoading' = [signLoading EXCEPT ![c] = FALSE]
          /\ sphase' = [sphase EXCEPT ![c] = "idle"]
          /\ UNCHANGED <<ctxQuota, loading, awaited, fetchSeq, fetches>>
    /\ UNCHANGED <<vars, mounted, signInfo, captured, reply>>

\* The page is quiet: the clock has run out and no request is in flight.
ClientDone ==
    /\ now = MaxTime
    /\ fetches = {}
    /\ \A c \in Reqs : mounted[c] /\ sphase[c] = "idle"
    /\ UNCHANGED allVars

ClientNext ==
    \/ \E c \in Reqs :
          \/ Mount(c)
          \/ ClickSign(c)
          \/ ServeSign(c)
          \/ ServeSignStep(c)
          \/ ApplySignReply(c)
    \/ \E f \in fetches : ServeInfo(f) \/ ApplyInfo(f)
    \/ (Tick \/ \E u \in Users : Register(u) \/ \E v \in QuotaValues : SetQuotaForSign(v))
          /\ UNCHANGED clientVars
    \/ ClientDone

\* The GETs a run can send: one per mount and one per successful sign.
FetchIds == 1 .. (Cardinality(Reqs) + MaxRequests)

\* Every store call returns and every HTTP reply is delivered and handled:
\* the server steps and the client's continuations are weakly fair.  The
\* clock, registration, option updates and the user's clicks are not.
ClientFairness ==
    /\ \A c \in Reqs : /\ WF_allVars(ServeSign(c))
                       /\ WF_allVars(ServeSignStep(c))
                       /\ WF_allVars(ApplySignReply(c))
    /\ \A n \in FetchIds :
          /\ WF_allVars(\E f \in fetches : f.n = n /\ ServeInfo(f))
          /\ WF_allVars(\E f \in fetches : f.n = n /\ ApplyInfo(f))

ClientSpec == ClientInit /\ [][ClientNext]_allVars /\ ClientFairness

-----------------------------------------------------------------------------
\* The balance the page shows never runs ahead of the user's quota on the
\* server: every patch of the UserContext (index.jsx lines 83-88, 310-315)
\* adds a reward the server has already given to a value read before it.
DisplayedQuotaNeverAhead == ctxQuota <= balance[Me]

\* Once no doSign is in flight, the page shows the user's quota on the
\* server: the patches of the two components add up.
DisplayedQuotaCatchesUp ==
    (\A c \in Reqs : sphase[c] = "idle") => ctxQuota = balance[Me]

\* A click on the sign button always ends: the spinner of every doSign
\* (signLoading) is eventually cleared, whatever the server replies.
SignSettles == \A c \in Reqs : signLoading[c] ~> ~signLoading[c]

=============================================================================
