---------------------------- MODULE MCSignLedger ----------------------------
(* Model values and bounds for checking SignLedger with TLC.               *)
EXTENDS SignLedger, TLC

CONSTANTS u1, u2, r1, r2

MCOneUser == {u1}

MCTwoUsers == {u1, u2}

\* One handler: a client that waits for each DoSign before the next.
MCOneReq == {r1}

\* Two handlers: two DoSign calls in flight at once (two tabs, a double
\* click, a retried request).
MCTwoReqs == {r1, r2}

=============================================================================
