---------------------------- MODULE MCSignInClient ----------------------------
(* Model values and bounds for checking SignInClient with TLC.             *)
EXTENDS MCSignLedger, SignInClient

=============================================================================
