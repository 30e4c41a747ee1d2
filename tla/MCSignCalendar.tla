---------------------------- MODULE MCSignCalendar ----------------------------
(* Model values and bounds for checking SignCalendar with TLC.             *)
EXTENDS MCSignLedger, SignCalendar, SignOnceRefinement

=============================================================================
