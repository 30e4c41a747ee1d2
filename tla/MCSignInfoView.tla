---------------------------- MODULE MCSignInfoView ----------------------------
(* Model values and bounds for checking SignInfoView with TLC.             *)
EXTENDS MCSignCalendar, SignInfoView

CONSTANTS u3, v1, v2

\* A new user, a legacy user and a user whose group may not sign.
MCThreeUsers == {u1, u2, u3}

MCOneView == {v1}

\* Two GetSignInfo calls: the SignIn card and the SignInButton modal.
MCTwoViews == {v1, v2}

=============================================================================
