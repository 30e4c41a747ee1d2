---------------------------- MODULE SignInfoView ----------------------------
(***************************************************************************)
(* GetUserSignInfo (src/model/sign.go), served by controller.GetSignInfo, *)
(* composed with the reward ledger.  The view is built from separate reads *)
(* (the option, the user, the clock, a count query, the signed-today      *)
(* query, the calendar and CheckUserSignEligibility), and DoSign calls,   *)
(* midnight and option updates can fall between any two of them.  Each   *)
(* view request is a handler with one step per read.                      *)
(***************************************************************************)
EXTENDS SignCalendar

\* The GetSignInfo requests, each served once.
CONSTANT Views

ASSUME ViewsAssumption == Views # {}

VARIABLES
    vpc,    \* the step of each GetUserSignInfo call
    vuser,  \* its userId
    view    \* the SignInfo it is building, and its reply

viewVars == <<vpc, vuser, view>>

allVars == <<vars, viewVars>>

\* The user's sign rows, which the count query of line 264 counts.
UserRows(u) == {l \in signLogs : l.user = u}

\* What a view reads that a DoSign call, midnight or an option update can
\* change: a history field of the view, not a field of SignInfo.
Snapshot(u) == <<DayOf(now), Cardinality(UserRows(u)), quotaForSign>>

\* A SignInfo before any field is filled in; kind is "full" for a view that
\* reached the end of GetUserSignInfo, "short" for one of the early returns
\* and "error" for an error return.
EmptyInfo ==
    [kind |-> "none", enabled |-> FALSE, quotaPerSign |-> 0, signedToday |-> FALSE,
     canSign |-> FALSE, reason |-> "none", remaining |-> 0, total |-> 0,
     list |-> << >>, snap |-> << >>, endSnap |-> << >>]

InfoInit ==
    /\ Init
    /\ vpc = [v \in Views |-> "idle"]
    /\ vuser = [v \in Views |-> NoUser]
    /\ view = [v \in Views |-> EmptyInfo]

\* A store call of the view fails: GetUserSignInfo returns the error.
ViewError(v) ==
    /\ StoreFaults
    /\ vpc' = [vpc EXCEPT ![v] = "done"]
    /\ view' = [view EXCEPT ![v].kind = "error"]

\* Lines 223-260: the option is read, the user looked up, and the early
\* returns for a disabled feature, a group that may not sign and a legacy
\* user; otherwise remaining_days from the clock and CreatedTime.
InfoReadUser(v, u) ==
    LET info == [EmptyInfo EXCEPT !.enabled = quotaForSign > 0,
                                  !.quotaPerSign = quotaForSign,
                                  !.snap = Snapshot(u)]
        short(reason) == [info EXCEPT !.kind = "short", !.reason = reason]
    IN
    /\ vpc[v] = "idle"
    /\ created[u] # Unregistered
    /\ vuser' = [vuser EXCEPT ![v] = u]
    /\ \/ /\ quotaForSign <= 0
          /\ vpc' = [vpc EXCEPT ![v] = "done"]
          /\ view' = [view EXCEPT ![v] = short("disabled")]
       \/ quotaForSign > 0 /\ ViewError(v)
       \/ /\ quotaForSign > 0
          /\ u \notin SignGroupUsers
          /\ vpc' = [vpc EXCEPT ![v] = "done"]
          /\ view' = [view EXCEPT ![v] = short("group")]
       \/ /\ quotaForSign > 0
          /\ u \in SignGroupUsers
          /\ created[u] <= 0
          /\ vpc' = [vpc EXCEPT ![v] = "done"]
          /\ view' = [view EXCEPT ![v] = short("noreg")]
       \/ /\ quotaForSign > 0
          /\ u \in SignGroupUsers
          /\ created[u] > 0
          /\ LET remaining == SignInDays - RegisteredDays(u)
             IN view' = [view EXCEPT ![v] =
                            [info EXCEPT !.remaining = IF remaining < 0 THEN 0
                                                                       ELSE remaining]]
          /\ vpc' = [vpc EXCEPT ![v] = "count"]
    /\ UNCHANGED vars

\* Lines 263-271: total_sign_days, the count of all the user's sign rows.
InfoCount(v) ==
    /\ vpc[v] = "count"
    /\ \/ /\ view' = [view EXCEPT ![v].total = Cardinality(UserRows(vuser[v]))]
          /\ vpc' = [vpc EXCEPT ![v] = "today"]
       \/ ViewError(v)
    /\ UNCHANGED <<vars, vuser>>

\* Lines 274-278: signed_today from HasUserSignedToday.
InfoSignedToday(v) ==
    /\ vpc[v] = "today"
    /\ \/ /\ view' = [view EXCEPT ![v].signedToday = HasUserSignedToday(vuser[v])]
          /\ vpc' = [vpc EXCEPT ![v] = "list"]
       \/ ViewError(v)
    /\ UNCHANGED <<vars, vuser>>

\* Lines 281-285: sign_list from GetUserSignList, which fails when its user
\* lookup or its row query does.
InfoSignList(v) ==
    /\ vpc[v] = "list"
    /\ \/ /\ view' = [view EXCEPT ![v].list = GetUserSignList(vuser[v])]
          /\ vpc' = [vpc EXCEPT ![v] = "elig"]
       \/ ViewError(v)
    /\ UNCHANGED <<vars, vuser>>

\* Line 288: CheckUserSignEligibility up to its window check.  Its errors
\* are not returned: a failed user lookup is the reason "lookup".
InfoEligibility(v) ==
    LET u == vuser[v]
        deny(reason) == /\ vpc' = [vpc EXCEPT ![v] = "done"]
                        /\ view' = [view EXCEPT ![v].kind = "full",
                                                ![v].canSign = FALSE,
                                                ![v].reason = reason,
                                                ![v].endSnap = Snapshot(u)]
    IN
    /\ vpc[v] = "elig"
    /\ \/ EligibilityReason(u) # "ok" /\ deny(EligibilityReason(u))
       \/ StoreFaults /\ quotaForSign > 0 /\ deny("lookup")
       \/ /\ EligibilityReason(u) = "ok"
          /\ vpc' = [vpc EXCEPT ![v] = "eligtoday"]
          /\ UNCHANGED view
    /\ UNCHANGED <<vars, vuser>>

\* Lines 288-292: the signed-today check of CheckUserSignEligibility, its
\* own query with its own clock read; a failed query is the reason
\* "checkfail".
InfoEligibilityToday(v) ==
    LET reply(can, reason) ==
            /\ vpc' = [vpc EXCEPT ![v] = "done"]
            /\ view' = [view EXCEPT ![v].kind = "full", ![v].canSign = can,
                                    ![v].reason = reason,
                                    ![v].endSnap = Snapshot(vuser[v])]
    IN
    /\ vpc[v] = "eligtoday"
    /\ \/ HasUserSignedToday(vuser[v]) /\ reply(FALSE, "signed")
       \/ ~HasUserSignedToday(vuser[v]) /\ reply(TRUE, "ok")
       \/ StoreFaults /\ reply(FALSE, "checkfail")
    /\ UNCHANGED <<vars, vuser>>

InfoNext ==
    \/ Next /\ UNCHANGED viewVars
    \/ \E v \in Views :
          \/ \E u \in Users : InfoReadUser(v, u)
          \/ InfoCount(v)
          \/ InfoSignedToday(v)
          \/ InfoSignList(v)
          \/ InfoEligibility(v)
          \/ InfoEligibilityToday(v)

InfoSpec == InfoInit /\ [][InfoNext]_allVars

-----------------------------------------------------------------------------
\* The signed flags of the entries of a calendar list for day d.
DayFlags(list, d) == {list[i].signed : i \in {j \in DOMAIN list : list[j].date = d}}

\* The number of days a calendar list marks signed.
SignedEntries(list) == Cardinality({i \in DOMAIN list : list[i].signed})

\* The flags of one SignInfo that do not come from the calendar agree: a
\* user whose signed_today is false was not refused as "signed", and a user
\* signed today cannot sign.
SignedTodayAgrees(info) ==
    /\ info.canSign => ~info.signedToday
    /\ info.reason = "signed" => info.signedToday

\* The fields of one SignInfo tell the same story: signed_today agrees
\* with today's calendar entry and with the eligibility reason, a user
\* signed today cannot sign, and total_sign_days counts at least the days
\* the calendar marks.
Coherent(info) ==
    /\ \A b \in DayFlags(info.list, info.snap[1]) : b = info.signedToday
    /\ SignedTodayAgrees(info)
    /\ info.total >= SignedEntries(info.list)

\* A view built while nothing it reads changed, on one day, with no sign
\* row of its user added and the same QuotaForSign, is coherent: the
\* separate queries of GetUserSignInfo (count, HasUserSignedToday,
\* GetUserSignList, CheckUserSignEligibility) agree with each other.
ViewCoherentWhenQuiet ==
    \A v \in Views :
        (view[v].kind = "full" /\ view[v].snap = view[v].endSnap)
            => Coherent(view[v])

\* Every view GetUserSignInfo returns is coherent, whatever DoSign calls,
\* midnights and option updates fall between its queries (lines 263-292).
ViewCoherent ==
    \A v \in Views : view[v].kind = "full" => Coherent(view[v])

\* Spec scenario B: a user registered today who has signed reads
\* remaining_days = SignInDays - 1.  The code subtracts whole 24-hour units
\* since registration (lines 256-257).
RemainingDaysAfterFirstSign ==
    \A v \in Views :
        (/\ view[v].kind = "full"
         /\ view[v].signedToday
         /\ view[v].snap[1] = DayOf(created[vuser[v]]))
            => view[v].remaining = SignInDays - 1

=============================================================================
