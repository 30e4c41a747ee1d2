---------------------------- MODULE SignCalendar ----------------------------
(***************************************************************************)
(* GetUserSignList (src/model/sign.go) over the state of the reward        *)
(* ledger: the day-by-day signed/unsigned calendar of one user, rebuilt on *)
(* every read from the user's registration time, the clock and the sign   *)
(* rows of the log table.  The calendar is a query: it changes nothing,   *)
(* so it is an operator of the ledger's state, and the properties below   *)
(* are checked on every state the ledger can reach.                       *)
(*                                                                         *)
(* A date "YYYY-MM-DD" is the day number DayOf(t) of any second t in it;  *)
(* Format is injective on days, so the map keyed by the string and the    *)
(* set of day numbers tell the same days apart.                           *)
(***************************************************************************)
EXTENDS SignLedger, Sequences

\* The look-back of a user with no registration time: AddDate(0, 0, -30).
CONSTANT LegacyLookbackDays

ASSUME LegacyLookbackAssumption == LegacyLookbackDays \in Nat

\* startTime: the registration second, or 30 days before now.
SignStartTime(u) ==
    IF created[u] > 0 THEN created[u]
                      ELSE now - LegacyLookbackDays * DaySeconds

\* endTime: 23:59:59 today, replaced by the deadline startTime + SignInDays
\* days when the deadline is strictly before it (signDeadline.Before).
SignEndTime(u) ==
    LET signDeadline == SignStartTime(u) + SignInDays * DaySeconds
    IN  IF signDeadline < TodayEnd THEN signDeadline ELSE TodayEnd

\* signedDates: the dates of all of the user's sign rows, of any day.
SignedDates(u) == {DayOf(l.at) : l \in {m \in signLogs : m.user = u}}

\* A mutant of the loop: currentDate.Before(endTime) instead of
\* !currentDate.After(endTime).
GetUserSignListBeforeEnd(u) ==
    LET endTime == SignEndTime(u)
        signed  == SignedDates(u)
        loop[cur \in Int] ==
            IF cur >= endTime THEN << >>
            ELSE << [date |-> DayOf(cur), signed |-> DayOf(cur) \in signed] >>
                    \o loop[cur + DaySeconds]
    IN  loop[DayOf(SignStartTime(u)) * DaySeconds]

\* The list: from midnight of the start day, one entry per day while the
\* day's midnight is not after endTime, each marked from signedDates.
GetUserSignList(u) ==
    LET endTime == SignEndTime(u)
        signed  == SignedDates(u)
        loop[cur \in Int] ==
            IF cur > endTime THEN << >>
            ELSE << [date |-> DayOf(cur), signed |-> DayOf(cur) \in signed] >>
                    \o loop[cur + DaySeconds]
    IN  loop[DayOf(SignStartTime(u)) * DaySeconds]

-----------------------------------------------------------------------------
(* Reference definition of the calendar, from the spec's description      *)
(* (section 4.4): one entry per day from the start day to the end day     *)
(* inclusive, empty when the start day is after the end day, and a day is *)
(* signed iff some sign row of the user falls on it.                      *)
CalendarRef(u) ==
    LET first == DayOf(SignStartTime(u))
        last  == DayOf(SignEndTime(u))
    IN  [i \in 1 .. (last - first + 1) |->
            [date   |-> first + i - 1,
             signed |-> \E l \in signLogs : l.user = u /\ DayOf(l.at) = first + i - 1]]

\* The calendar GetUserSignList builds for every existing user, legacy
\* users with the 30-day fallback included, is the reference calendar: its
\* length is (end day - start day) + 1 and it marks exactly the days that
\* have a sign row, however the registration second and the clock fall
\* against midnight.
CalendarMatchesReference ==
    \A u \in Users : created[u] # Unregistered =>
        GetUserSignList(u) = CalendarRef(u)

\* The days the calendar of u lists.
CalendarDays(u) == {GetUserSignList(u)[i].date : i \in DOMAIN GetUserSignList(u)}

\* Spec 4.4/8 round trip: every date with a sign row of the user appears
\* in the calendar with signed = TRUE.  DoSign writes its row with the
\* clock read after the quota increase (sign.go line 126), while the
\* calendar stops at the registration second + SignInDays days (line 170).
CalendarShowsEverySignedDay ==
    \A l \in signLogs :
        \E i \in DOMAIN GetUserSignList(l.user) :
            GetUserSignList(l.user)[i] = [date |-> DayOf(l.at), signed |-> TRUE]

=============================================================================
