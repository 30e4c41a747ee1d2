------------------------- MODULE SignInfoViewProofs -------------------------
(***************************************************************************)
(* Proofs about GetUserSignInfo (src/model/sign.go lines 222-294) composed *)
(* with the reward ledger.  The view reads signed_today (line 275) and,    *)
(* later, CheckUserSignEligibility reads the signed-today query again      *)
(* (line 288, through lines 72-79).  Between the two reads any number of   *)
(* DoSign calls, ticks and option updates may run.  The theorem below says *)
(* that when the view's snapshot of the day and of the user's row count is *)
(* the same at its first and its last read, the two reads agreed: a quiet *)
(* view never says "already signed today" beside signed_today = false, nor *)
(* can_sign beside signed_today = true.  The argument is that sign rows are *)
(* only ever added, so a row count equal at two reads means the same set  *)
(* of rows, and the day equal means the same [TodayStart, TodayEnd].      *)
(*                                                                         *)
(* The calendar conjuncts of Coherent are not proved here: they state     *)
(* what the recursive loop of GetUserSignList computes, which needs       *)
(* induction over the loop and stays with TLC (run view_faults).          *)
(***************************************************************************)
EXTENDS SignInfoView, SignOnceProofs

\* The steps of one GetUserSignInfo call.
ViewPhases == {"idle", "count", "today", "list", "elig", "eligtoday", "done"}

\* The steps after the snapshot is taken and before the reply.
Reading == {"count", "today", "list", "elig", "eligtoday"}

\* The steps after signed_today is read and before the reply.
AfterToday == {"list", "elig", "eligtoday"}

InfoTypeOK ==
    /\ vpc \in [Views -> ViewPhases]
    /\ vuser \in [Views -> Users]
    /\ DOMAIN view = Views
    /\ \A v \in Views :
          /\ DOMAIN view[v] = DOMAIN EmptyInfo
          /\ view[v].signedToday \in BOOLEAN
          /\ view[v].canSign \in BOOLEAN

\* The clock and the user's rows, as the snapshot reads them, have not gone
\* back since the snapshot was taken: the day only advances and sign rows
\* are only added.
SnapBehind(v) ==
    vpc[v] \in Reading =>
        /\ view[v].snap[1] \in Nat /\ view[v].snap[2] \in Nat
        /\ view[v].snap[1] <= DayOf(now)
        /\ view[v].snap[2] <= Cardinality(UserRows(vuser[v]))

\* Nothing the snapshot reads changed since it was taken.
Quiet(v) ==
    /\ view[v].snap[1] = DayOf(now)
    /\ view[v].snap[2] = Cardinality(UserRows(vuser[v]))

\* While the day and the user's rows are as at the snapshot, signed_today
\* is what HasUserSignedToday answers now.
SignedTodayCurrent(v) ==
    vpc[v] \in AfterToday /\ Quiet(v) =>
        view[v].signedToday = HasUserSignedToday(vuser[v])

\* A view is a full reply only once it is done.
FullOnlyWhenDone(v) == view[v].kind = "full" => vpc[v] = "done"

\* GetUserSignInfo, in a view during which neither the day nor the user's
\* sign rows changed (its snapshot at the option read, line 223, equals its
\* snapshot at the eligibility reply, line 288): can_sign is false when
\* signed_today is true, and the reason "already signed today" comes with
\* signed_today true.
QuietViewsAgreeOnToday ==
    \A v \in Views :
        (view[v].kind = "full" /\ view[v].snap = view[v].endSnap)
            => SignedTodayAgrees(view[v])

\* The invariant of one view, of which QuietViewsAgreeOnToday is the last
\* conjunct.
PerView(v) ==
    /\ SnapBehind(v)
    /\ SignedTodayCurrent(v)
    /\ FullOnlyWhenDone(v)
    /\ (view[v].kind = "full" /\ view[v].snap = view[v].endSnap)
            => SignedTodayAgrees(view[v])

\* The inductive invariant: the ledger is well typed and its sign rows are
\* finitely many (so that a row count means something), the views are well
\* typed, and every view satisfies PerView.
ViewInv ==
    /\ TypeOK
    /\ IsFiniteSet(signLogs)
    /\ InfoTypeOK
    /\ \A v \in Views : PerView(v)

-----------------------------------------------------------------------------
\* A step of the ledger moves the clock forward or leaves it, and adds at
\* most one sign row: DoSignWriteLog is the only writer of the log table.
LEMMA LedgerGrows ==
    ASSUME TypeOK, [Next]_vars
    PROVE  /\ now <= now'
           /\ \/ signLogs' = signLogs
              \/ \E x : signLogs' = signLogs \cup {x}
<1>3. ASSUME NEW r \in Reqs,
             \/ \E u \in Users : DoSignCheckUser(r, u)
             \/ DoSignCheckToday(r)
             \/ DoSignIncreaseQuota(r)
      PROVE  now' = now /\ signLogs' = signLogs
  BY <1>3 DEF DoSignCheckUser, DoSignCheckToday, DoSignIncreaseQuota
<1>4. CASE Tick \/ (\E u \in Users : Register(u))
             \/ (\E v \in QuotaValues : SetQuotaForSign(v)) \/ Terminated
             \/ UNCHANGED vars
  BY <1>4 DEF Tick, Register, SetQuotaForSign, Terminated, vars, TypeOK
<1>5. now \in Nat
  BY DEF TypeOK
<1>6. ASSUME NEW r \in Reqs,
             \/ \E u \in Users : DoSignCheckUser(r, u)
             \/ DoSignCheckToday(r)
             \/ DoSignIncreaseQuota(r)
             \/ DoSignWriteLog(r)
      PROVE  /\ now <= now'
             /\ \/ signLogs' = signLogs
                \/ \E x : signLogs' = signLogs \cup {x}
  <2>1. CASE DoSignWriteLog(r)
    <3>1. now' = now
      BY <2>1 DEF DoSignWriteLog
    <3>2. \/ signLogs' = signLogs
          \/ signLogs' = signLogs \cup
                {[id |-> reqId[r], user |-> reqUser[r], at |-> now,
                  quota |-> reqQuota[r]]}
      BY <2>1 DEF DoSignWriteLog
    <3>3. now <= now'
      BY <1>5, <3>1
    <3>4. \/ signLogs' = signLogs
          \/ \E x : signLogs' = signLogs \cup {x}
      BY <3>2, Zenon
    <3>5. QED
      BY <3>3, <3>4
  <2>2. CASE ~DoSignWriteLog(r)
    BY <1>3, <1>5, <1>6, <2>2
  <2>3. QED
    BY <2>1, <2>2
<1>7. QED
  BY <1>4, <1>6 DEF Next

\* The day of a second is a natural.
LEMMA DayNat ==
    ASSUME NEW t \in Nat
    PROVE  DayOf(t) \in Nat
BY DaySecondsAssumption DEF DayOf

\* The sign rows stay finitely many and only grow.
LEMMA LogsGrowFinite ==
    ASSUME TypeOK, IsFiniteSet(signLogs), [Next]_vars
    PROVE  /\ now <= now'
           /\ signLogs \subseteq signLogs'
           /\ IsFiniteSet(signLogs')
<1>1. CASE signLogs' = signLogs
  BY <1>1, LedgerGrows
<1>2. ASSUME NEW x, signLogs' = signLogs \cup {x}
      PROVE  now <= now' /\ signLogs \subseteq signLogs' /\ IsFiniteSet(signLogs')
  <2>1. IsFiniteSet(signLogs \cup {x})
    BY FS_AddElement
  <2>2. QED
    BY <1>2, <2>1, LedgerGrows
<1>3. QED
  BY <1>1, <1>2, LedgerGrows

\* A set that grows within a finite set and keeps its number of elements is
\* the same set: the argument that an unchanged row count means unchanged
\* rows.
LEMMA SameCountSameSet ==
    ASSUME NEW S, NEW T, IsFiniteSet(T), S \subseteq T,
           Cardinality(S) = Cardinality(T)
    PROVE  S = T
BY FS_Subset

\* The rows of a user, as the count query of line 264 counts them, only
\* grow, and an unchanged count is an unchanged set of rows.
LEMMA UserRowsGrow ==
    ASSUME TypeOK, IsFiniteSet(signLogs), [Next]_vars, NEW u
    PROVE  /\ Cardinality(UserRows(u)) \in Nat
           /\ Cardinality(UserRows(u)') \in Nat
           /\ Cardinality(UserRows(u)) <= Cardinality(UserRows(u)')
           /\ Cardinality(UserRows(u)) = Cardinality(UserRows(u)')
                => UserRows(u) = UserRows(u)'
<1>1. signLogs \subseteq signLogs' /\ IsFiniteSet(signLogs')
  BY LogsGrowFinite
<1>2. UserRows(u) \subseteq UserRows(u)' /\ UserRows(u)' \subseteq signLogs'
  BY <1>1 DEF UserRows
<1>3. IsFiniteSet(UserRows(u)') /\ Cardinality(UserRows(u)') \in Nat
  BY <1>1, <1>2, FS_Subset, FS_CardinalityType
<1>4. IsFiniteSet(UserRows(u)) /\ Cardinality(UserRows(u)) \in Nat
      /\ Cardinality(UserRows(u)) <= Cardinality(UserRows(u)')
  BY <1>2, <1>3, FS_Subset, FS_CardinalityType
<1>5. QED
  BY <1>2, <1>3, <1>4, SameCountSameSet

\* HasUserSignedToday reads only the day and the user's rows.
LEMMA SignedTodayOfRows ==
    ASSUME NEW u, DayOf(now') = DayOf(now), UserRows(u)' = UserRows(u)
    PROVE  HasUserSignedToday(u)' = HasUserSignedToday(u)
<1>1. TodayStart' = TodayStart /\ TodayEnd' = TodayEnd
  BY DEF TodayStart, TodayEnd
<1>2. HasUserSignedToday(u) =
        \E l \in UserRows(u) : TodayStart <= l.at /\ l.at <= TodayEnd
  BY DEF HasUserSignedToday, UserRows
<1>3. HasUserSignedToday(u)' =
        \E l \in UserRows(u)' : TodayStart' <= l.at /\ l.at <= TodayEnd'
  BY DEF HasUserSignedToday, UserRows
<1>4. QED
  BY <1>1, <1>2, <1>3

\* The invariant holds initially: no view has started and no row exists.
LEMMA ViewInvInit == InfoInit => ViewInv
<1> SUFFICES ASSUME InfoInit PROVE ViewInv
  OBVIOUS
<1>1. TypeOK
  BY TypeInit DEF InfoInit
<1>2. IsFiniteSet(signLogs)
  BY FS_EmptySet DEF InfoInit, Init
<1>3. InfoTypeOK
  BY NoUserType DEF InfoInit, InfoTypeOK, ViewPhases, EmptyInfo
<1>4. \A v \in Views : PerView(v)
  BY DEF InfoInit, PerView, SnapBehind, SignedTodayCurrent, FullOnlyWhenDone,
         Reading, AfterToday, EmptyInfo
<1>5. QED
  BY <1>1, <1>2, <1>3, <1>4 DEF ViewInv

\* A step of the ledger (a DoSign step, a tick, a registration or an option
\* update) between two reads of a view keeps the view's invariant: the day
\* and the row count it snapshotted can only move forward, and if they are
\* back where the snapshot saw them then nothing moved, so signed_today is
\* still what HasUserSignedToday answers.
LEMMA LedgerStepKeepsView ==
    ASSUME TypeOK, IsFiniteSet(signLogs), InfoTypeOK, [Next]_vars,
           UNCHANGED viewVars, NEW v \in Views, PerView(v)
    PROVE  PerView(v)'
<1> DEFINE s == view[v].snap
<1>0. PICK u \in Users : u = vuser[v]
  BY DEF InfoTypeOK
<1>1. vpc' = vpc /\ vuser' = vuser /\ view' = view
  BY DEF viewVars
<1> USE <1>0, <1>1
<1>2. /\ Cardinality(UserRows(u)) \in Nat
      /\ Cardinality(UserRows(u)') \in Nat
      /\ Cardinality(UserRows(u)) <= Cardinality(UserRows(u)')
      /\ Cardinality(UserRows(u)) = Cardinality(UserRows(u)')
           => UserRows(u) = UserRows(u)'
  BY UserRowsGrow
<1>3. DayOf(now) \in Nat /\ DayOf(now') \in Nat /\ DayOf(now) <= DayOf(now')
  <2>1. now \in Nat /\ now' \in Nat /\ now <= now'
    BY TypeStep, LogsGrowFinite DEF TypeOK
  <2>2. DayOf(now) \in Nat /\ DayOf(now') \in Nat
    BY <2>1, DayNat
  <2>3. QED
    BY <2>1, <2>2, DayMonotone
<1>4. SnapBehind(v)'
  BY <1>1, <1>2, <1>3 DEF SnapBehind, PerView
<1>5. SignedTodayCurrent(v)'
  <2> SUFFICES ASSUME vpc[v] \in AfterToday, Quiet(v)'
               PROVE  view[v].signedToday = HasUserSignedToday(u)'
    BY <1>1 DEF SignedTodayCurrent
  <2>1. s[1] \in Nat /\ s[2] \in Nat /\ s[1] <= DayOf(now)
        /\ s[2] <= Cardinality(UserRows(u))
    BY DEF PerView, SnapBehind, AfterToday, Reading
  <2>2. s[1] = DayOf(now') /\ s[2] = Cardinality(UserRows(u)')
    BY <1>1 DEF Quiet
  <2>3. DayOf(now) = DayOf(now')
        /\ Cardinality(UserRows(u)) = Cardinality(UserRows(u)')
    BY <1>2, <1>3, <2>1, <2>2
  <2>4. UserRows(u) = UserRows(u)'
    BY <1>2, <2>3
  <2>5. HasUserSignedToday(u)' = HasUserSignedToday(u)
    BY <2>3, <2>4, SignedTodayOfRows
  <2>6. Quiet(v)
    BY <2>1, <2>2, <2>3 DEF Quiet
  <2>7. QED
    BY <2>5, <2>6 DEF PerView, SignedTodayCurrent
<1>6. QED
  BY <1>1, <1>4, <1>5 DEF PerView, FullOnlyWhenDone

\* A view step of another view, with the ledger untouched, leaves a view's
\* invariant alone.
LEMMA ViewFrame ==
    ASSUME NEW w \in Views, UNCHANGED vars,
           vpc'[w] = vpc[w], vuser'[w] = vuser[w], view'[w] = view[w],
           PerView(w)
    PROVE  PerView(w)'
BY DEF PerView, SnapBehind, SignedTodayCurrent, FullOnlyWhenDone, Quiet,
       UserRows, HasUserSignedToday, TodayStart, TodayEnd, DayOf, vars,
       SignedTodayAgrees

\* A store error ends a view with an error reply, never a full one.
LEMMA ErrorKeepsView ==
    ASSUME ViewInv, NEW v \in Views, ViewError(v), UNCHANGED vars,
           vuser' \in [Views -> Users]
    PROVE  InfoTypeOK' /\ PerView(v)'
<1>1. vpc' = [vpc EXCEPT ![v] = "done"]
  BY DEF ViewError
<1>2. /\ view'[v].kind = "error"
      /\ DOMAIN view'[v] = DOMAIN EmptyInfo
      /\ view'[v].signedToday = view[v].signedToday
      /\ view'[v].canSign = view[v].canSign
      /\ view' = [view EXCEPT ![v] = view'[v]]
  <2>1. view' = [view EXCEPT ![v] = [view[v] EXCEPT !.kind = "error"]]
    BY DEF ViewError
  <2>2. DOMAIN view[v] = DOMAIN EmptyInfo /\ DOMAIN view = Views
    BY DEF ViewInv, InfoTypeOK
  <2>3. QED
    BY <2>1, <2>2 DEF EmptyInfo
<1>3. QED
  BY <1>1, <1>2 DEF ViewInv, InfoTypeOK, ViewPhases, PerView, SnapBehind,
     SignedTodayCurrent, FullOnlyWhenDone, Reading, AfterToday

\* The option and user reads of lines 223-260 take the snapshot; the early
\* returns end the view with a short or an error reply.
LEMMA ReadUserKeepsView ==
    ASSUME ViewInv, NEW v \in Views, NEW u \in Users, InfoReadUser(v, u)
    PROVE  InfoTypeOK' /\ PerView(v)'
<1> USE DEF ViewInv
<1>1. UNCHANGED vars /\ vuser' = [vuser EXCEPT ![v] = u]
  BY DEF InfoReadUser
<1>2. Cardinality(UserRows(u)) \in Nat
  <2>1. UserRows(u) \subseteq signLogs
    BY DEF UserRows
  <2>2. QED
    BY <2>1, FS_Subset, FS_CardinalityType
<1>3. CASE vpc' = [vpc EXCEPT ![v] = "count"]
  <2>1. view'[v].snap = Snapshot(u) /\ view'[v].kind = "none"
        /\ DOMAIN view'[v] = DOMAIN EmptyInfo
        /\ view' = [view EXCEPT ![v] = view'[v]]
        /\ view'[v].signedToday = FALSE /\ view'[v].canSign = FALSE
    <3>1. vpc'[v] = "count"
      BY <1>3 DEF InfoTypeOK
    <3>2. PICK rem : view' = [view EXCEPT ![v] =
                        [[EmptyInfo EXCEPT !.enabled = quotaForSign > 0,
                                           !.quotaPerSign = quotaForSign,
                                           !.snap = Snapshot(u)]
                         EXCEPT !.remaining = rem]]
      BY <3>1 DEF InfoReadUser, ViewError, InfoTypeOK
    <3>3. QED
      BY <3>2, Zenon DEF InfoTypeOK, EmptyInfo
  <2>2. InfoTypeOK'
    BY <1>1, <1>3, <2>1 DEF InfoTypeOK, ViewPhases
  <2>3. vpc'[v] = "count" /\ vuser'[v] = u /\ now' = now /\ signLogs' = signLogs
    BY <1>1, <1>3 DEF InfoTypeOK, vars
  <2>4. DayOf(now) \in Nat
    BY DayNat DEF TypeOK
  <2>5. SnapBehind(v)'
    BY <1>2, <2>1, <2>3, <2>4 DEF SnapBehind, Reading, Snapshot, UserRows
  <2>6. PerView(v)'
    BY <2>1, <2>3, <2>5 DEF PerView, SignedTodayCurrent, FullOnlyWhenDone,
       AfterToday
  <2>7. QED
    BY <2>2, <2>6
<1>4. CASE vpc' = [vpc EXCEPT ![v] = "done"]
  <2>0. vpc'[v] = "done" /\ vuser' \in [Views -> Users]
    BY <1>1, <1>4 DEF InfoTypeOK
  <2>1. CASE ViewError(v)
    BY <1>1, <2>0, <2>1, ErrorKeepsView
  <2>2. CASE ~ViewError(v)
    <3>1. PICK reason : view' = [view EXCEPT ![v] =
                          [[EmptyInfo EXCEPT !.enabled = quotaForSign > 0,
                                             !.quotaPerSign = quotaForSign,
                                             !.snap = Snapshot(u)]
                           EXCEPT !.kind = "short", !.reason = reason]]
      BY <2>0, <2>2 DEF InfoReadUser, InfoTypeOK
    <3>2. /\ view'[v].kind = "short"
          /\ DOMAIN view'[v] = DOMAIN EmptyInfo
          /\ view' = [view EXCEPT ![v] = view'[v]]
          /\ view'[v].signedToday = FALSE /\ view'[v].canSign = FALSE
      BY <3>1, Zenon DEF InfoTypeOK, EmptyInfo
    <3>3. QED
      BY <1>4, <2>0, <3>2 DEF InfoTypeOK, ViewPhases, PerView, SnapBehind,
         SignedTodayCurrent, FullOnlyWhenDone, Reading, AfterToday
  <2>3. QED
    BY <2>1, <2>2
<1>5. QED
  BY <1>3, <1>4 DEF InfoReadUser, ViewError

\* A read that fills in one field of a view in progress and moves it to
\* its next read keeps the view's invariant, provided signed_today, once the
\* view is past its read, is what HasUserSignedToday answers or what it was.
LEMMA FieldStepKeepsView ==
    ASSUME ViewInv, NEW v \in Views, UNCHANGED <<vars, vuser>>,
           vpc[v] \in Reading, NEW p \in Reading,
           vpc' = [vpc EXCEPT ![v] = p],
           NEW R, view' = [view EXCEPT ![v] = R],
           DOMAIN R = DOMAIN EmptyInfo,
           R.snap = view[v].snap, R.kind = view[v].kind,
           R.canSign = view[v].canSign, R.signedToday \in BOOLEAN,
           p \in AfterToday =>
               \/ R.signedToday = HasUserSignedToday(vuser[v])
               \/ vpc[v] \in AfterToday /\ R.signedToday = view[v].signedToday
    PROVE  InfoTypeOK' /\ PerView(v)'
<1>1. view'[v] = R /\ vpc'[v] = p /\ vuser'[v] = vuser[v]
  BY DEF ViewInv, InfoTypeOK
<1>2. InfoTypeOK'
  BY <1>1 DEF ViewInv, InfoTypeOK, ViewPhases, Reading
<1>3. UNCHANGED <<now, signLogs>>
  BY DEF vars
<1>4. HasUserSignedToday(vuser[v])' = HasUserSignedToday(vuser[v])
      /\ Quiet(v)' = Quiet(v)
  BY <1>1, <1>3 DEF HasUserSignedToday, TodayStart, TodayEnd, Quiet,
     UserRows
<1>5. SnapBehind(v)'
  BY <1>1, <1>3 DEF ViewInv, PerView, SnapBehind, UserRows
<1>6. SignedTodayCurrent(v)'
  BY <1>1, <1>4 DEF ViewInv, PerView, SignedTodayCurrent
<1>7. view[v].kind # "full"
  BY DEF ViewInv, PerView, FullOnlyWhenDone, Reading
<1>8. QED
  BY <1>1, <1>2, <1>5, <1>6, <1>7 DEF PerView, FullOnlyWhenDone

\* The count query (lines 263-271), HasUserSignedToday (lines 274-278) and
\* GetUserSignList (lines 281-285) fill in one field each and keep the
\* snapshot; signed_today is read now, from the same rows and day that the
\* invariant compares it with.
LEMMA ReadsKeepView ==
    ASSUME ViewInv, NEW v \in Views,
           InfoCount(v) \/ InfoSignedToday(v) \/ InfoSignList(v)
    PROVE  InfoTypeOK' /\ PerView(v)'
<1>0. UNCHANGED <<vars, vuser>> /\ vuser' \in [Views -> Users]
      /\ DOMAIN view[v] = DOMAIN EmptyInfo /\ view[v].signedToday \in BOOLEAN
  BY DEF InfoCount, InfoSignedToday, InfoSignList, ViewInv, InfoTypeOK
<1>1. CASE ViewError(v)
  BY <1>0, <1>1, ErrorKeepsView
<1>2. CASE InfoCount(v) /\ ~ViewError(v)
  <2>1. /\ vpc[v] = "count" /\ vpc' = [vpc EXCEPT ![v] = "today"]
        /\ view' = [view EXCEPT ![v] =
                       [view[v] EXCEPT !.total = Cardinality(UserRows(vuser[v]))]]
    BY <1>2 DEF InfoCount
  <2>2. QED
    BY <1>0, <2>1, FieldStepKeepsView DEF Reading, AfterToday, EmptyInfo
<1>3. CASE InfoSignedToday(v) /\ ~ViewError(v)
  <2> DEFINE R == [view[v] EXCEPT !.signedToday = HasUserSignedToday(vuser[v])]
  <2>1. /\ vpc[v] = "today" /\ vpc' = [vpc EXCEPT ![v] = "list"]
        /\ view' = [view EXCEPT ![v] = R]
    BY <1>3 DEF InfoSignedToday
  <2>2. /\ DOMAIN R = DOMAIN EmptyInfo
        /\ R.snap = view[v].snap /\ R.kind = view[v].kind
        /\ R.canSign = view[v].canSign
        /\ R.signedToday = HasUserSignedToday(vuser[v])
    BY <1>0, Zenon DEF EmptyInfo
  <2> HIDE DEF R
  <2>3. R.signedToday \in BOOLEAN
    BY <2>2 DEF HasUserSignedToday
  <2>4. QED
    BY <1>0, <2>1, <2>2, <2>3, FieldStepKeepsView DEF Reading, AfterToday
<1>4. CASE InfoSignList(v) /\ ~ViewError(v)
  <2>1. /\ vpc[v] = "list" /\ vpc' = [vpc EXCEPT ![v] = "elig"]
        /\ view' = [view EXCEPT ![v] =
                       [view[v] EXCEPT !.list = GetUserSignList(vuser[v])]]
    BY <1>4 DEF InfoSignList
  <2>2. QED
    BY <1>0, <2>1, FieldStepKeepsView DEF Reading, AfterToday, EmptyInfo
<1>5. QED
  BY <1>1, <1>2, <1>3, <1>4

\* The first part of CheckUserSignEligibility never answers "already signed
\* today": that reason comes only from its signed-today query.
LEMMA ReasonNotSigned ==
    ASSUME NEW u
    PROVE  EligibilityReason(u) # "signed"
BY DEF EligibilityReason

\* A reply of CheckUserSignEligibility ends the view with a full SignInfo
\* and the second snapshot.  If the reply's can_sign and reason agree with
\* HasUserSignedToday now, they agree with signed_today in a quiet view.
LEMMA ReplyKeepsView ==
    ASSUME ViewInv, NEW v \in Views, UNCHANGED <<vars, vuser>>,
           vpc[v] \in AfterToday, vpc' = [vpc EXCEPT ![v] = "done"],
           NEW can \in BOOLEAN, NEW reason,
           can => ~HasUserSignedToday(vuser[v]),
           reason = "signed" => HasUserSignedToday(vuser[v]),
           NEW R, view' = [view EXCEPT ![v] = R],
           DOMAIN R = DOMAIN EmptyInfo,
           R.kind = "full", R.canSign = can, R.reason = reason,
           R.snap = view[v].snap, R.signedToday = view[v].signedToday,
           R.endSnap = Snapshot(vuser[v])
    PROVE  InfoTypeOK' /\ PerView(v)'
<1>1. view'[v] = R /\ vpc'[v] = "done"
  BY DEF ViewInv, InfoTypeOK
<1>2. InfoTypeOK'
  BY <1>1 DEF ViewInv, InfoTypeOK, ViewPhases
<1>3. R.snap = R.endSnap => Quiet(v)
  BY DEF Quiet, Snapshot
<1>4. Quiet(v) => view[v].signedToday = HasUserSignedToday(vuser[v])
  BY DEF ViewInv, PerView, SignedTodayCurrent
<1>5. QED
  BY <1>1, <1>2, <1>3, <1>4 DEF PerView, SnapBehind, SignedTodayCurrent,
     FullOnlyWhenDone, Reading, AfterToday, SignedTodayAgrees

\* CheckUserSignEligibility up to its window check (line 288): a refusal
\* ends the view with can_sign false and a reason other than "signed".
LEMMA EligibilityKeepsView ==
    ASSUME ViewInv, NEW v \in Views, InfoEligibility(v)
    PROVE  InfoTypeOK' /\ PerView(v)'
<1>0. /\ UNCHANGED <<vars, vuser>> /\ vpc[v] = "elig"
      /\ DOMAIN view[v] = DOMAIN EmptyInfo /\ view[v].signedToday \in BOOLEAN
  BY DEF InfoEligibility, ViewInv, InfoTypeOK
<1>1. CASE vpc' = [vpc EXCEPT ![v] = "eligtoday"]
  <2>1. view' = view
    BY <1>1 DEF InfoEligibility, ViewInv, InfoTypeOK
  <2>2. InfoTypeOK'
    BY <1>0, <1>1, <2>1 DEF ViewInv, InfoTypeOK, ViewPhases
  <2>3. PerView(v)'
    BY <1>0, <1>1, <2>1 DEF ViewInv, InfoTypeOK, PerView, SnapBehind,
       SignedTodayCurrent, FullOnlyWhenDone, Reading, AfterToday, Quiet,
       UserRows, HasUserSignedToday, TodayStart, TodayEnd, vars
  <2>4. QED
    BY <2>2, <2>3
<1>2. CASE vpc' = [vpc EXCEPT ![v] = "done"]
  <2>0. ~(vpc' = [vpc EXCEPT ![v] = "eligtoday"])
    BY <1>2 DEF ViewInv, InfoTypeOK
  <2>1. PICK reason : /\ reason # "signed"
                      /\ view' = [view EXCEPT ![v].kind = "full",
                                              ![v].canSign = FALSE,
                                              ![v].reason = reason,
                                              ![v].endSnap = Snapshot(vuser[v])]
    <3>1. CASE EligibilityReason(vuser[v]) # "ok"
               /\ view' = [view EXCEPT ![v].kind = "full",
                                       ![v].canSign = FALSE,
                                       ![v].reason = EligibilityReason(vuser[v]),
                                       ![v].endSnap = Snapshot(vuser[v])]
      BY <3>1, ReasonNotSigned
    <3>2. CASE view' = [view EXCEPT ![v].kind = "full",
                                   ![v].canSign = FALSE,
                                   ![v].reason = "lookup",
                                   ![v].endSnap = Snapshot(vuser[v])]
      BY <3>2
    <3>3. QED
      BY <2>0, <3>1, <3>2 DEF InfoEligibility
  <2> DEFINE R == [view[v] EXCEPT !.kind = "full", !.canSign = FALSE,
                                  !.reason = reason,
                                  !.endSnap = Snapshot(vuser[v])]
  <2>2. view' = [view EXCEPT ![v] = R]
    BY <2>1
  <2>3. /\ DOMAIN R = DOMAIN EmptyInfo
        /\ R.kind = "full" /\ R.canSign = FALSE /\ R.reason = reason
        /\ R.snap = view[v].snap /\ R.signedToday = view[v].signedToday
        /\ R.endSnap = Snapshot(vuser[v])
    BY <1>0, Zenon DEF EmptyInfo
  <2> HIDE DEF R
  <2>4. QED
    BY <1>0, <1>2, <2>1, <2>2, <2>3, ReplyKeepsView DEF AfterToday
<1>3. QED
  BY <1>1, <1>2 DEF InfoEligibility

\* The signed-today query of CheckUserSignEligibility (lines 288-292): when
\* the snapshot at the reply equals the first one, the day and the user's
\* rows are those signed_today was read from, so the two reads agree.
LEMMA EligibilityTodayKeepsView ==
    ASSUME ViewInv, NEW v \in Views, InfoEligibilityToday(v)
    PROVE  InfoTypeOK' /\ PerView(v)'
<1>0. /\ UNCHANGED <<vars, vuser>> /\ vpc[v] = "eligtoday"
      /\ vpc' = [vpc EXCEPT ![v] = "done"]
      /\ DOMAIN view[v] = DOMAIN EmptyInfo
  BY DEF InfoEligibilityToday, ViewInv, InfoTypeOK
<1> DEFINE Reply(c, r) == [view EXCEPT ![v].kind = "full", ![v].canSign = c,
                                       ![v].reason = r,
                                       ![v].endSnap = Snapshot(vuser[v])]
<1>1. PICK can \in BOOLEAN, reason \in {"signed", "ok", "checkfail"} :
        /\ view' = Reply(can, reason)
        /\ can => ~HasUserSignedToday(vuser[v])
        /\ reason = "signed" => HasUserSignedToday(vuser[v])
  <2> HIDE DEF Reply
  <2>1. CASE HasUserSignedToday(vuser[v]) /\ view' = Reply(FALSE, "signed")
    <3> WITNESS FALSE \in BOOLEAN, "signed" \in {"signed", "ok", "checkfail"}
    <3> QED
      BY <2>1
  <2>2. CASE ~HasUserSignedToday(vuser[v]) /\ view' = Reply(TRUE, "ok")
    <3> WITNESS TRUE \in BOOLEAN, "ok" \in {"signed", "ok", "checkfail"}
    <3> QED
      BY <2>2
  <2>3. CASE view' = Reply(FALSE, "checkfail")
    <3> WITNESS FALSE \in BOOLEAN, "checkfail" \in {"signed", "ok", "checkfail"}
    <3> QED
      BY <2>3
  <2>4. QED
    BY <2>1, <2>2, <2>3 DEF InfoEligibilityToday, Reply
<1> DEFINE R == [view[v] EXCEPT !.kind = "full", !.canSign = can,
                                !.reason = reason,
                                !.endSnap = Snapshot(vuser[v])]
<1>2. view' = [view EXCEPT ![v] = R]
  BY <1>1
<1>3. /\ DOMAIN R = DOMAIN EmptyInfo
      /\ R.kind = "full" /\ R.canSign = can /\ R.reason = reason
      /\ R.snap = view[v].snap /\ R.signedToday = view[v].signedToday
      /\ R.endSnap = Snapshot(vuser[v])
  BY <1>0, Zenon DEF EmptyInfo
<1> HIDE DEF R
<1>4. QED
  BY <1>0, <1>1, <1>2, <1>3, ReplyKeepsView DEF AfterToday

\* A step of view v changes the ledger and the other views not at all.
LEMMA ViewStepIsLocal ==
    ASSUME InfoTypeOK, NEW v \in Views,
           \/ \E u \in Users : InfoReadUser(v, u)
           \/ InfoCount(v) \/ InfoSignedToday(v) \/ InfoSignList(v)
           \/ InfoEligibility(v) \/ InfoEligibilityToday(v)
    PROVE  /\ UNCHANGED vars
           /\ \A w \in Views \ {v} :
                 vpc'[w] = vpc[w] /\ vuser'[w] = vuser[w] /\ view'[w] = view[w]
BY DEF InfoTypeOK, InfoReadUser, ViewError, InfoCount, InfoSignedToday,
       InfoSignList, InfoEligibility, InfoEligibilityToday

\* Every step of the composition keeps the invariant.
LEMMA ViewInvStep == ViewInv /\ [InfoNext]_allVars => ViewInv'
<1> SUFFICES ASSUME ViewInv, [InfoNext]_allVars PROVE ViewInv'
  OBVIOUS
<1>1. CASE [Next]_vars /\ UNCHANGED viewVars
  <2>1. TypeOK' /\ IsFiniteSet(signLogs')
    BY <1>1, TypeStep, LogsGrowFinite DEF ViewInv
  <2>2. InfoTypeOK'
    BY <1>1 DEF ViewInv, InfoTypeOK, viewVars
  <2>3. \A v \in Views : PerView(v)'
    BY <1>1, LedgerStepKeepsView DEF ViewInv
  <2>4. QED
    BY <2>1, <2>2, <2>3 DEF ViewInv
<1>2. ASSUME NEW v \in Views,
             \/ \E u \in Users : InfoReadUser(v, u)
             \/ InfoCount(v) \/ InfoSignedToday(v) \/ InfoSignList(v)
             \/ InfoEligibility(v) \/ InfoEligibilityToday(v)
      PROVE  ViewInv'
  <2>1. InfoTypeOK' /\ PerView(v)'
    BY <1>2, ReadUserKeepsView, ReadsKeepView, EligibilityKeepsView,
       EligibilityTodayKeepsView
  <2>2. /\ UNCHANGED vars
        /\ \A w \in Views \ {v} :
              vpc'[w] = vpc[w] /\ vuser'[w] = vuser[w] /\ view'[w] = view[w]
    BY <1>2, ViewStepIsLocal DEF ViewInv
  <2>3. \A w \in Views \ {v} : PerView(w)'
    BY <2>2, ViewFrame DEF ViewInv
  <2>4. TypeOK' /\ IsFiniteSet(signLogs')
    BY <2>2 DEF ViewInv, TypeOK, vars
  <2>5. QED
    BY <2>1, <2>3, <2>4 DEF ViewInv
<1>3. CASE UNCHANGED allVars
  BY <1>1, <1>3 DEF allVars
<1>4. QED
  BY <1>1, <1>2, <1>3 DEF InfoNext

\* GetUserSignInfo: in every reply built while the day and the user's sign
\* rows stayed as the first read saw them, signed_today, can_sign and the
\* reason "already signed today" agree, for any number of DoSign handlers
\* and views, failing stores included.
THEOREM QuietViewAgreesOnToday == InfoSpec => []QuietViewsAgreeOnToday
<1>1. InfoInit => ViewInv
  BY ViewInvInit
<1>2. ViewInv /\ [InfoNext]_allVars => ViewInv'
  BY ViewInvStep
<1>3. ViewInv => QuietViewsAgreeOnToday
  BY DEF ViewInv, PerView, QuietViewsAgreeOnToday
<1>4. QED
  BY <1>1, <1>2, <1>3, PTL DEF InfoSpec

=============================================================================
