# Verification of the daily check-in ("sign") feature

This directory holds TLA+ models of the check-in feature of new-api
(`src/model/sign.go`, `src/controller/sign.go`,
`src/setting/operation_setting/checkin_setting.go`,
`src/web/src/components/signin/index.jsx`). It also holds the TLC
configurations that check the models and the TLAPS proofs about them.

## 1. Inventory

### Components and their state

| Component | Source | State it keeps | Operations |
|---|---|---|---|
| Clock utility | `model/sign.go:26-40` | none (reads `time.Now()`) | `GetTodayStartTimestamp`, `GetTodayEndTimestamp` |
| Eligibility evaluator | `model/sign.go:42-81` | none; reads `common.QuotaForSign`, `common.SignInDays`, the user row, the group policy and the log table | `CheckUserSignEligibility` |
| Reward ledger | `model/sign.go:83-141` | the user's `Quota` (user table) and the rows of type `LogTypeSign` (log table). The log table is the only record of "signed on day D". | `HasUserSignedToday`, `DoSign` |
| Calendar builder | `model/sign.go:143-206` | none; reads the user row and all of the user's sign rows | `GetUserSignList` |
| Info aggregator | `model/sign.go:208-295` | none; composes the above in separate queries | `GetUserSignInfo` |
| HTTP controller | `controller/sign.go` | none | `Sign`, `GetSignList`, `GetSignInfo` (each refuses user id 0) |
| Check-in settings | `setting/operation_setting/checkin_setting.go` | `checkinSetting` (enabled, min/max quota, new-user days) | getters only. Nothing in the sign path reads them: the path uses `common.QuotaForSign` and `common.SignInDays`. |
| Web client | `web/.../signin/index.jsx` | per component: `loading`, `signLoading`, `signInfo`, `signList` (and `modalVisible`); the shared `UserContext` quota | `getSignInfo`, `doSign` |

### How they interact

The web client calls the controller over HTTP. Two components (the `SignIn`
card and the `SignInButton` modal) can be mounted together, and each can
post `/api/user/sign` on its own. The server runs each request on its own
goroutine, so `DoSign` calls of one user can run at the same time.

`DoSign` is not atomic. It makes several separate store calls:

1. `GetUserById`;
2. reads the clock for the window (line 66);
3. a count query on the log table for today's range, which reads the clock again (lines 85-92);
4. `IncreaseUserQuota`;
5. `LOG_DB.Create` of the sign row, stamped with a third clock read (line 126).

Between any two of these, other requests, midnight, or an option update of
`common.QuotaForSign` can come in. The global is read without a lock at
lines 46 and 116.

### What is hard

- **Check-then-act.** "Already signed today" is a query over the log
  table, and the row is written two store calls later. Nothing serialises
  the calls of one user.
- **Partial failure.** A failed row write after the quota increase is only
  logged. The reward stays and the day looks unsigned.
- **Time.** The window is measured in 24-hour units from the registration
  second, while "today" is a calendar day. Three separate clock reads can
  straddle midnight.
- **Stale configuration.** The reward is re-read after the eligibility
  check.
- **Composite reads.** `GetUserSignInfo` makes four queries that are not a
  snapshot.
- **Client.** A second `doSign` can start before the first returns. The
  client patches the quota from the value it captured at render.

### What makes each component correct

- **Ledger.**
  - A user is rewarded at most once per calendar day (spec section 5).
  - Every audit row stands for a reward actually given.
  - A disabled feature gives nothing.
  - The number of rewards is bounded by the window.
- **Eligibility.** The reasons come in the documented order. A legacy
  user is never eligible.
- **Calendar.**
  - Its length is (end - start) + 1.
  - Every day with a sign row inside the range is marked.
  - No other day is marked.
- **Info view.** Repeated reads with no sign in between agree. Its fields
  agree with each other.
- **Client.** The displayed quota is the server's quota after the replies
  are applied.

The hazards in `PROJECT.json` list each of these at the line where it can
break.

## 2. Plan

Modules, in order. The most important behaviour comes first.

1. **`SignLedger`** (done). `DoSign` and `CheckUserSignEligibility` as
   steps of request handlers. The clock, user registration and option
   updates are environment actions. `MCSignLedger` gives the model values.
   `SignLedgerProofs` holds the proofs.
2. **`SignCalendar`** (done). `GetUserSignList` as an operator of the
   ledger's state. The loop over days is a recursive function, not a
   RECURSIVE operator. It is checked against a reference definition on
   every state the sequential ledger run reaches (see section 3a).
3. **`SignInfoView`** (done). `GetUserSignInfo` as a handler with one step
   per read. It is composed with the ledger, so that its reads interleave
   with `DoSign` and with midnight (see section 3b).
4. **`SignInClient`** (done). The two React components composed with the
   ledger's `DoSign` handlers (see section 3c).
5. **Abstract specification `SignOnce`** (done). One atomic reward per
   user and day. `SignLedger` with one handler and no store faults is
   proved to implement it (section 3d, section 5).
6. **Proofs** (done): the refinement, the per-day bound and the window
   bound for one handler, and the client's displayed balance for any
   number of components; the info view's signed-today flags for any
   number of handlers and views. The calendar, and the calendar part of the
   info view's coherence, stay with TLC (section 5 says why).

Liveness is checked on the client (`SignSettles`, section 3c). Still to add:
with the log store never failing, every grant is eventually audited.

## 3. The model of the ledger (`SignLedger.tla`)

### Time and constants

Time is in seconds, with `DaySeconds` seconds to a day. Server-local
midnight falls at the multiples of `DaySeconds`, so
`DayOf(t) = t \div DaySeconds`. `TodayStart` and `TodayEnd` are
`GetTodayStartTimestamp` and `GetTodayEndTimestamp`. `RegisteredDays(u)` is
line 66. Its dividend is never negative, because `CreatedTime` is set from
the clock. So Go's truncating division is the floor.

The users whose group permits signing (`SignGroupUsers`) and the legacy
users with `CreatedTime = 0` (`LegacyUsers`) are constants. The group
policy and the user table are external.

### Variables

| Variable | Code |
|---|---|
| `now` | `common.GetTimestamp()` |
| `created[u]` | `user.CreatedTime`; `Unregistered` before the user exists |
| `quotaForSign` | `common.QuotaForSign` |
| `balance[u]` | `user.Quota`, counted from 0 |
| `signLogs` | the sign rows, as records `[id, user, at, quota]`. `id` is a history field naming the `DoSign` call that wrote the row. |
| `grants` | history of every successful `IncreaseUserQuota` made by `DoSign` |
| `pc[r]`, `reqUser[r]`, `reqId[r]`, `reqQuota[r]` | the step and locals of handler `r` |
| `issued` | number of `DoSign` calls, bounded by `MaxRequests` |

### Actions

One action per store call of `DoSign`:

- `DoSignCheckUser(r, u)`: controller `Sign`, then `CheckUserSignEligibility`
  up to the window check. An ineligible user returns at once. A
  `GetUserById` error is a failure disjunct.
- `DoSignCheckToday(r)`: the count query, which can fail.
- `DoSignIncreaseQuota(r)`: re-reads the reward. An error returns.
- `DoSignWriteLog(r)`: a failure is swallowed.

The environment actions are:

- `Tick`: the clock;
- `Register(u)`: a new user is created at `now`;
- `SetQuotaForSign(v)`: an option update;
- `Terminated`: the stuttering end once the bounds are used up.

The username lookup at line 113 is best effort and changes nothing. It is
part of `DoSignIncreaseQuota`.

Two parts of the code are abstracted:

- **The two clock reads at lines 85-86.** They cannot disagree in a way
  that matters: no row is stamped later than the current time, so widening
  the range to the next day finds nothing more.
- **`IncreaseUserQuota(userId, quota, true)`** is modelled as an atomic add
  that may fail. It is outside this slice. Spec section 6 gives it as
  `IncreaseBalance(id, amount) -> error`.

## 3a. The calendar (`SignCalendar.tla`)

`GetUserSignList` changes nothing, so it is an operator of the ledger's
state rather than an action. `SignCalendar` EXTENDS `SignLedger`, and every
property is checked on the ledger's reachable states. `MCSignCalendar`
EXTENDS `MCSignLedger` and `SignCalendar`.

| Definition | Code |
|---|---|
| `SignStartTime(u)` | lines 152-159: the registration second, or `LegacyLookbackDays` (30) days before now |
| `SignEndTime(u)` | lines 161-172: 23:59:59 today, or the deadline `start + SignInDays` days when strictly before it |
| `SignedDates(u)` | lines 174-190: the dates of all the user's sign rows |
| `GetUserSignList(u)` | lines 192-205: from midnight of the start day, one entry per day while the midnight is not after `endTime` |

A date string is the day number `DayOf(t)`, since formatting is injective on
days. The two store-error returns (lines 148-150 and 180-182) give no list.
They are left out because no property is about an error reply.

`CalendarRef(u)` is the reference, written from spec section 4.4: the days
`DayOf(start) .. DayOf(end)`, each signed iff a row falls on it.

## 3b. The info view (`SignInfoView.tla`)

`SignInfoView` EXTENDS `SignCalendar`. It adds the `GetSignInfo` requests
(`Views`), each served once.

| Variable | Code |
|---|---|
| `vpc[v]` | the step of the call |
| `vuser[v]` | its `userId` |
| `view[v]` | the `SignInfo` it builds (`EmptyInfo` is the struct at lines 209-219) |

`view[v]` also has three fields that are not in `SignInfo`:

- `kind` is "full", "short" (an early return) or "error".
- `snap` and `endSnap` are history fields. They hold the day, the user's
  row count and `QuotaForSign`, taken when the view starts and when it
  ends.

One action per read:

| Action | Code |
|---|---|
| `InfoReadUser(v, u)` | lines 222-260 |
| `InfoCount` | lines 262-271 |
| `InfoSignedToday` | lines 273-278 |
| `InfoSignList` | lines 280-285 |
| `InfoEligibility` | line 288: `CheckUserSignEligibility` to its window check. A failed lookup is the reason "lookup", not an error. |
| `InfoEligibilityToday` | its own signed-today query (lines 71-81) |

Every store error is `ViewError`, the `ApiError` reply of the controller.
`InfoNext` is the ledger's `Next` with the views unchanged, or a view step
with the ledger unchanged. Reading `common.QuotaForSign` twice at lines
224-225 is one read.

## 3c. The web client (`SignInClient.tla`)

The `SignIn` card and the `SignInButton` modal (`index.jsx`) run the same
`getSignInfo` and `doSign`. In the model they are the members of `Reqs`.
Component `c`'s POST is served by the ledger handler named `c`, so `DoSign`
runs in the ledger's own steps. `Me` is the logged-in user.

| Variable | Code |
|---|---|
| `ctxQuota` | `userState.user.quota` of the shared `UserContext` |
| `loading[c]`, `signLoading[c]`, `signInfo[c]` | the component's `useState` hooks. `signInfo` keeps the three fields the client acts on. |
| `captured[c]` | `userState.user.quota` in the closure of the rendered `doSign` |
| `sphase[c]`, `reply[c]`, `awaited[c]` | where `doSign` is, the POST's reply, and the GET it awaits |
| `fetches` | the GETs in flight, each named by `fetchSeq` |

The actions are:

- `Mount` (the effect);
- `GetSignInfoSend` (part of `Mount` and of `ApplySignReply`);
- `ServeInfo` (the controller answers a GET in one step, or with an
  `ApiError`);
- `ApplyInfo` (the `finally` of `getSignInfo`, which also ends an awaiting
  `doSign`);
- `ClickSign` (the button rendered when `!signed_today && can_sign`, and
  not loading);
- `ServeSign` and `ServeSignStep` (the ledger's `DoSign` steps for that
  POST, with `SignReply` deriving `Sign`'s reply from where the handler
  returned);
- `ApplySignReply` (the quota patch and the awaited refresh, or
  `showError`).

A GET's reply is computed in one step, `SignInfoOf`. The interleavings
inside `GetUserSignInfo` are the subject of `SignInfoView`. Replies can be
applied in any order.

**Fairness.** `ClientSpec` assumes weak fairness of:

- `ServeSign`, `ServeSignStep` and `ServeInfo`: each step is one store
  call, which returns or fails;
- `ApplySignReply` and `ApplyInfo`: the browser delivers each HTTP reply
  and runs the continuation.

The clock, registration, option updates and clicks are not fair. A user
may never click.

## 3d. What the ledger promises (`SignOnce.tla`, `SignOnceRefinement.tla`)

`SignOnce` states what the feature promises, with no handlers and no
store calls. Its state is the clock, `QuotaForSign`, the balances and the
set `rewarded` of (user, day) pairs that were rewarded. It has three
actions:

- `Reward(u)`: if `u` has no reward today, add one of the current
  `QuotaForSign` to the balance and record (u, today);
- `ATick`: the clock moves on;
- `SetQuota(v)`: an administrator changes the option.

`SignOnceRefinement` extends `SignLedger` and maps `rewarded` to
`RewardedDays`, the (user, day) pairs of the grants. The clock, the option
and the balances map to themselves. Under this mapping:

- the success branch of `DoSignIncreaseQuota` is `Reward`;
- `Tick` is `ATick`, `SetQuotaForSign` is `SetQuota`;
- every other ledger step (the checks, the row write, a registration) is
  a stutter.

`SignOnceSpec` (the abstract `ASpec`) is a property of `ledger_sequential`.
It holds when one client waits for each reply and the stores do not fail.
It fails with two handlers (`race_double_grant`) and with a lost row write
(`lost_audit_double_grant`): these runs are the two ways the
implementation leaves the promise.

## 4. Runs

The constants in every run are `DaySeconds = 2` and `SignInDays = 2`. Two
seconds a day is enough for a user to register at midnight or after it. A
two-day window is enough for the window to end in the middle of a day.
`MaxTime` covers three to four days.

| Run | Setting | Checks | Result |
|---|---|---|---|
| `ledger_sequential` (module `MCSignCalendar`) | 1 handler, 2 users (u2 legacy, outside the sign group), no faults, `MaxTime 8`, `MaxRequests 5`, legacy look-back 30 days | `GrantsWithinWindow` (at most SignInDays + 2 rewards), `CalendarMatchesReference`, `SignOnceSpec` (refinement; implies at most one reward a day) | pass, 35k states |
| `ledger_faults` | 2 handlers, 2 users, all store faults, reward switched between 0 and 2 | `TypeOK`, `AuditBackedByGrant` | pass, 4.2M states |
| `race_double_grant` | 2 handlers | `AtMostOneGrantPerDay` | violation: both calls pass the query before either writes |
| `lost_audit_double_grant` | 1 handler, faults | `AtMostOneGrantPerDay` | violation: the row write fails, the user signs again |
| `window_days` | 1 handler | `GrantsWithinSignInDays` | violation: registered one second after a midnight (second 1 of day d; TLC's trace shows d = 0 or d = 1 depending on the search order), signs on days d, d + 1 and d + 2 |
| `calendar_unshown_sign` | 1 handler, 1 user | `CalendarShowsEverySignedDay` | violation: the window check passes on the calendar's last day, the row is written after midnight |
| `view_faults` | 1 handler, 1 view, 3 users (new, legacy, barred), faults, reward 0 or 2, `MaxTime 4` | `ViewCoherentWhenQuiet` | pass, 2.1M states |
| `view_torn` | 1 handler, 1 view, no faults | `ViewCoherent` | violation: a sign lands between the count query and the calendar |
| `view_remaining_days` | as `view_torn` | `RemainingDaysAfterFirstSign` | violation: scenario B expects SignInDays - 1, the code gives SignInDays |
| `client_faults` | card and modal, 1 user, faults, reward 0 or 2, `MaxTime 3`, `MaxRequests 2` | `DisplayedQuotaNeverAhead`, `SignSettles` (liveness) | pass, 552k states |
| `client_lost_patch` | card and modal, no faults | `DisplayedQuotaCatchesUp` | violation: both components patch from the same captured quota |
| `disabled_grant` | reward switched to 0 | `NoGrantWhileDisabled` | violation: a grant of 0 reported as success |

### Bounds

`MaxRequests 5` in the sequential run is enough for the window mutant to
reach SignInDays + 3 rewards. Every bound appears in a guard: `Tick`
requires `now < MaxTime`, and a new call requires `issued < MaxRequests`.

### Mutants

Each property of a passing run is broken by a mutant of the code:

- the signed-today range without its last second (breaks `SignOnceSpec`:
  a row at 23:59:59 is missed and the same day is rewarded twice);
- the window compared with `>`;
- `IncreaseUserQuota`'s error not returning;
- a "rollback" of a failed increase;
- the signed-today query without its last second, which makes the info
  view disagree with the calendar (`ViewCoherentWhenQuiet`);
- the client patch adding the displayed `quota_per_sign` instead of the
  reply's `data.quota`;
- the refresh's `finally` ending `doSign` only when the GET succeeded;
- the calendar loop stopping at `Before(endTime)`, which drops the last day
  when the deadline falls exactly at midnight (a user registered at
  midnight).

### Findings

The eight violation runs are findings:

- the check-then-act race;
- the lost audit row that re-opens the day;
- the SignInDays + 1 (or + 2) sign-in days;
- the reward re-read after the check;
- a signed day missing from the calendar. The calendar stops on the day of
  `CreatedTime + SignInDays` days, but the row is stamped when it is
  written (line 126). A call that passes the window check in the window's
  last seconds and writes its row after the next midnight leaves that day
  out. This needs a registration just before midnight, so tests never meet
  it.
- an info view that contradicts itself. `Coherent` asks four things:
  - `signed_today` agrees with today's calendar entry;
  - `signed_today` agrees with the reason "already signed";
  - a user who signed today cannot sign;
  - `total_sign_days` counts at least the days the calendar marks.
  A `DoSign` between the queries breaks it. It holds whenever nothing the
  view reads changes (`ViewCoherentWhenQuiet`), so the queries agree with
  each other, and only the missing snapshot is at fault;
- `remaining_days` on the registration day (scenario B);
- the lost quota patch in the client. The card and the modal both sign and
  both are rewarded: either the server race, or two calls on either side of
  midnight. Each sets the context quota to its own captured value plus its
  reward, so the page shows one reward too few.

`GrantsWithinWindow` states the tight bound. A 24-hour window touches
SignInDays + 1 calendar days. A call whose window check (line 66) falls
before midnight and whose today query (line 85) falls after it adds one
more.

## 5. Proofs

### `SignLedgerProofs.tla`

Both theorems hold for every value of the constants that meets the named
assumptions. These are: `Users` and `Reqs` non-empty, `DaySeconds` a
positive natural, and `QuotaValues` a non-empty set of naturals.

- **`TypeCorrect: Spec => []TypeOK`.** Proved from `TypeInit` and
  `TypeStep`, with one step per action.
- **`AuditNeverOverstates: Spec => []AuditBackedByGrant`.**
  `AuditBackedByGrant` is not inductive on its own. `DoSignWriteLog` adds a
  row whose backing grant was made by an earlier step of the same handler.
  The strengthening `AuditInv = TypeOK /\ AuditBackedByGrant /\
  PendingBacked` adds `PendingBacked`. It says that a handler at the "log"
  step already holds a grant with its own call id, user and quota, made no
  later than now. It was checked with TLC as an invariant of `ledger_faults`
  before it was proved.
  - `AuditInvStep` has one step per action.
  - `DoSignIncreaseQuota` is split into its success and error cases. The
    success case is split again into the handler that moved and the
    others.
  - `DoSignWriteLog` picks the pending grant as the witness.

### `SignOnceProofs.tla`

These results assume one handler and no store faults
(`Solo(r) == Reqs = {r} /\ ~StoreFaults`), the setting of
`ledger_sequential`. Every other constant is arbitrary.

- **`OneRewardPerDay: Spec => []AtMostOneGrantPerDay`.**
  `AtMostOneGrantPerDay` is not inductive on its own. A grant made while
  the user had a grant today would break it, and the only thing that
  prevents this is the signed-today query. The strengthening `OnceInv(r)`
  adds four conjuncts:
  - `NotAhead`: rows and grants are dated no later than the clock;
  - `CallIds`: grant ids are at most `issued`, and before its
    `IncreaseUserQuota` no grant has the handler's id;
  - `GrantsLogged`: every grant except the pending one has a row of its
    user dated no earlier;
  - `NoGrantToday`: a handler at the "quota" step holds a user with no
    grant on the current day.

  `DoSignCheckToday` establishes `NoGrantToday`. A grant's row is no later
  than now, and so no later than `TodayEnd`. The query found no row in
  today's range, so the row is before `TodayStart` and the grant is on an
  earlier day. Three lemmas about `\div` carry this: `DayBounds`,
  `DayMonotone` and `DayBefore`. `Tick` keeps it by `DayMonotone`.
  `OnceInv` was checked with TLC on `ledger_sequential` before it was
  proved.
- **`ImplementsSignOnce: Spec => SignOnceSpec`.** `RefineInit` shows that
  the initial states map to `AInit`. `RefineStep` shows, under `OnceInv`,
  that each step maps to a step or a stutter of `SignOnce`.
  `IncreaseUserQuota` is `Reward` because `NoGrantToday` puts (user, today)
  outside `RewardedDays`.

### `SignWindowProofs.tla`

- **`RewardsWithinWindow: Spec => []GrantsWithinWindow`** under `Solo(r)`.
  It holds for every `SignInDays`, `DaySeconds`, option values and clock
  bound. The argument counts days:
  - the rewards of a user fall on distinct days (`AtMostOneGrantPerDay`,
    from `OnceInv`);
  - every reward is on the registration day or later;
  - at most one reward is after `LastWindowDay(u)`, the day of
    `CreatedTime + SignInDays * DaySeconds - 1`. A second one would need
    a window check after that reward, and every such check is refused.

  So at most SignInDays + 1 rewards fall in the window's days (the lemma
  `InWindowCount`: an injection into an interval, `FS_Injection`), and one
  more may come after it (`WindowCount`, with `FS_Union`).
  The inductive invariant `WindowInv(r)` adds four conjuncts to `OnceInv`:
  - `CreatedNotAhead`;
  - `GrantsAfterRegistration`: a rewarded user has `CreatedTime > 0`, no
    later than each reward;
  - `PendingInWindow`: a handler past the window check holds a user none
    of whose rewards is past the window;
  - `OneLateGrant`.

  `EligibleInWindow` reads the window check out of the CASE of
  `EligibilityReason`. The arithmetic lemmas `WindowEnd` and `WindowSpan`
  turn it into day numbers. `WindowInv` was checked with TLC before the
  proof: on `ledger_sequential`, and with `DaySeconds`/`SignInDays` set to
  3/1 and 2/0 and both users in the sign group (up to 2.1M states).

### `SignInClientProofs.tla`

- **`DisplayNeverAhead: ClientSpec => []DisplayedQuotaNeverAhead`.** This
  needs no hypothesis: any number of components, store faults and option
  values. The fairness conjuncts of `ClientSpec` are not used.
  - `ClientStepIsLedgerStep` shows that every page step is a ledger step
    or leaves the ledger alone, so `TypeStep` gives `TypeOK`.
  - The invariant `ClientInv` adds `HandlerServesPost`: a busy handler
    runs its own component's POST for `Me`.
  - It also adds `PatchesBacked`: each component's captured quota is
    behind the balance, and so is captured + reward from the moment
    `IncreaseUserQuota` succeeds. The reward sits in `reqQuota` while the
    row is written, and in the reply after that.
  - The patch `captured + data.quota` is then behind the balance, whatever
    the other component has done.

  The balance in this model only grows, because the only quota change it
  models is `DoSign`'s increase. Spending quota on API calls happens in
  code outside `src/` and is not modelled. So the theorem, and the
  `client_faults` run, hold within the sign feature only.

  TLC checked `ClientInv` on `client_faults` (552k states) before the
  proof. `StepOfOne` and `BackedKept` carry the frame argument: a step of
  one component leaves the others backed.

### `SignInfoViewProofs.tla`

- **`QuietViewAgreesOnToday: InfoSpec => []QuietViewsAgreeOnToday`.** This
  needs no hypothesis: any number of `DoSign` handlers and
  `GetUserSignInfo` views, store faults and option updates.
  - The statement: take a view whose snapshot of the day, the user's row
    count and `QuotaForSign` is the same at its first read (line 223) and
    at its eligibility reply (line 288). Then `can_sign` implies
    `signed_today = false`, and the reason "already signed today" implies
    `signed_today = true`.
  - These are the conjuncts of `Coherent` that do not come from the
    calendar (`SignedTodayAgrees`). Without the quiet premise they fail:
    `view_torn` shows it.
  - The argument: sign rows are only added (`LedgerGrows`,
    `LogsGrowFinite`), and the set of rows is finite. So a user's row count
    can only grow. A count that is the same at two reads means the same
    set of rows (`SameCountSameSet`, `UserRowsGrow`, from `FS_Subset`).
  - The clock only advances, so the same day at two reads means the same
    window `[TodayStart, TodayEnd]`. `HasUserSignedToday` then gives the
    same answer at both reads (`SignedTodayOfRows`).
  - The inductive invariant `ViewInv` adds these facts for every view in
    progress:
    - `SnapBehind`: the snapshot is not ahead of the clock and the rows;
    - `SignedTodayCurrent`: while nothing moved since the snapshot,
      `signed_today` is what `HasUserSignedToday` answers now;
    - `FullOnlyWhenDone`;
    - the finiteness of the log table.
  - `QuietViewsAgreeOnToday` is not inductive alone. A quota change and
    its reversal can restore the snapshot's third field, so the
    invariant's premise (`Quiet`) leaves the quota out and speaks of the
    day and the count only.
  - There is one lemma per view step (`ReadUserKeepsView`,
    `ReadsKeepView`, `EligibilityKeepsView`,
    `EligibilityTodayKeepsView`), one for ledger steps
    (`LedgerStepKeepsView`), and `ViewStepIsLocal`/`ViewFrame` for the
    other views.
  - Three shared lemmas take one step shape each: `ErrorKeepsView` for an
    error return, `FieldStepKeepsView` for a read that fills in one field,
    and `ReplyKeepsView` for an eligibility reply. The record updates of
    each step are read out with Zenon, one field at a time. Z3 rejects a
    record field whose value is a Boolean formula (`enabled`,
    `signedToday`).

  TLC checked `ViewInv` before the proof, on the `view_faults`
  configuration (2.1M states).

### Only model-checked

- **`CalendarMatchesReference`, and the calendar conjuncts of
  `ViewCoherentWhenQuiet`** (today's calendar entry agrees with
  `signed_today`, and `total_sign_days` is at least the number of signed
  entries). The rest of `ViewCoherentWhenQuiet` is the theorem
  `QuietViewAgreesOnToday`. Both parts are about what
  `GetUserSignList`'s day loop (a recursive function) returns.
  Proving that for every input needs induction over the loop, which the
  installed provers cannot instantiate. TLC checks them on every reachable
  state of their runs.
- **The invariants of the violation runs.** They are false by design.
- **`SignSettles`.** It is liveness under fairness and needs ENABLED, which
  is out of TLAPS's reach.

## 6. Not modelled

- Response shaping and translation.
- The React rendering, the modal's visibility, toasts and translation.
- The unbounded query at line 176, which is a performance concern with no
  state.
- Time zones and DST: days have a fixed length.
- `CheckinSetting` (`src/setting/operation_setting/checkin_setting.go`).
  Nothing in `src/` changes it: `init` registers it with
  `config.GlobalConfig`, which loads and updates it from outside `src/`.
  Its getters are read by nothing in the sign path, which uses
  `common.QuotaForSign` and `common.SignInDays`. A model of it would be a
  record that no action reads. The spec's open question (section 9)
  records the unused min/max range.
- The store-error returns of `GetUserSignList`.
