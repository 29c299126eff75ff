# OubliePas backend: specifications, model checking and proofs

OubliePas tells people of their subscriptions and invoices before they are
charged. The repository is a FastAPI application over PostgreSQL, plus one batch
process (`jobs/daily.py`) that a scheduler launches once a day. This directory
holds TLA+ modules translated from that code, TLC configurations that check them
on small instances, and theorems checked by TLAPS. `PROJECT.json` is the index:
which definition stands for which lines, which run checks what, which mutation
of the code breaks each property, and the hazards the properties are for.

How to read it: start with `Commitments.tla` (the data and the requests), then
`OccurrenceDates.tla` (the calendar), `ReminderWindow.tla` and
`ReminderPasses.tla` (when a reminder leaves), `Reminders.tla` (how it leaves,
with everything that can go wrong), `Sessions.tla` (the refresh tokens of an
account, from every way in to every way out). `Population.tla` is the abstract
specification that `Commitments.tla` implements. Then come six smaller parts, each
of which stands alone: `CeilingRace.tla` (what overlapping requests do to the
ceiling), `Codes.tla`, `Logins.tla`, `Avatars.tla`, `Devices.tla` and
`WeeklyDigest.tla`; `Services.tla` puts the six side by side.


## 1. Inventory of the system

| Component | Source | State | Operations | Hard behaviour |
|---|---|---|---|---|
| Schedule of due dates | `services/commitments/occurrence_generator.py` | none | `add_months`, `nth_due_date`, `_first_index`, `occurrence_dates`, `horizon_days` | short months, leap years, an index that must skip nothing, a silent cap of 60 |
| Commitments and occurrences | `services/commitments/commitment_service.py`, `repositories/commitment_repository.py`, `models/db/commitments_db.py` | tables `commitments`, `commitment_occurrences`, `occurrence_reminders` | create, update, status of a batch, delete (one, many, all), restore, purge, settle an occurrence, generate | long sequences of edits and regenerations; owners' days against the server's day; ceiling and roof under overlapping requests |
| Reminder windows | `services/notifications/reminder_window.py`, `services/commitments/action_window.py`, `core/clock.py` | none | `bounds`, `query_bounds`, `is_due`, `action_window` | a wide query and an exact predicate, on two different days; passes that do not run |
| Reminder sending | `services/notifications/reminder_service.py` | the log `occurrence_reminders` | `send_due`, `_dispatch`, on email then push | a message leaves before its stamp is written; rows change meanwhile; sends fail |
| Daily job | `jobs/daily.py` | a session-level advisory lock | lock, purge, generate, remind, digest, alert, exit code | two launches, a crash, a partial failure |
| Weekly digest | `services/notifications/weekly_digest.py`, `repositories/digest_repository.py` | `weekly_digests` (user, week, channel) | `send` | a missed Monday caught up on later days, without a second message |
| Sessions | `services/authentication/email_password.py`, `tokens.py`, `google_auth.py`, `repositories/refresh_token_repository.py`, `scripts/purge_refresh_tokens.py` | refresh tokens, each live, revoked or expired | login, verification, Google, refresh (rotation), logout, revoke all, purge | rotation read then written; reuse of a revoked token; a password replaced while a login hashes the former one |
| Login lockout | `email_password.py`, `repositories/auth_repository.py` | failures and the time of the last one | `_login_locked`, `_next_failure_count` | a count read, a slow verification, then a count written |
| One-time codes | `services/emailing/otp_service.py` | code, expiry, attempts, kind by kind | issue, check, resend limit | attempts read before they are incremented; a new code gives its tries back |
| Accounts and email change | `services/user_profile/user_profile.py`, `services/authentication/google_auth.py` | users: email, pending email, verification, password, Google id | register, verify, link, change email in two steps, change and reset password, delete | codes of one address and the pending address of another; two registrations |
| Push subscriptions | `repositories/push_repository.py`, `api/v1/client/push.py`, `services/pushing/push_sender.py` | devices by endpoint and account | subscribe, test, unsubscribe, prune, forget | a device changes account; pruning to a limit; dead endpoints found while sending |
| Avatars | `services/user_profile/avatar_service.py`, `services/storage/object_storage.py` | a key in the database, files in a bucket | replace, remove | two stores that no transaction ties |
| Migrations at start-up | `core/migrations.py` | schema version, advisory lock | `run_migrations` | replicas that start together |
| Database session | `core/database.py` | one transaction per request | commit on success and on an application error | what is committed although the request fails |
| Sending of emails | `services/emailing/` | none | one HTTP call | its failure is a step of `Reminders` |
| HTTP layer, configuration, helpers | `app.py`, `api/`, `core/` | none, or a library's | routing, headers, rate limits, validation, hashing | none of its own |

How they interact. A request runs in one transaction of `core/database.py`, at
READ COMMITTED, and calls one service; services share state through the tables
only. The generator is called by the service (create, update, batch of statuses)
on the owner's day and by the job on the server's. The job takes the advisory
lock, purges the trash and the log, generates, commits, then sends reminders
with one commit per account, then digests. While it runs, the owners' requests
commit between its steps. Three clocks meet: the server's UTC day, the owner's
local day, and the day a pass began on.

What makes each component correct:

* schedule: exactly the due dates of the terms, in order, anchored on the day of
  the month, never cut by the cap; a next due date is always there;
* commitments: what is pending is what the terms say, nothing is lost, what is
  paid stays, constraints hold after any sequence of edits; populations stay
  under the ceiling, or under the roof when the trash is restored;
* windows: once, in time, on the account's calendar, never two announcements of
  one charge;
* sending: at most once but for a stamp lost or withdrawn or a push that fails
  halfway, no stamp for nothing, everything wanted goes out in the end, one job at a
  time;
* digest: one per week, account and channel, and it catches up;
* sessions: one live token per way in, what is ended stays ended, a replay is
  always recognised, no session without a verified address;
* lockout, codes: attempts and resends stay under their limits in any hour, but
  for those that overlap; a code that can be used was mailed where it should;
* email change: the address confirmed is the one the code was sent to;
* devices: the newest are kept, up to the limit, whoever a device belonged to;
* avatars: the photo that is shown exists, and no file is left behind;
* migrations: each runs once, whatever the number of replicas.


## 2. Modules

The day is an integer everywhere. `None` is a model value. A mutation operator
(`\* Mutation of X`) sits before the definition it stands in for; it is not part
of the model, and shows that a property breaks when the code does.

### Schedule and OccurrenceDates

`Schedule` is the declarative side: a calendar (`LastMonth`, `MonthStart`,
`MonthOf`, with `CalendarAssumption` asking only for months of at least a day),
`AddMonths` with the clamp of `add_months`, and `DueDates`, the set a commitment
owes between two days. `OccurrenceDates` is the loop of `occurrence_dates`, one
action per path: `EmptyRange`, `OneOff`, `EnterLoop` (`_first_index`), `Iterate`,
`LeaveLoop` (the breaks and the cap) and `RunOutOfCalendar` (the exception that
`date()` raises past its last year). `DueDates` is the abstract specification
and `DatesAreTheSchedule` says that the loop implements it.

### Commitments

State: `commitments` (a record per id or `None`), `rows` (a record per id and due
date: `commitment_occurrences` with its unique constraint, and
`occurrence_reminders` as the field `reminded`), `day` (the server's), `today`
(each account's, `Zones` away), and two history values that nothing reads:
`synced` and the field `by_hand`. One action per operation, each a whole
transaction: `Create`, `Update` (with `_guard_entry` and its three outcomes:
resync, clear of the log, nothing), `SetStatusMany` (those that do not fit are
left out; which ones depends on the order of the request, so the choice is
free), `DeleteMany`, `DeleteAll`, `Restore` (the whole batch or nothing),
`PurgeNow`, `UpdateOccurrence` (with `settle`), `DailyGeneration` (`run_daily` to
its first commit), `MarkReminded`, and the passage of days, `LocalMidnight`,
`ServerMidnight`, `ChangeTimezone`. A request that the code refuses is a guard
that is false: it rolls back.

`Purgeable`, `Expired`: the code compares timestamps to the second; with days as
numbers, a trash exactly `PURGE_AFTER_DAYS` old may go or stay.

### ReminderWindow and ReminderPasses

`ReminderWindow` holds pure operators: the exact window of each family, the
wider bounds of the query, the predicate, the windows of an action (trial,
cancellation) and the one that `action_window` keeps. `ReminderPasses` runs
`send_due` day after day over one unpaid occurrence, with the constants of the
program at their real size (30, 3, 30, 60, 3, 1, 45): actions, notices and overdue
reminders in that order, the purge of the log before them, passes that are
missed or launched again, and accounts whose day is not the server's.

### Reminders

The same job with its interleavings, day by day on small windows. `job` holds for
each process the point it has reached: `Start` (advisory lock or leave), `Prepare`
(up to the first commit), then for each channel and family `Load` (rows read once),
and for each account `Skip`, `Deliver` (the message left, nothing written), `Fail`
(caught, the loop goes on), `FailHalfway` (a push that one device refuses after
another had it: a message left, and the batch is unmarked all the same), `Stamp`
(stamps of the batch and commit), `StampRefused` (a row of the batch was deleted, so
that the foreign key refuses the INSERT, outside the `try`), then `EndRound` or
`Finish`. `Crash` can come at any step: PostgreSQL rolls back and frees the lock.
Between any two steps the owners act: `Settle`, `Reopen`, `Reschedule` (rows deleted
and made again by a resync), `Erase`, `MoveDeadline` (the log partly cleared),
`Switch` (preferences). `delivered`, `excused` and `crossed` are histories: messages
about the present row, those among them that no committed stamp stands for (lost,
withdrawn, or never written because the push failed halfway), and the warnings that
were under way (`InFlight`) when the deadline was moved, whose stamp is written
after the log was cleared.

### Population

The abstract specification of `Commitments`: `place` says, of each commitment,
whose it is, of which type, whether it counts towards the ceiling and whether it
is in the trash. Three actions: `Change` (populations grow up to the ceiling; the
trash is left alone; nothing changes hands), `Restore` (what is in the trash comes
back, up to the roof) and `Erase` (from the trash only). `Commitments` maps to it by
`Standing` (its `Abstract` instance), and `TracksPopulations` says that every
request, every batch and every night of the job is one of the three, or a stutter.

### CeilingRace

One account and one type, `Requests` transactions at a time. `GuardEntry` and
`GuardRestore` count, as `_guard_limit` and `_guard_restore` do; `Enter` and
`Restore` write and commit later, whatever the population has become. `GuardNext` is
the batch of `set_status_many`, which ends several archives in one transaction and
guards each with what it has written itself: one request may bring a whole ceiling.
`Archive` and `Delete` need no guard. `overlapped` is a history: requests under way
while another one filled the population or the trash.

### Sessions

State: `user` (stage, verified, active, linked to Google, password, and whether its
hash is weak), `tokens` (the rows of `refresh_tokens`), `request` (what each request
has read), `day`. A password is the rank at which its owner chose it. The requests
that hand out a token, and the one that sets a first password, are two steps, since
argon2 or an exchange with Google lies between what they read and what they write:
`BeginLogin`, `BeginVerify`, `BeginGoogle`, `BeginRefresh`, `BeginSetPassword`, then
`FinishLogin` (with the rehash of a weak password), `FinishVerify`, `FinishLink`,
`FinishCreate`, `FinishGoogle`, `FinishRefresh`, `FinishSetPassword` (which writes
without a second look), or `Abandon`. The rest is one step each: `Replay` (revokes
every session and is committed although the request is refused), `RefreshDisabled`,
`Logout`, `ReplacePassword` (change and reset), `Register`, `Enable` and `Disable`
(an administrator), `DeleteAccount`, `Purge`, `Midnight` (on which a release may
change the parameters of argon2).

Six histories serve the properties and no guard but that of a fresh token:
`issued` (every token ever handed out, with the first token of its session and the
password it was opened under; its claims are also what the JWT itself says, which
outlives the row), `chosen`, `ended`, `overlapped` (requests that something
overtook after they read), `late` (what those requests handed out, and what
was rotated from it) and `undone` (accounts whose last password was written over by
a request that had begun before it was chosen, until the next new password).

### Codes

One account, its three kinds of one-time code (verification, reset, change of
address), and transactions that overlap at the grain of PostgreSQL's row locks. A
request that issues goes through `Issue` (the account is read, the resend limit
tested), `Write` (UPDATE of users, which holds its row), `Clear` (DELETE of the
tries, which holds theirs if there is one), `Mail`, `CommitIssue`; one that
presents a code through `Present`, `Look` (or `Exhausted`), `Count` (INSERT ... ON
CONFLICT), then `Refuse` (the exception commits) or `Accept`. What is read when a
request starts (`seen`) is what it goes on with; what it writes is visible at its
commit. `Cut` rolls back (a mail that fails, a process that dies) and `Deadlock`
cancels one of two requests that wait for each other. Addresses move with
`email_change`: `to` is the address asked for, or, for a resend, the pending one
that was read. The histories name what the properties except: `astray` (codes of a
resend that read a pending address replaced since), `beside` (the most checks of a
code that were under way as one more was let in), `regained` (codes whose tries
were cleared by a reset that was then written nowhere), `uncounted` (codes that the
count of resends missed).

### Logins

The count of failures of one account: `Begin` reads it and the time, argon2 takes
its time, then `FailLogin` writes the count it read plus one, or `PassLogin`
forgets it; `TurnedAway` is the locked account.

### Avatars

A row and a store. `Begin` reads the row (replace, remove, deletion of the
account), `Put` uploads, `Write` updates the row and deletes the file it read of,
`Commit` ends. `PutFails`, `AccountIsGone`, a deletion that fails (in `Write`) and
`Cut` are the failures; nothing but the row is rolled back.

### Devices

The subscriptions by endpoint, with their row locks. `Subscribe` takes the time,
`Upsert` writes and holds the row, `Choose` picks what to prune among what the
transaction sees (`Kept`: the rows with fewer than the limit after them),
`CommitSubscription` waits for those rows and re-evaluates the DELETE on what they
have become; `Unsubscribe`, `Test` and its answers; the job's push channel, `List`,
`PostSent`, `PostGone` (the row is forgotten, not committed), `PostFails`, `Stamp`
(the commit), `JobRollsBack`. Endpoints die at any time.

### WeeklyDigest

The end of the job: `Load` (accounts that have had theirs, rows due until Sunday,
read once), then for each account `Skip`, `Fail`, or `Post` followed by `Mark` (the
key and its commit) or `MarkRefused` (the account is gone, the foreign key refuses,
the job ends); `Crash` anywhere, `Midnight` in the middle, and the owners'
`Reschedule`, `Switch`, `DeleteAccount`. That one job runs at a time is the
theorem `OneJobTheorem` of `Reminders_proof`.

### Services

These parts share no state: the module instances the six, holds the variables of
all, and a behaviour is the behaviour of one of them (`served`) while the others
have none. It is a way of stating what they promise in one place, to check it and
to prove it, and not a composition: nothing of one part reaches another.
`MCServices` only adds the symmetry of its requests.


## 3. Runs

| Run | Instance | What it shows |
|---|---|---|
| `OccurrenceDates` | Gregorian days from 2027 to early 2032, anchors at ends of months and on 29 February, eight floors, the generator's own horizon and three others | the loop returns exactly the schedule; the cap never cuts a list the generator asks for; the loop ends |
| `ReminderPasses` | due date on day 100, four leads, four trials (one of them over 92 days before the charge), four notices, accounts on the server's day or a day ahead, up to two missed passes, to day 150 | once per family, between the opening and the end of its window, in time (the notice, the overdue reminder, and the warning of the first deadline); a charge announced once for accounts on the server's day; the last day of a deadline leaves nothing unsaid |
| `Ceiling` | three commitments, two accounts (one travels), two types, a ceiling of one, a roof of two | the service implements `Population`; the roof holds; only old or emptied trash is erased |
| `Schedule` | one weekly commitment whose month is short, edits of amount, anchor and trial, pauses, trash, settlements (of a day that some owners still have before them), reminders and a purge of the log, all zones, two days | pending rows are the terms' own; no due date is lost; the next one is shown; payments keep their dates; history is never rewritten; the log loses only what it should |
| `Reminders` | two launches, two accounts (one cannot be written to), three rows, two channels, two families, a failure, a crash, two requests | at most one message but for a stamp lost or withdrawn, or a push that failed halfway, each excused once; no stamp without a message that still counts |
| `Delivery` | the same accounts under fairness, three families, four days | no reminder stays wanted for ever; every job that starts ends and leaves the lock |
| `Sessions` | one account, three tokens, two requests, two passwords, two days | of one way in, one good token; what a logout, a replay or a new password ended stays ended; the last password holds, but for a request that had begun before it was chosen; every session has a verified address; a replay finds its row; a disabled account gets nothing: each but for what was under way |
| `Services` (`MCServices`) | the six parts below, one at a time | |
| &nbsp;&nbsp;ceiling | five commitments, two overlapping requests, a ceiling of two, restorations of one | the overshoot is bounded by the requests under way; only an overlap goes over |
| &nbsp;&nbsp;codes | four requests, three addresses, one try a code, two resends an hour, two instants, one rollback | the confirmed address is the one its code was mailed to; a code has as many guesses as tries, and as many more as checks of it were under way at once; resends are capped; a stored code was mailed; circles of locks are of one kind only |
| &nbsp;&nbsp;logins | four logins, two failures lock for two ticks, four instants | no window has more failures than the limit, but those that overlapped |
| &nbsp;&nbsp;avatars | four requests, two mishaps, a photo from outside or none | the photo that is shown exists; no file is left behind, but by a mishap or an overlap |
| &nbsp;&nbsp;devices | two accounts, two devices, one each, two requests, one fault, the job | the newest devices are kept; the limit holds, but for those that overlapped |
| &nbsp;&nbsp;digest | two accounts, a week of two days, three days, a failure, a crash, two edits | one digest a week, plus one for each mark that was lost |
| `DeadNotice` (violation) | `ReminderPasses` on the server's day without missed passes, commitments with both deadlines | the stamp of a cancellation warning keeps the warning of a later trial from ever leaving |
| `Backfill` (violation) | the instance of `Schedule`, accounts on the server's day or ahead | the job generates a row on a day that is past for its owner |
| `ReachedOnce` (violation) | the instance of `Reminders`, no crash, no failure, one request | a row erased before its stamp makes the job write again about the others |
| `CeilingHolds` (violation) | `CeilingRace` alone (`MCCeilingRace`), without restorations | two creations that overlap go over the ceiling |

Bounds, and why they are enough:

* `MCOccurrenceDates` uses the real calendar: the clamp, the leap day and the
  year boundary are the only data the loop tells apart, and the theorem covers the
  rest.
* `MCReminderPasses` uses the real constants, and a trial on each side of the 90
  days that the query of a deadline looks ahead. `LastDay = 150` is beyond
  the due date plus the 45 days of the log and two zones.
* `MCCommitments` shrinks the month and the week to three days and the delays to
  one or two, so that midnights, the end of a horizon and both purges happen
  within `LastDay`. Guards compare days with each other only, so that what
  matters is their order. Its two configurations split the
  questions, not the actions: `Ceiling` has populations and no rows, `Schedule`
  one commitment with its rows and its log. Accounts that travel are in `Ceiling`,
  where the new zone keeps the day; `Schedule` has every zone, each account in its
  own. The theorems have travellers, zones and rows at once.
* In `Ceiling`, `MaxPerType = 1` and a roof of 2 are the smallest values for which
  the ceiling, the roof and the distance between them differ; the theorem holds for
  all.
* `MCReminders` has a batch of two rows (so that one row can spoil another's
  stamp), an account of one, two processes. `MaxFailures`, `MaxCrashes` and
  `MaxEdits` bound how often the environment acts, not when.
* `MCSessions` has three tokens: two ways in and a rotation, or a token and the two
  that overlapping refreshes make of it. `Lifetime` and `Grace` are 0, so that
  expiry and the purge come on the only midnight. Two requests are
  the least that overlap; the other way to be overtaken is by a request of one
  step. One account is enough for what the tables tell apart, since no action
  reads another account's; the proofs cover any number.
* `MCServices`. Its ceiling is 2, so that a batch of `set_status_many` brings more
  than one commitment, and its roof is the ceiling too, so that five commitments go
  over both; it restores one commitment at a time. `Ceiling` tells the two apart and
  restores in batches, and the proofs cover every value. Four
  requests are what its longest hazard takes: a change of
  address asked for, another that overtakes it, a resend of the former and a
  confirmation. One try a code (`MaxAttempts = 1`) lets two checks of a code
  overlap and a new one give tries back; `CodeLife = 0` makes a code expire on
  the only tick. A limit of two resends is below the number of requests, a
  lockout of two below the number of logins. Devices start subscribed, each account
  at its limit, so that two requests reach every prune, and a prune that crosses a
  subscription or the job. A week of two days has a day to catch up on, and three
  days reach the next week.
* Symmetry is used in `Ceiling` (ids), `Reminders` (processes), `Services`
  (requests of the codes) and `Sessions` (tokens, requests), never with a liveness property.
  `Services` lets a behaviour end: each request is served once.

Fairness, in `Delivery` and in `OccurrenceDates` only. A process that is running
takes its next step (`WF_vars(Work(w))`: it is sequential code whose awaits
return or time out), and the job is launched again and again
(`WF_vars(\E w : Start(w))`: the platform's cron). Nothing is assumed of the
owners, the sends, the crashes or midnight: bounds on failures and crashes say
that they do not happen for ever, which is what "the next run retries it" needs.
`Unreachable` accounts fail for ever and are in the instance, to show that they
do not keep the others waiting.


## 4. What is proved

Every theorem holds for all values of the constants that satisfy the assumptions.

| Module | Theorem | Says |
|---|---|---|
| `OccurrenceDates_proof` | `OccurrenceDatesType` | the loop keeps its types |
| | `OccurrenceDatesExact` | below its cap the loop returns exactly `DueDates` |
| | `CapTheorem` | no list that the generator asks for is ever cut, from any anchor, for any floor |
| | `GeneratorTheorem` | so the generator gets all the due dates of its horizon (`GeneratorGetsAll`) |
| | `OrderTheorem` | the list is strictly increasing (`InOrder`): the rows of one INSERT never collide |
| | `AnchorTheorem` | each date is whole periods after the anchor, on its day of the month or the last of a shorter one (`AnchorDayKept`) |
| | `PeriodTheorem` | what has begun and does not end has a date within its longest period of the floor (`PeriodIsHonest`) |
| | `AdvanceTheorem` | each step of a call lessens a natural number (`EachStepAdvances`), whatever the cap |
| `ReminderPasses_proof` | `QueryCastsWide` | what is due on an account's day, at most `TimezoneSpreadDays` away, is in the query of the server's day |
| | `NoFamilyRepeats` | each family writes once about a due date, however many passes run and whatever the purge forgets |
| | `WindowTheorem` | every message leaves between the opening and the end of its window, on the account's calendar |
| | `LastDayTheorem` | the pass of the last day of a deadline leaves nothing unsaid, on the server's day and within the bounds of the query |
| | `AnnouncedOnceTheorem` | on the server's day, a charge is announced by a notice or by a trial's warning, never by both |
| | `InTimeTheorem` | each family writes before its window closes, unless more passes in a row are missed than the window has days; of two deadlines, the first is warned of |
| `Commitments_proof` | `CommitmentsType` | the tables keep their types, and accounts their distance to the server's day |
| | `RoofTheorem` | no population goes over the roof when requests do not overlap |
| | `CeilingTheorem` | a population over the ceiling grows by a restoration only |
| | `PopulationTheorem` | the service implements `Population` |
| `Occurrences_proof` | `OnlyScheduledTheorem` | a pending row ahead is of the schedule as it stands, at its present amount |
| | `NothingMissingTheorem` | no due date of a generated horizon is lost |
| | `NextDueTheorem` | the next due date is shown for `HorizonMargin` days after the last generation |
| | `PaidTheorem` | a payment date is there exactly when the row is paid, and not in the future |
| | `HistoryTheorem` | only its owner takes away or rewrites what was settled or is past |
| | `BackfillTheorem` | a recurring row before its owner's day is the daily job's alone, for the server's day, the owner being on the next (`OnlyTheJobBackfills`) |
| | `NoBackfillTheorem` | there is none where no account is ahead of the server |
| | `LogTheorem` | the log loses a family only where it should |
| | `PurgeTheorem` | only the trash is erased |
| `Reminders_proof` | `RemindersTyped` | tables, lock and jobs keep their types |
| | `OneJobTheorem` | the job runs once at a time, and holds the lock exactly as long |
| | `OnceTheorem` | a family writes about a row once on a channel, but for stamps lost or withdrawn, and pushes that failed halfway |
| | `StampTheorem` | every stamp stands for a message that left and still counts, but for a warning under way while its deadline moved |
| | `ReachedOnceTheorem` | once, without exception, where nothing is killed, no stamp is refused, no deadline moves and no push fails halfway |
| | `JobAdvancesTheorem` | each step of a job leaves it less to do, whatever fails and whoever acts; nothing is left exactly when it has no lock |
| | `NeverAgainTheorem` | what is stamped is not written about again, even by a job that read it before |
| `Sessions_proof` | `SessionsTyped` | the tables of accounts and tokens keep their types |
| | `SessionIsOneThread` | a session has one good token, unless two requests presented the same one together |
| | `SessionEndsForGood` | an ended session has no good token, nor has a former password's, but for what was under way |
| | `VerifiedTheorem` | whoever holds a session has a verified address |
| | `PasswordTheorem` | the password chosen last opens the account, unless a request that had begun before it was chosen wrote over it: a login's rehash, or a first password |
| | `ReplayTheorem` | a token that can still be presented has its row |
| | `DisabledTheorem` | a disabled account is handed no token but by a request under way |
| `Services_proof` | `OvershootTheorem` | overlapping requests go over the roof by no more than all but one of them may add |
| | `EntriesTheorem` | without restorations, as many ceilings come together as requests are served at once: requests one by one keep to it |
| | `OnlyOverlapTheorem` | a request that nothing overlaps keeps to its limit |
| | `ApartTheorem` | where no request is under way while another fills the population, populations keep to the ceiling, or to the roof with restorations |
| | `AddressTheorem` | the address of an account is the one its code was mailed to, but for a resend astray |
| | `StoredCodeTheorem` | a code that is stored was mailed, to the address it stands for, but for a resend astray |
| | `TriesTheorem` | a code is compared with no more guesses than its tries, and the checks of it under way at once when one more was let in; a check that is rolled back, one let in after its code was replaced and a code `regained` are not counted |
| | `ResendsTheorem` | no hour has more codes than the limit, but for those that overlapped |
| | `DeadlockTheorem` | a circle of locks is of one that issues and one that confirms, of one kind |
| | `LockoutTheorem` | no window has more failures than the limit, but for those that overlapped |
| | `AvatarTheorem` | the photo that is shown exists, but around a deletion whose commit fails or is to come |
| | `FilesTheorem` | no file is left behind, but by a mishap or an overlap |
| | `LimitTheorem` | an account keeps to its limit of devices, but for subscriptions that overlapped |
| | `NewestTheorem` | the devices that came last are those that stay |
| | `DigestTheorem` | one digest a week, plus one for each mark that was lost |

`Schedule_proof` holds the lemmas about the calendar that two of these rest on
(`NthIsADay`, `NthGrows`, `DueAnyWindow`, `DueInWiderWindow`).

Assumptions, all on constants and evaluated by TLC on every run:
`CalendarAssumption`, `PeriodAssumption` and `InputAssumption` (months follow each
other and last a day at least, horizons are naturals), `CapAssumption` (no month is
shorter than a week, and 59 weeks, one less than the cap, outlast the longest
horizon, 396 days; used by the theorems on the list, from `CapTheorem` to
`PeriodTheorem`) and `LongestPeriodAssumption` (the figures of `LONGEST_PERIOD_DAYS`
are at least what the months of the calendar add up to; used by `PeriodTheorem`),
`PassAssumption` (the log is kept for at least the overdue window and the spread of
the zones: 45 >= 30 + 1; a trial ends on the first charge at the latest, as a CHECK
of the table says), `CommitmentAssumption` (payloads pass the schemas; ids are
finite), `ReminderAssumption` (families, channels and the terms of the rows are well
formed), `SessionAssumption` (durations are naturals; `None` is neither a token nor
a claim), `ServicesAssumption` (of each of the six parts: finite sets of requests,
limits that are naturals, at least one where the code needs one, and `None` apart
from what it stands in for).

The arguments:

* `OccurrenceDates_proof`. `DatesAreTheSchedule` is not inductive: `LoopInv` adds
  that the dates collected are those of the indexes passed, and that no index below
  the first has a due date at or after the floor (`FirstIndexSkipsNothing`, which
  needs that one month of addition stays in its month, `AddMonthsInMonth`).
  `NthGrows` then shows that nothing follows a break (`NothingAfterTheBreak`).
  `ListInv` says that each date of the list is that of an index passed, the last one
  that of the index before the current one, and that it is at least as many weeks
  after the floor as there are dates before it: hence the order, the day of the
  month, and that a list as long as the cap would reach past the horizon. `FirstInv`
  follows the first date: while the list is empty, the index before the current one
  is before the floor (`BeforeTheFloor`), and two due dates in a row are within the
  longest period. The measure of `AdvanceTheorem` is the distance of the index to
  the days and months of the calendar.
* `ReminderPasses_proof`. A message stands in the log or has been forgotten
  (`StampedOrForgotten`): the log is purged only past every window
  (`ForgottenIsNotDue`), and time does not go back (`ForgottenStays`). `PassInv`
  adds that to `OncePerFamily`. For `NoticeOrTrialOnServerDay`, `AnnouncedOnce` adds
  that a notice that left found the trial's window over, or the family of the
  deadlines stamped already: actions come first in a pass. For `EachFamilyInTime`,
  `NothingSkipped` says that until a family writes, every pass so far was before its
  window, and `WarningNotSkipped` says it of the first deadline: its window is the
  one `action_window` keeps as long as it lives (`TighterIsChosen`), so that no
  other warning stamps the family before it does. The two action properties follow
  from what one pass does (`PassStamps`, `PassMessages`).
* `Commitments_proof`. Type correctness has one step per action. For the roof,
  each action is shown to be one of three kinds (`AdmitStep`): a population does
  not grow, or it grows within the ceiling, or by a restoration within the roof.
  `RestoreUnderRoof` counts the batch. The roof is then inductive together with
  `TypeOK`, the ceiling is the same case analysis read as an action property, and
  the refinement maps each kind to an action of `Population`.
* `Occurrences_proof`. Whatever the step, the rows of a commitment meet one of six
  fates: left alone, regenerated, gone, forgotten (the log only), run by the daily
  job, or touched (one row settled, or stamped). `StepFate` shows it of each of the
  actions; each property is then kept by each fate. None of the properties is
  inductive as it stands. `NothingMissing` is strengthened to `AllThere`, which
  speaks of the commitments in the trash too, whose rows nobody regenerates and
  which come back by a restoration; `RowsHaveCommitment` says that where there is
  no commitment there are no rows, so that an id may be used again.
  `NextDueVisible` follows from `NothingMissing`, since the horizon is the longest
  period and a margin. Rows are added by two fates only, a regeneration from the
  owner's day and the daily job's from the server's: zones are within a day, hence
  `BackfillTheorem`.
* `Reminders_proof`. `ReminderInv` says where a message about the present row may
  be: counted as excused, in the log, or in the hands of a job whose stamp is not
  committed (`MessagesAreAccountedFor`). It needs that one job runs at a time
  (`OneJob`), that a row is in one place of a job's hands and not newer than the
  table (`HandsAreInOrder`), that what is in hand has no stamp
  (`HandsAreUnstamped`) and that what is to be stamped has left (`FlightsHaveLeft`).
  Each stamp has a message that was not excused (`HasATrace`), or one that crossed a
  move of its deadline (`CrossedHaveATrace`): without `crossed`, a crash after such a
  move would excuse one message twice, and a stamp could stand for nothing.
  `ReachedOnceTheorem` is `AtMostOnce` with nothing to excuse: only `Crash`,
  `StampRefused`, `MoveDeadline` and `FailHalfway` add to `excused`. The measure of
  `JobAdvancesTheorem` (`WorkLeft`) counts a span of steps for each round to come and
  two for each row in hand (`EntriesAreFew`).
* `Sessions_proof`. `OneThread` is not inductive, because a refresh that has read its
  token will hand out another whatever happens meanwhile. `SessionInv` adds what a
  request that nothing overtook may rely on: it has read what still holds
  (`ReadsAreFresh`), and its session has no other good token than the one it
  presents, nor another such request with another token (`ThreadIsHeld`). Every step
  that touches the tokens is of one of four sorts, each with its lemma: it drops
  rows (`QuietStep`), reads a token (`BeginStep`), hands one out (`IssueStep`) or
  revokes some (`CutStep`); the actions are then shown to be steps of these sorts.
  `OwnerInv` ties requests and tokens to their account: what
  is verified stays so and was so when a request began (`OwnersAreVerified`); a
  request that nothing overtook serves an active account (`ReadersAreActive`); a
  request that will write a password has read the last one, or has begun before it
  was chosen, and then its write is recorded in `undone` (`PasswordsAreLast`); a row
  goes with its account, or past its expiry (`RowsLast`).

* `Services_proof`. Each part has an invariant of its own, asserted while it is the
  one that is served; a step of one leaves the others as they started.
  - Ceiling: `RaceInv` adds to the population what the requests under way will add
    to it (`Coming`): together they stay within the limit (`Allowed`: the roof, or
    the ceiling where nothing can be restored) and what all but one may add
    (`Spare`); what a request that nothing overtook adds still fits (`Alone`), and so
    does what the next commitment of its batch adds; `FewOfFew` counts what so many
    requests bring. `ApartTheorem` follows from
    `OnlyOverlapTheorem`, as only the write of a request fills a population
    (`OnlyRequestsFill`).
  - Codes: `CodesInv` follows a request through its steps: what it has read, which
    locks it holds and what it will write, so that a draft stands for a code that is
    mailed before its commit, and a request that waits is of a kind.
    `TriesInv` says that the guesses whose try is spent are in the row of the code
    (`TriesAreCounted`), and that the others were under way when one more was let in,
    hence within `beside` (`GuessesAreFew`); `ResendsInv` says that the row counts
    the codes of the hour before its last one, those lost to overlaps apart.
  - Logins: `LoginsInv` says the same of the failures (`Tally`): those of the window
    before the last are counted in the row, or missed.
  - Avatars: `AvatarInv` says who writes (`OneWriter`), that a request that has
    uploaded still has its file (`UploadsAreThere`), and that one that wrote has
    deleted what it read or left it among the strays (`WritersDelete`).
  - Devices: `DevicesInv` ties a row to the subscription that is wanted
    (`RowsAreWanted`), and says of a prune between its choice and its commit that
    what it will spare is within the limit, and that what it will delete has as many
    after it as the limit (`PruneIsRight`). That `Kept` is within the limit
    (`KeptFew`) takes that no two times are the same (`TimesDiffer`).
  - Digest: `DigestInv` says where a message that was counted is: in the table, in
    the hands of the job, or of an account that is gone (`MarkStands`).

Only model-checked: liveness, which the prover does not handle (`Terminates`,
`EveryReminderGoesOut`, `JobEnds`). Of `Terminates` and `JobEnds` the safety half
is proved, that every step brings the end closer (`AdvanceTheorem`,
`JobAdvancesTheorem`); that there is a step to take, and that the scheduler takes
it, is TLC's and the fairness assumption's. The four properties that the code does
not keep are of course not proved; three of them are, from the hypothesis that they
lack (`NoBackfillTheorem`, `ReachedOnceTheorem`, `ApartTheorem`), and of the fourth
`InTimeTheorem` says that the first of two deadlines is not concerned.


## 5. What the checks found

1. `DeadNotice`. The repository's README has the service tell "when a free trial or
   a cancellation notice is about to close" (lines 8-9), and gives `action_required`
   the trigger "a trial or cancellation-notice deadline is open" (line 657). One
   stamp stands for both: a warning about a cancellation deadline stamps the family,
   and when a trial's window opens later the log already holds it. In the run, the
   charge is due on day 100 with a lead of 0, a notice of 60 days and a trial that
   ends on day 98: the warning of day 40 leaves, and days 95 to 98, the window of
   the trial, pass without a message (`TrialIsWarnedOf`). Only the later of two
   deadlines can be lost so (`WarningInTime`, proved). In
   the same way a tighter window that is not open yet hides one that is, until
   the tighter one stamps.
2. `Backfill`. `run_daily` passes its own day to `sync_all_active`, so that the
   zone read alongside each row is never used: for an account a day ahead, a row
   may be generated on a day that is already past, against "the floor is the
   owner's day" in the repository's README. It goes no further: one day, by the job
   alone, and for no account that is not ahead (`BackfillTheorem`).
3. `ReachedOnce`. The stamps of a batch are one INSERT. If one of its rows was
   deleted since it was read, the foreign key refuses them all, outside the `try` of
   `_dispatch`; the job ends, and the next writes again about the others. Beside
   that, only a job that is killed, a deadline that is moved and a push retried
   after a partial failure make a message leave twice (`ReachedOnceTheorem`): when
   an account has several devices and one of them raises after an earlier one had
   its message (`FailHalfway`), the batch stays unmarked, and the next pass sends it
   again to the devices that had it.
4. `CeilingHolds`. The ceiling is counted, then written, with no lock: two
   overlapping requests may each take the last place. `OvershootIsBounded` says by
   how much, `EntriesOvershoot` by how much in an account that never restores (each
   of the requests served at once may bring a whole ceiling, through the batch of
   `set_status_many`), `OnlyOverlapExceeds` that nothing else can.

Observed beside these, with no run of their own. An account a day ahead, with both a
trial and a cancellation notice, may be told of one charge by a notice and, the next
day, by the trial's warning: the window is chosen with the server's day and tested
with the account's (`NoticeOrTrialOnServerDay` and `LastDayIsReached` name the
accounts for which it holds). For an account a day behind, the last day of a
deadline is lost, and with a lead of 0 the whole of its window: the server drops it
once its own day is past the deadline. A warning under way while its deadline is
moved stamps the row after the log was cleared, and the new deadline is not
announced (`crossed`). A trial that ends more than 90 days before its first charge
is never warned of: the windows of an action are computed from the due date, and
`bounds` looks at most `MAX_CANCELLATION_NOTICE_DAYS + MAX_REMINDER_DAYS` ahead,
while the schema lets a trial end any time before the charge (`WithinQuery` names
those that are reached). In `_dispatch`, a warning that fails followed in the same
pass by a notice that succeeds announces the charge twice as well.

What overlapping requests do is read off the exceptions that the properties name,
all of which happen in the instances:

* sessions: two refreshes that present one token together both get a new one, since
  nobody looks at how many rows the revocation changed, and no reuse is seen; a
  refresh or a login under way while the password is replaced hands out a session
  that survives it; a login that rehashes a weak password writes the former one back
  over the new one, and a first password that was being hashed is written over one
  that was chosen meanwhile (`undone`);
* lockout and resends: counts are written by value, so that those that overlap count
  as one; tries are added to by the database, and what overlaps only passes the test
  before the others have counted: a code has as many guesses more as checks of it
  were under way (`beside`);
* codes: a resend that read the pending address before another request replaced it
  mails its code to the former address, and that code confirms the new one
  (`astray`); a check cut before its commit gives its try back, although the
  repository's README (lines 346 to 348) says that it still costs one; a reset asked
  before the address changed finds no row to write, sends its mail all the same, and
  clears the tries of the code that stays (`regained`); a right code presented while
  a new one of its kind is issued may end in a deadlock that PostgreSQL breaks;
* devices: overlapping subscriptions do not see each other when they prune, and a
  device that comes back while a prune waits for its row is pruned all the same;
* avatars: uploads that overlap leave a file behind; a commit that fails after the
  former file was deleted leaves the account with a file that is gone;
* digest: an account deleted between its message and its mark ends the job, as in
  `ReachedOnce`.

The exit code changes no state and is not in the models: `exit_code` looks at the
reminders that failed, not at the digests, while the repository's README has the
job exit with 1 when any send failed.

## 6. What is not modelled, and why

* Titles, categories, notes, the reminder switch of a commitment, totals and the
  dashboard: data that no guard of the modelled operations reads, or reads only.
  Of the lists, only the next due date is modelled (`Upcoming`).
* In `Reminders`, which devices an account has: a push reaches all of them
  (`Deliver`), none (`Fail`) or some (`FailHalfway`), whatever their number;
  `Devices` has the devices and one batch.
* In `Reminders`, the days of the accounts: they share the server's, since
  `ReminderPasses` has the zones without the interleavings.
* Overlaps of two requests about one commitment, but for the ceiling: in
  `Commitments` a request is one step. `CeilingRace` leaves out the locks of the
  rows that a batch has written, which would only keep other requests from them. A
  rollback by a serialization failure does not exist at READ COMMITTED; deadlocks
  are in `Codes` and `Devices`, where a transaction locks rows of several
  statements.
* In `Sessions`, access tokens (they expire within minutes, and every request reads
  the account again), the lockout and the codes (a login or a verification that
  begins has passed them: `Logins`, `Codes`), the time a change or a reset of a
  password takes (`ReplacePassword` is one step, and so is `DeleteAccount`: of two
  changes that overlap, either may be taken for the last), and Google identities (an
  address has one, and a mismatch is refused).
* In `Codes`, a registration of the address that is being confirmed by another
  account: the refusal is in `Refuse`, which does not say why it refuses.
* Migrations at start-up. `run_migrations` takes an advisory lock, calls Alembic and
  releases the lock before the transaction that `engine.begin()` opened commits, so
  that a replica that waited may read the former version. What it then does is
  decided by Alembic and by PostgreSQL's locks on DDL, neither of which is in the
  source.
* Sending of emails: formatting and one HTTP call, whose failure is a step of
  `Reminders`, `Codes` and `WeeklyDigest`. The alert on its quota and the exit code
  of the job change no state.
* The connection pool, the rate limiter, headers and cookies: a library's state.
* Formatting of messages, hashing, image cleaning, endpoint policy,
  configuration: pure functions that no property is about.


## 7. Plan

Written, in this order: `Schedule`, `OccurrenceDates`, `ReminderWindow`,
`ReminderPasses`, `Commitments`, `Reminders`, `CeilingRace`, `Sessions`, then
`Population`, `WeeklyDigest`, `Logins`, `Codes`, `Avatars`, `Devices`, `Services`,
and the proofs of section 4, the last of which say what is left of the sentences
that the code breaks.

What remains, the most important first:

1. A composition of `Codes` and `Sessions`: a code that resets a password and the
   sessions that it ends.
2. The overlap of two requests about one commitment, which `Commitments` runs one
   after the other.
