------------------------------ MODULE Reminders ------------------------------
(***************************************************************************)
(* The daily job at work: jobs/daily.py under its advisory lock, and the   *)
(* sending of services/notifications/reminder_service.py, channel after    *)
(* channel and family after family, account after account with a commit    *)
(* each, while the owners of the occurrences use the application, while    *)
(* sends fail and while the process may be killed.                         *)
(*                                                                         *)
(* What the windows let through over the days is ReminderPasses' subject;  *)
(* here the accounts share the server's day.  Purge and generation, up to  *)
(* the first commit, are DailyGeneration of module Commitments.            *)
(***************************************************************************)
EXTENDS ReminderWindow, FiniteSets, Sequences

CONSTANTS
    Workers,       \* processes that may launch the job
    Accounts,
    Occurrences,
    Owner,         \* [Occurrences -> Accounts]
    Due,           \* [Occurrences -> Int]: due dates
    Terms,         \* [Occurrences -> terms of the commitment]
    Unreachable,   \* accounts whose sends always fail
    Families,      \* the families, in the order of send_due
    Channels,      \* the channels, in the order of _channels
    LastDay,       \* bound: the last day
    MaxFailures,   \* bound: sends that fail, halfway or on accounts that can be reached
    MaxCrashes,    \* bound: processes killed
    MaxEdits       \* bound: requests of the owners

Rounds == Len(Channels) * Len(Families)

ASSUME ReminderAssumption ==
    /\ IsFiniteSet(Occurrences)
    /\ Owner \in [Occurrences -> Accounts]
    /\ Due \in [Occurrences -> Int]
    /\ Unreachable \subseteq Accounts
    /\ Families \in Seq(Kinds)
    /\ Channels \in Seq({"email", "push"})
    /\ Rounds \in Nat \ {0}
    /\ LastDay \in Nat /\ MaxFailures \in Nat /\ MaxCrashes \in Nat /\ MaxEdits \in Nat
    /\ None \notin Workers

VARIABLES
    day,
    status,     \* of each occurrence: "pending" and selected, "settled" (paid,
                \* skipped, or its commitment in the trash) or "gone"
    row,        \* identity of its row: regenerating replaces it
    log,        \* occurrence_reminders of its row: a set of <<kind, channel>>
    listening,  \* accounts that are active, verified and have the switches on
    lock,       \* the session-level advisory lock: a worker or None
    job,        \* what each worker is doing
    failures, crashes, edits,
    delivered,  \* history: messages sent about the row, by <<kind, channel>>
    excused,    \* history: those that no committed stamp stands for, or not any more
    crossed     \* history: warnings under way when the deadline was moved

tables == <<status, row, log, listening>>
history == <<delivered, excused, crossed>>
vars == <<day, tables, lock, job, failures, crashes, edits, history>>

Keys == Kinds \X {Channels[n] : n \in DOMAIN Channels}

Idle == [phase |-> "idle", on |-> 0, round |-> 0, entries |-> {}, batch |-> {}]

Init ==
    /\ day = 0
    /\ status = [o \in Occurrences |-> "pending"]
    /\ row = [o \in Occurrences |-> 0]
    /\ log = [o \in Occurrences |-> {}]
    /\ listening = Accounts
    /\ lock = None
    /\ job = [w \in Workers |-> Idle]
    /\ failures = 0 /\ crashes = 0 /\ edits = 0
    /\ delivered = [o \in Occurrences |-> [key \in Keys |-> 0]]
    /\ excused = [o \in Occurrences |-> [key \in Keys |-> 0]]
    /\ crossed = [o \in Occurrences |-> {}]

-----------------------------------------------------------------------------
(* What a round selects.                                                   *)

RoundKind(n) == Families[((n - 1) % Len(Families)) + 1]
RoundChannel(n) == Channels[((n - 1) \div Len(Families)) + 1]
RoundKey(n) == <<RoundKind(n), RoundChannel(n)>>

\* The window of a family lets an occurrence through on a day.
Window(o, kind, on) ==
    /\ IsDue(kind, Due[o], Terms[o].reminder_days_before, on)
    /\ kind = "action_required" =>
          \E w \in KeptWindows(Terms[o], Due[o], on) : IsOpen(w, on)

\* Mutation of Unreminded: the log is not consulted.
PendingInWindow(key, on) ==
    {o \in Occurrences : status[o] = "pending" /\ Window(o, key[1], on)}

Unreminded(key, on) ==
    {o \in Occurrences : /\ status[o] = "pending"
                         /\ key \notin log[o]
                         /\ Window(o, key[1], on)}

\* mark_reminders_sent; a trial's warning stamps the notice as well.
Stamps(o, key, on) ==
    {key} \cup
    {k \in {<<"notice", key[2]>>} :
        /\ key[1] = "action_required"
        /\ \E w \in KeptWindows(Terms[o], Due[o], on) : w.reason = "trial"}

-----------------------------------------------------------------------------
(* The job.                                                                *)

\* Mutation of Start: the result of the lock is not looked at.
StartAnyway(w) ==
    /\ job[w].phase = "idle"
    /\ lock' = IF lock = None THEN w ELSE lock
    /\ job' = [job EXCEPT ![w] = [Idle EXCEPT !.phase = "prepare", !.on = day]]
    /\ UNCHANGED <<day, tables, failures, crashes, edits, history>>

\* pg_try_advisory_lock: a worker that does not get it leaves at once.
Start(w) ==
    /\ job[w].phase = "idle"
    /\ lock = None
    /\ lock' = w
    /\ job' = [job EXCEPT ![w] = [Idle EXCEPT !.phase = "prepare", !.on = day]]
    /\ UNCHANGED <<day, tables, failures, crashes, edits, history>>

Prepare(w) ==
    /\ job[w].phase = "prepare"
    /\ job' = [job EXCEPT ![w].phase = "load", ![w].round = 1]
    /\ UNCHANGED <<day, tables, lock, failures, crashes, edits, history>>

\* The rows of a family are read once; what happens to them next is not seen.
Load(w) ==
    /\ job[w].phase = "load"
    /\ job' = [job EXCEPT
          ![w].phase = "send",
          ![w].entries = {<<o, row[o]>> : o \in Unreminded(RoundKey(job[w].round), job[w].on)}]
    /\ UNCHANGED <<day, tables, lock, failures, crashes, edits, history>>

Entries(w, a) == {e \in job[w].entries : Owner[e[1]] = a}

Sending(w, a) == job[w].phase = "send" /\ Entries(w, a) # {}

Skip(w, a) ==
    /\ Sending(w, a)
    /\ a \notin listening
    /\ job' = [job EXCEPT ![w].entries = @ \ Entries(w, a)]
    /\ UNCHANGED <<day, tables, lock, failures, crashes, edits, history>>

\* One message carries all the rows of the account; nothing is written yet.
\* (On the push channel an account without a device counts as written to.)
Deliver(w, a) ==
    LET key == RoundKey(job[w].round)
    IN  /\ Sending(w, a)
        /\ a \in listening \ Unreachable
        /\ delivered' = [o \in Occurrences |->
              IF <<o, row[o]>> \in Entries(w, a)
              THEN [delivered[o] EXCEPT ![key] = @ + 1] ELSE delivered[o]]
        /\ job' = [job EXCEPT ![w].phase = "stamp",
                              ![w].batch = Entries(w, a),
                              ![w].entries = @ \ Entries(w, a)]
        /\ UNCHANGED <<day, tables, lock, failures, crashes, edits, excused, crossed>>

\* Mutation of Fail: the batch is stamped although its message did not leave.
FailAndStamp(w, a) ==
    /\ Sending(w, a)
    /\ a \in listening
    /\ \/ a \in Unreachable /\ UNCHANGED failures
       \/ a \notin Unreachable /\ failures < MaxFailures /\ failures' = failures + 1
    /\ job' = [job EXCEPT ![w].phase = "stamp",
                          ![w].batch = Entries(w, a),
                          ![w].entries = @ \ Entries(w, a)]
    /\ UNCHANGED <<day, tables, lock, crashes, edits, history>>

\* Mutation of Fail: the exception is not caught, and the job ends there.
FailUncaught(w, a) ==
    /\ Sending(w, a)
    /\ a \in listening
    /\ \/ a \in Unreachable /\ UNCHANGED failures
       \/ a \notin Unreachable /\ failures < MaxFailures /\ failures' = failures + 1
    /\ lock' = None
    /\ job' = [job EXCEPT ![w] = Idle]
    /\ UNCHANGED <<day, tables, crashes, edits, history>>

\* Mutation of Fail: the job tries the same account again until it is reached.
FailAndRetry(w, a) ==
    /\ Sending(w, a)
    /\ a \in listening
    /\ \/ a \in Unreachable /\ UNCHANGED failures
       \/ a \notin Unreachable /\ failures < MaxFailures /\ failures' = failures + 1
    /\ UNCHANGED <<day, tables, lock, job, crashes, edits, history>>

\* Nothing left: the exception is logged and the loop goes on with the next
\* account.
Fail(w, a) ==
    /\ Sending(w, a)
    /\ a \in listening
    /\ \/ a \in Unreachable /\ UNCHANGED failures
       \/ a \notin Unreachable /\ failures < MaxFailures /\ failures' = failures + 1
    /\ job' = [job EXCEPT ![w].entries = @ \ Entries(w, a)]
    /\ UNCHANGED <<day, tables, lock, crashes, edits, history>>

\* _deliver_push goes through the devices of the account: one of them raises after
\* an earlier one got its message.  The same except catches it, and the rows are
\* left unmarked although a message about them has left.
FailHalfway(w, a) ==
    LET key == RoundKey(job[w].round)
        OneMore(counts) == [o \in Occurrences |->
              IF <<o, row[o]>> \in Entries(w, a)
              THEN [counts[o] EXCEPT ![key] = @ + 1] ELSE counts[o]]
    IN  /\ Sending(w, a)
        /\ key[2] = "push"
        /\ a \in listening
        /\ failures < MaxFailures /\ failures' = failures + 1
        /\ delivered' = OneMore(delivered)
        /\ excused' = OneMore(excused)
        /\ job' = [job EXCEPT ![w].entries = @ \ Entries(w, a)]
        /\ UNCHANGED <<day, tables, lock, crashes, edits, crossed>>

\* A message about the row has left, and its stamp is not committed yet.
InFlight(w, o, key) ==
    <<o, row[o]>> \in job[w].batch /\ key = RoundKey(job[w].round)

\* The transaction of a batch that was delivered does not commit.
LoseBatch(w) ==
    /\ excused' = [o \in Occurrences |-> [key \in Keys |->
          IF InFlight(w, o, key) /\ key \notin crossed[o]
          THEN excused[o][key] + 1 ELSE excused[o][key]]]
    /\ crossed' = [o \in Occurrences |-> {key \in crossed[o] : ~InFlight(w, o, key)}]

Release(w) == lock' = IF lock = w THEN None ELSE lock

RowsAreThere(w) == \A e \in job[w].batch : row[e[1]] = e[2]

Stamp(w) ==
    LET key == RoundKey(job[w].round)
    IN  /\ job[w].phase = "stamp"
        /\ RowsAreThere(w)
        /\ log' = [o \in Occurrences |->
              IF <<o, row[o]>> \in job[w].batch
              THEN log[o] \cup Stamps(o, key, job[w].on) ELSE log[o]]
        /\ job' = [job EXCEPT ![w].phase = "send", ![w].batch = {}]
        /\ UNCHANGED <<day, status, row, listening, lock, failures, crashes, edits, history>>

\* A row went away since it was read: the foreign key refuses the stamps of the
\* whole batch, outside the try of _dispatch, and the job ends there.
StampRefused(w) ==
    /\ job[w].phase = "stamp"
    /\ ~RowsAreThere(w)
    /\ LoseBatch(w)
    /\ Release(w)
    /\ job' = [job EXCEPT ![w] = Idle]
    /\ UNCHANGED <<day, tables, failures, crashes, edits, delivered>>

\* Mutation of EndRound: one round too many.
EndRoundLate(w) ==
    /\ job[w].phase = "send"
    /\ job[w].entries = {}
    /\ job[w].round <= Rounds
    /\ job' = [job EXCEPT ![w].phase = "load", ![w].round = @ + 1]
    /\ UNCHANGED <<day, tables, lock, failures, crashes, edits, history>>

EndRound(w) ==
    /\ job[w].phase = "send"
    /\ job[w].entries = {}
    /\ job[w].round < Rounds
    /\ job' = [job EXCEPT ![w].phase = "load", ![w].round = @ + 1]
    /\ UNCHANGED <<day, tables, lock, failures, crashes, edits, history>>

Finish(w) ==
    /\ job[w].phase = "send"
    /\ job[w].entries = {}
    /\ job[w].round = Rounds
    /\ Release(w)
    /\ job' = [job EXCEPT ![w] = Idle]
    /\ UNCHANGED <<day, tables, failures, crashes, edits, history>>

\* The process is killed: its transaction rolls back and the lock goes with
\* its connection.
Crash(w) ==
    /\ job[w].phase # "idle"
    /\ crashes < MaxCrashes
    /\ crashes' = crashes + 1
    /\ LoseBatch(w)
    /\ Release(w)
    /\ job' = [job EXCEPT ![w] = Idle]
    /\ UNCHANGED <<day, tables, failures, edits, delivered>>

-----------------------------------------------------------------------------
(* The owners, meanwhile.                                                  *)

Edit == edits < MaxEdits /\ edits' = edits + 1

SetStatus(o, from, to) ==
    /\ Edit
    /\ status[o] = from
    /\ status' = [status EXCEPT ![o] = to]
    /\ UNCHANGED <<day, row, log, listening, lock, job, failures, crashes, history>>

Settle(o) == SetStatus(o, "pending", "settled")
Reopen(o) == SetStatus(o, "settled", "pending")

\* The row and its log go; what is announced of the new one is another story.
NewRow(o) ==
    /\ row' = [row EXCEPT ![o] = @ + 1]
    /\ log' = [log EXCEPT ![o] = {}]
    /\ delivered' = [delivered EXCEPT ![o] = [key \in Keys |-> 0]]
    /\ excused' = [excused EXCEPT ![o] = [key \in Keys |-> 0]]
    /\ crossed' = [crossed EXCEPT ![o] = {}]

\* resync: the pending row of a due date to come is deleted and made again.
Reschedule(o) ==
    /\ Edit
    /\ status[o] = "pending" /\ Due[o] >= day
    /\ NewRow(o)
    /\ UNCHANGED <<day, status, listening, lock, job, failures, crashes>>

\* purge_now, a pause, the end of the account: the row is erased for good.
Erase(o) ==
    /\ Edit
    /\ status[o] # "gone"
    /\ status' = [status EXCEPT ![o] = "gone"]
    /\ NewRow(o)
    /\ UNCHANGED <<day, listening, lock, job, failures, crashes>>

\* clear_reminders: an edited deadline may be warned of again.  A warning whose
\* stamp is not committed yet is not in the log, and cannot be cleared from it.
MoveDeadline(o) ==
    LET Warned(key) == key[1] = "action_required"
    IN  /\ Edit
        /\ status[o] = "pending"
        /\ log' = [log EXCEPT ![o] = {key \in @ : ~Warned(key)}]
        /\ excused' = [excused EXCEPT ![o] =
              [key \in Keys |-> IF Warned(key) THEN delivered[o][key] ELSE @[key]]]
        /\ crossed' = [crossed EXCEPT ![o] =
              {key \in Keys : Warned(key) /\ \E w \in Workers : InFlight(w, o, key)}]
        /\ UNCHANGED <<day, status, row, listening, lock, job, failures, crashes, delivered>>

\* The preferences of the account.
Switch(a) ==
    /\ Edit
    /\ listening' = IF a \in listening THEN listening \ {a} ELSE listening \cup {a}
    /\ UNCHANGED <<day, status, row, log, lock, job, failures, crashes, history>>

Midnight ==
    /\ day < LastDay
    /\ day' = day + 1
    /\ UNCHANGED <<tables, lock, job, failures, crashes, edits, history>>

Work(w) ==
    \/ Prepare(w) \/ Load(w) \/ Stamp(w) \/ StampRefused(w) \/ EndRound(w) \/ Finish(w)
    \/ \E a \in Accounts :
          Skip(w, a) \/ Deliver(w, a) \/ Fail(w, a) \/ FailHalfway(w, a)

Owners ==
    \/ \E o \in Occurrences : \/ Settle(o) \/ Reopen(o) \/ Reschedule(o)
                              \/ Erase(o) \/ MoveDeadline(o)
    \/ \E a \in Accounts : Switch(a)

Next ==
    \/ \E w \in Workers : Start(w) \/ Work(w) \/ Crash(w)
    \/ Owners
    \/ Midnight

\* A process that runs goes on, and the platform keeps launching the job.
Fairness ==
    /\ \A w \in Workers : WF_vars(Work(w))
    /\ WF_vars(\E w \in Workers : Start(w))

Spec == Init /\ [][Next]_vars
FairSpec == Spec /\ Fairness

-----------------------------------------------------------------------------
Phases == {"idle", "prepare", "load", "send", "stamp"}

TypeOK ==
    /\ day \in 0 .. LastDay
    /\ status \in [Occurrences -> {"pending", "settled", "gone"}]
    /\ row \in [Occurrences -> Nat]
    /\ log \in [Occurrences -> SUBSET Keys]
    /\ listening \subseteq Accounts
    /\ lock \in Workers \cup {None}
    /\ job \in [Workers -> [phase : Phases, on : 0 .. LastDay, round : 0 .. Rounds,
                            entries : SUBSET (Occurrences \X Nat),
                            batch : SUBSET (Occurrences \X Nat)]]
    /\ failures \in 0 .. MaxFailures
    /\ crashes \in 0 .. MaxCrashes
    /\ edits \in 0 .. MaxEdits
    /\ delivered \in [Occurrences -> [Keys -> Nat]]
    /\ excused \in [Occurrences -> [Keys -> Nat]]
    /\ crossed \in [Occurrences -> SUBSET Keys]

\* The job runs once at a time, whoever launches it and however it ends, and the
\* lock is held exactly as long as it runs (jobs/daily.py, main).
OneJob ==
    \A w \in Workers : job[w].phase # "idle" <=> lock = w

\* "The log that makes a reminder go out exactly once" (README): whatever the
\* launches, crashes, failures and requests, a family writes about a row once on
\* a channel, plus once for every message whose stamp was lost with its
\* transaction or withdrawn by an edit of the deadline, and for every push that
\* failed when only some of the devices had it; and no message is excused twice.
AtMostOnce ==
    \A o \in Occurrences, key \in Keys :
        /\ delivered[o][key] <= 1 + excused[o][key]
        /\ excused[o][key] <= delivered[o][key]

\* A stamp is never there for nothing: each stands for a message that left and
\* was neither lost nor withdrawn or, for a notice, for the warning that the
\* trial ends.  The one exception is a warning under way at the very time the
\* deadline is moved: its stamp is written after the log was cleared, and stands
\* for the deadline that was (commitment_repository.clear_reminders).
StampMeansSent ==
    \A o \in Occurrences : \A key \in log[o] :
        \/ delivered[o][key] > excused[o][key]
        \/ key \in crossed[o]
        \/ /\ key[1] = "notice"
           /\ delivered[o][<<"action_required", key[2]>>] > 0

\* What the log says was written about is not written about again, even by a job
\* that read its rows before other requests and jobs changed them.
NeverAgainOnceStamped ==
    [][\A o \in Occurrences : \A key \in log[o] :
          delivered'[o][key] <= delivered[o][key]]_vars

\* "A mid-run failure does not resend to those already reached" (README, Daily
\* job): no row is written about twice by a family.
ReachedOnce ==
    \A o \in Occurrences, key \in Keys : delivered[o][key] <= 1

\* The window of the family is open today, for an owner who can be written to.
Wanted(o, key) ==
    /\ o \in Unreminded(key, day)
    /\ Owner[o] \in listening \ Unreachable

\* "A failed send is logged and left unmarked, and the next run retries it"
\* (README, Daily job): no reminder stays wanted for ever, whatever crashes,
\* and whatever fails for the other accounts.
EveryReminderGoesOut ==
    \A o \in Occurrences, key \in Keys : []<>~Wanted(o, key)

\* A job that starts ends, and leaves the lock for the next.
JobEnds ==
    \A w \in Workers : (lock = w) ~> (lock # w)

\* The steps a job has left at most: those of the rounds to come, and two for
\* each row in hand.
Left(j) ==
    LET span == 2 * Cardinality(Occurrences) + 3
        later == (Rounds - j.round) * span
        waiting == 2 * Cardinality(j.entries)
    IN  CASE j.phase = "idle"    -> 0
          [] j.phase = "prepare" -> Rounds * span
          [] j.phase = "load"    -> later + span - 1
          [] j.phase = "send"    -> later + waiting + 1
          [] j.phase = "stamp"   -> later + waiting + 2

WorkLeft(w) == Left(job[w])

\* Why it ends: each of its steps leaves it less to do, whatever fails, and
\* nothing that others do meanwhile gives it more (ReminderService._dispatch:
\* the rows are read once, and the loop only goes through them).
JobAdvances ==
    [][\A w \in Workers :
          /\ Work(w) => WorkLeft(w)' < WorkLeft(w)
          /\ ~Start(w) => WorkLeft(w)' <= WorkLeft(w)]_vars
=============================================================================
