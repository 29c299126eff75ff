--------------------------- MODULE ReminderWindow ---------------------------
(***************************************************************************)
(* The windows of services/notifications/reminder_window.py, the SQL that  *)
(* uses them (repositories/commitment_repository.py) and the deadlines of  *)
(* services/commitments/action_window.py.  Days are day numbers.           *)
(***************************************************************************)
EXTENDS Integers

CONSTANTS
    MaxReminderDays,            \* MAX_REMINDER_DAYS: 30
    OverdueReminderDays,        \* OVERDUE_REMINDER_DAYS: 3
    OverdueReminderWindowDays,  \* OVERDUE_REMINDER_WINDOW_DAYS: 30
    MaxCancellationNoticeDays,  \* MAX_CANCELLATION_NOTICE_DAYS: 60
    MinTrialNoticeDays,         \* MIN_TRIAL_NOTICE_DAYS: 3
    TimezoneSpreadDays,         \* TIMEZONE_SPREAD_DAYS: 1
    None                        \* SQL NULL, Python None

ASSUME WindowAssumption ==
    /\ MaxReminderDays \in Nat
    /\ OverdueReminderDays \in Nat
    /\ OverdueReminderWindowDays \in Nat
    /\ MaxCancellationNoticeDays \in Nat
    /\ MinTrialNoticeDays \in Nat
    /\ TimezoneSpreadDays \in Nat

Kinds == {"notice", "overdue", "action_required"}

-----------------------------------------------------------------------------
(* The window of each family, as the days a due date may fall on.          *)

Bounds(kind, on_date) ==
    CASE kind = "notice"  -> [earliest |-> on_date,
                              latest   |-> on_date + MaxReminderDays]
      [] kind = "overdue" -> [earliest |-> on_date - OverdueReminderWindowDays,
                              latest   |-> on_date - OverdueReminderDays]
      [] OTHER            -> [earliest |-> on_date,
                              latest   |-> on_date + MaxCancellationNoticeDays
                                                   + MaxReminderDays]

QueryBounds(kind, on_date) ==
    LET exact == Bounds(kind, on_date)
    IN  [earliest |-> exact.earliest - TimezoneSpreadDays,
         latest   |-> exact.latest + TimezoneSpreadDays]

\* Mutation of IsDue: a day instead of an interval.
IsDueOnTheDay(kind, due_date, lead, today) ==
    due_date = IF kind = "notice" THEN today + lead ELSE Bounds(kind, today).latest

\* The exact window, with the day of the person and the lead of the commitment.
IsDue(kind, due_date, lead, today) ==
    LET exact == Bounds(kind, today)
    IN  /\ exact.earliest <= due_date
        /\ due_date <= exact.latest
        /\ kind = "notice" => due_date <= today + lead

\* The dates the query of a family brings back; that of the notices carries
\* the lead too, widened like the rest.
InQuery(kind, due_date, lead, on_date) ==
    LET wide == QueryBounds(kind, on_date)
    IN  /\ wide.earliest <= due_date
        /\ due_date <= wide.latest
        /\ kind = "notice" => due_date <= on_date + TimezoneSpreadDays + lead

-----------------------------------------------------------------------------
(* Deadlines to act by, computed from the terms of a commitment.           *)

Longer(a, b) == IF a >= b THEN a ELSE b

\* Only the first charge ends a trial.
TrialWindow(c, due_date) ==
    IF c.trial_ends_on = None \/ due_date # c.starts_on THEN {}
    ELSE {[deadline  |-> c.trial_ends_on,
           reason    |-> "trial",
           lead_days |-> Longer(c.reminder_days_before, MinTrialNoticeDays)]}

CancellationWindow(c, due_date) ==
    IF c.cancellation_notice_days = None THEN {}
    ELSE {[deadline  |-> due_date - c.cancellation_notice_days,
           reason    |-> "cancellation",
           lead_days |-> c.reminder_days_before]}

\* Mutation of IsOpen: the day the window opens on forgotten.
IsOpenSinceEver(window, today) == today <= window.deadline

IsOpen(window, today) ==
    /\ window.deadline - window.lead_days <= today
    /\ today <= window.deadline

\* Mutation of LiveWindows: a deadline that has passed is kept.
AllWindows(c, due_date, reference) ==
    TrialWindow(c, due_date) \cup CancellationWindow(c, due_date)

\* The windows whose deadline has not passed on the reference day, and the one
\* that action_window keeps: the tighter, "cancellation" before "trial" on a tie.
LiveWindows(c, due_date, reference) ==
    {w \in TrialWindow(c, due_date) \cup CancellationWindow(c, due_date) :
        w.deadline >= reference}

KeptWindows(c, due_date, reference) ==
    LET live == LiveWindows(c, due_date, reference)
    IN  {w \in live : \A v \in live :
            \/ w.deadline < v.deadline
            \/ w.deadline = v.deadline /\ (w.reason = "cancellation" \/ w = v)}
=============================================================================
