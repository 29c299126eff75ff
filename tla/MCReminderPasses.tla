-------------------------- MODULE MCReminderPasses --------------------------
(***************************************************************************)
(* One due date on day 100, the constants of models/db/commitments_db.py.  *)
(***************************************************************************)
EXTENDS ReminderPasses

MCDue == 100

Commitments(leads, trials, notices) ==
    {[starts_on |-> MCDue, trial_ends_on |-> t, cancellation_notice_days |-> n,
      reminder_days_before |-> l] : l \in leads, t \in trials, n \in notices}

\* A lead below, at and above the minimum of a trial; a trial that ends on the
\* charge, before it, or too long before it for the query; notices whose deadline
\* falls around the trial's.
MCTerms == Commitments({0, 2, 5, 30}, {None, 8, 98, 100}, {None, 1, 3, 60})

NoonShifts == {0, 1}
MCBirths == {5, 95, 102}

\* One commitment for run DeadNotice: the cancellation deadline is day 40, and the
\* trial's window opens on day 95 and closes on day 98.
TwoDeadlines == Commitments({0}, {98}, {60})
=============================================================================
