--------------------------- MODULE ReminderPasses ---------------------------
(***************************************************************************)
(* The daily passes over one unpaid occurrence, day after day, with the    *)
(* constants of the program at their real size: what the windows, the log  *)
(* and its purge add up to over the life of a due date.  No two actors     *)
(* interleave here; module Reminders has the interleavings.                *)
(*                                                                         *)
(* The job is planned at noon UTC, where an account reads the server's day *)
(* or the day after (Shifts = {0, 1}); launched by hand at another hour it *)
(* may also meet the day before.                                           *)
(***************************************************************************)
EXTENDS ReminderWindow

CONSTANTS
    PurgeRemindersAfterDays,  \* PURGE_REMINDERS_AFTER_DAYS: 45
    Due,                      \* the due date, starts_on of its commitment
    Terms,                    \* the commitments tried
    Shifts,                   \* account's day minus server's day
    Births,                   \* the server's day of the first pass
    MaxMissed,                \* passes missed in a row, at most
    LastDay                   \* bound: the last day looked at

ASSUME PassAssumption ==
    /\ PurgeRemindersAfterDays \in Nat
    /\ Due \in Int
    /\ Shifts \subseteq -TimezoneSpreadDays .. TimezoneSpreadDays
    /\ Births \subseteq Int
    /\ MaxMissed \in Nat
    /\ LastDay \in Int
    \* REMINDER_LOG_MARGIN_DAYS is more than the spread of the zones
    /\ PurgeRemindersAfterDays >= OverdueReminderWindowDays + TimezoneSpreadDays
    /\ \A c \in Terms :
         /\ c.starts_on \in Int
         /\ c.trial_ends_on \in Int \cup {None}
         \* CHECK trial_ends_on <= starts_on
         /\ c.trial_ends_on # None => c.trial_ends_on <= c.starts_on
         /\ c.cancellation_notice_days \in Nat \cup {None}
         /\ c.reminder_days_before \in 0 .. MaxReminderDays

Messages == {"notice", "overdue", "trial", "cancellation"}

VARIABLES
    terms,      \* the commitment
    shift,      \* its account's zone, at the hour of the pass
    born,       \* server's day of the first pass
    reference,  \* server's day of the next pass
    missed,     \* passes missed since the last one
    log,        \* occurrence_reminders: families stamped for this occurrence
    emails      \* how many times each message was delivered

vars == <<terms, shift, born, reference, missed, log, emails>>

Init ==
    /\ terms \in Terms
    /\ shift \in Shifts
    /\ born \in Births
    /\ reference = born
    /\ missed = 0
    /\ log = {}
    /\ emails = [m \in Messages |-> 0]

today == reference + shift

-----------------------------------------------------------------------------
\* Mutation of AfterPurge: the margin of the log without the overdue window.
AfterPurgeTooSoon(stamps) ==
    IF Due < reference - (PurgeRemindersAfterDays - OverdueReminderWindowDays)
    THEN {} ELSE stamps

\* purge_reminders: the log of a due date older than the bound is erased.
AfterPurge(stamps) ==
    IF Due < reference - PurgeRemindersAfterDays THEN {} ELSE stamps

\* _open_actions and _due_today: the window kept with the server's day, and
\* sent if it is open on the account's own.
ActionsToSend(stamps) ==
    {w \in KeptWindows(terms, Due, reference) :
        /\ "action_required" \notin stamps
        /\ InQuery("action_required", Due, terms.reminder_days_before, reference)
        /\ IsDue("action_required", Due, terms.reminder_days_before, today)
        /\ IsOpen(w, today)}

\* Mutations of StampAction: the reason in place of the family; the notice left out.
StampActionReason(stamps) == stamps \cup {w.reason : w \in ActionsToSend(stamps)}

StampActionAlone(stamps) ==
    stamps \cup {k \in {"action_required"} : ActionsToSend(stamps) # {}}

\* A trial's warning announces its charge: it stamps the notice as well.
StampAction(stamps) ==
    stamps \cup {k \in {"action_required"} : ActionsToSend(stamps) # {}}
           \cup {k \in {"notice"} : \E w \in ActionsToSend(stamps) : w.reason = "trial"}

Sends(kind, stamps) ==
    /\ kind \notin stamps
    /\ InQuery(kind, Due, terms.reminder_days_before, reference)
    /\ IsDue(kind, Due, terms.reminder_days_before, today)

Stamp(kind, stamps) == stamps \cup {k \in {kind} : Sends(k, stamps)}

\* One pass: purge, then actions, notices and overdue reminders in that order.
\* The job may be launched again on the same day, or next on the following one.
Pass ==
    LET kept    == AfterPurge(log)
        acted   == StampAction(kept)
        noticed == Stamp("notice", acted)
        sent    == {w.reason : w \in ActionsToSend(kept)}
                        \cup {k \in {"notice"} : Sends(k, acted)}
                        \cup {k \in {"overdue"} : Sends(k, noticed)}
    IN  /\ log' = Stamp("overdue", noticed)
        /\ emails' = [m \in Messages |->
                         IF m \in sent THEN emails[m] + 1 ELSE emails[m]]
        /\ reference' \in {reference, reference + 1} \cap born .. LastDay
        /\ missed' = 0
        /\ UNCHANGED <<terms, shift, born>>

\* A day on which the job did not run: outage, deployment, machine off.
PassMissed ==
    /\ missed < MaxMissed
    /\ reference < LastDay
    /\ reference' = reference + 1
    /\ missed' = missed + 1
    /\ UNCHANGED <<terms, shift, born, log, emails>>

Next == Pass \/ PassMissed

Spec == Init /\ [][Next]_vars

-----------------------------------------------------------------------------
TypeOK ==
    /\ terms \in Terms
    /\ shift \in Shifts
    /\ born \in Births
    /\ reference \in Int
    /\ missed \in 0 .. MaxMissed
    /\ log \subseteq Kinds
    /\ emails \in [Messages -> Nat]

\* However many passes run, and although the log is purged, a family writes
\* about an occurrence once: what the purge forgets is out of every window.
OncePerFamily ==
    /\ emails["notice"] <= 1
    /\ emails["overdue"] <= 1
    /\ emails["trial"] + emails["cancellation"] <= 1

\* "Pour ne pas annoncer deux fois la meme chose" (reminder_service.py, send_due):
\* a charge is announced by a trial's warning or by a notice, never by both.
NoticeOrTrial == emails["notice"] + emails["trial"] <= 1

\* It holds for the accounts that share the server's day when the job runs,
\* whatever passes are missed.
NoticeOrTrialOnServerDay == shift = 0 => NoticeOrTrial

NoticeInTime ==
    /\ born + shift <= Due - terms.reminder_days_before
    /\ MaxMissed <= terms.reminder_days_before
    /\ today > Due
    => emails["notice"] + emails["trial"] >= 1

OverdueInTime ==
    /\ born + shift <= Due + OverdueReminderDays
    /\ MaxMissed <= OverdueReminderWindowDays - OverdueReminderDays
    /\ today > Due + OverdueReminderWindowDays
    => emails["overdue"] >= 1

Windows == TrialWindow(terms, Due) \cup CancellationWindow(terms, Due)

\* The first of the two deadlines; the cancellation's when they fall together.
IsTighter(w) ==
    \A v \in Windows :
        \/ w.deadline < v.deadline
        \/ w.deadline = v.deadline /\ (w.reason = "cancellation" \/ v = w)

\* The query looks as far ahead as the day its window opens on.
OpensWithinQuery(w) ==
    Due - (w.deadline - w.lead_days) <= MaxCancellationNoticeDays + MaxReminderDays

WarningInTime ==
    \A w \in Windows :
        /\ IsTighter(w) /\ OpensWithinQuery(w)
        /\ shift >= 0
        /\ born + shift <= w.deadline - w.lead_days
        /\ MaxMissed <= w.lead_days
        /\ today > w.deadline
        => emails[w.reason] >= 1

\* The windows are intervals: unless more passes in a row are missed than the
\* lead has days, the due date is announced before it is past, and the overdue
\* reminder, whose window spans weeks, leaves before that window closes.  So does
\* the warning of a deadline, on its own days, if it is the only one or the first
\* of two: what a dead deadline can hide is a later one (TrialIsWarnedOf).
\* This is for the accounts on the server's day or ahead of it: for one behind,
\* the server drops the window on a day that is still the deadline's for it.
EachFamilyInTime == NoticeInTime /\ OverdueInTime /\ WarningInTime

CancellationDeadline == Due - terms.cancellation_notice_days
CancellationOpensOn == CancellationDeadline - terms.reminder_days_before

TrialOpensOn ==
    terms.trial_ends_on - Longer(terms.reminder_days_before, MinTrialNoticeDays)

\* No message leaves outside its window, on the calendar of the account and at
\* either end: a notice neither before its lead nor after the charge, an overdue
\* reminder neither too soon nor once the weeks of its window are over, a warning
\* neither before its deadline's window opens nor once the deadline has passed.
\* A warning is about a deadline that the commitment has, a trial's about the
\* first charge.
SentInItsWindow ==
    [][/\ emails'["notice"] > emails["notice"] =>
            Due - terms.reminder_days_before <= today /\ today <= Due
       /\ emails'["overdue"] > emails["overdue"] =>
            /\ Due + OverdueReminderDays <= today
            /\ today <= Due + OverdueReminderWindowDays
       /\ emails'["trial"] > emails["trial"] =>
            /\ terms.trial_ends_on # None /\ Due = terms.starts_on
            /\ TrialOpensOn <= today /\ today <= terms.trial_ends_on
       /\ emails'["cancellation"] > emails["cancellation"] =>
            /\ terms.cancellation_notice_days # None
            /\ CancellationOpensOn <= today /\ today <= CancellationDeadline]_vars

\* "Tells you when a free trial or a cancellation notice is about to close"
\* (README, the opening lines): every trial is warned of, when no pass is missed
\* from the day its window opens.  Said of the trials whose commitment has a
\* cancellation deadline too, one that was over before that day: the two windows
\* are never open together, so neither is ever the tighter of two.
TrialIsWarnedOf ==
    /\ terms.trial_ends_on # None /\ terms.cancellation_notice_days # None
    /\ CancellationDeadline < TrialOpensOn
    /\ MaxMissed = 0 /\ born + shift <= TrialOpensOn
    /\ today > terms.trial_ends_on
    => emails["trial"] >= 1

\* "The SQL casts wide, the predicate decides" (README, The window): although one
\* window is kept of the two, and it may not be open yet, the pass of the last
\* day of a deadline leaves nothing unsaid.  For the accounts that share the
\* server's day: the window is chosen with that day, and for the others one
\* that is over may hide one that ends today.  And for the deadlines within the
\* bounds of the query: a trial may end long before its first charge, whose due
\* date is then too far ahead for it to be looked at.
WithinQuery(w) == Due - w.deadline <= MaxCancellationNoticeDays + MaxReminderDays

LastDayIsReached ==
    [][\A w \in Windows :
            Pass /\ shift = 0 /\ w.deadline = today /\ WithinQuery(w)
                => "action_required" \in log']_vars
=============================================================================
