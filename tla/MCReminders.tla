----------------------------- MODULE MCReminders -----------------------------
(***************************************************************************)
(* Two accounts.  Ann has two due dates, so that her messages carry more   *)
(* than one row; the first of them ends a trial.  Nobody can write to Bob. *)
(***************************************************************************)
EXTENDS Reminders, TLC

CONSTANTS w1, w2, ann, bob, first, second, other

MCWorkers == {w1, w2}
Interchangeable == Permutations(MCWorkers)

MCOwner == (first :> ann) @@ (second :> ann) @@ (other :> bob)
MCDue == (first :> 2) @@ (second :> 2) @@ (other :> 2)

Commitment(trial) ==
    [starts_on |-> 2, trial_ends_on |-> trial, cancellation_notice_days |-> None,
     reminder_days_before |-> 2]
MCTerms ==
    (first :> Commitment(1)) @@ (second :> Commitment(None)) @@ (other :> Commitment(None))

AllFamilies == <<"action_required", "notice", "overdue">>
EarlyFamilies == <<"action_required", "notice">>
NoticeOnly == <<"notice">>
Email == <<"email">>
EmailAndPush == <<"email", "push">>
=============================================================================
