---------------------------- MODULE MCCommitments ----------------------------
(***************************************************************************)
(* Small instances of Commitments: months of three days, weeks of three,   *)
(* and bounds of a day or two where the program has thirty.                *)
(***************************************************************************)
EXTENDS Commitments, TLC

MCLastMonth == 4
MCMonthStart == [m \in 0 .. MCLastMonth + 1 |-> 3 * m]
MCMonthOf == [d \in 0 .. 3 * (MCLastMonth + 1) - 1 |-> d \div 3]
MCLongestPeriod == [weekly |-> 3, monthly |-> 3, quarterly |-> 9, yearly |-> 36, oneoff |-> 0]

Payload(type, frequency, starts_on, ends_on) ==
    [type |-> type, amount |-> 1, frequency |-> frequency, starts_on |-> starts_on,
     ends_on |-> ends_on, trial_ends_on |-> None, cancellation_notice_days |-> None]

-----------------------------------------------------------------------------
(* The ceiling: three commitments, two accounts, one of each type allowed.  *)
(* Their due date is beyond the horizon, so that no row is generated, and  *)
(* the zones are those that share the server's day.                        *)

CONSTANTS c1, c2, c3
CeilingIds == {c1, c2, c3}
Interchangeable == Permutations(CeilingIds)
CeilingDrafts == {Payload(type, "oneoff", 14, None) : type \in {"subscription", "invoice"}}
CeilingEdits ==
    {[type |-> t] : t \in {"subscription", "invoice"}}
        \cup {[status |-> s] : s \in Statuses}
        \cup {[type |-> "invoice", status |-> "active"]}

-----------------------------------------------------------------------------
(* The schedule and the log: one commitment, day after day.                *)

ShortLastMonth == 2
ShortMonthStart == [m \in 0 .. ShortLastMonth + 1 |-> 3 * m]
ShortMonthOf == [d \in 0 .. 3 * (ShortLastMonth + 1) - 1 |-> d \div 3]

AnyZone == -1 .. 1
ScheduleDrafts == {Payload("invoice", "weekly", 1, None)}
ScheduleEdits == {[amount |-> 2, starts_on |-> 0], [trial_ends_on |-> 1]}
\* A payment on day 2, which some owners still have before them.
ScheduleRowEdits == {[status |-> "paid", paid_on |-> 2], [status |-> "pending"]}
=============================================================================
