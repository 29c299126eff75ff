---------------------------- MODULE WeeklyDigest ----------------------------
(***************************************************************************)
(* The digest of the week: services/notifications/weekly_digest.py, run by *)
(* the daily job after its reminders, under the same lock, so that one job *)
(* at a time is here (OneJob of module Reminders); owners go on meanwhile. *)
(*                                                                         *)
(* The accounts that have their digest and the rows that are due are read  *)
(* once; then, account by account, a message leaves and its mark commits.  *)
(***************************************************************************)
EXTENDS Integers, FiniteSets

CONSTANTS
    Accounts,
    WeekLength,     \* 7
    LastDay,        \* bound: the last day; day 0 is a Monday
    MaxFailures,    \* bound: messages that do not leave
    MaxCrashes,     \* bound: jobs killed, or ended before their commit
    MaxEdits        \* bound: requests of the owners

DigestConstants ==
    /\ WeekLength \in Nat \ {0}
    /\ LastDay \in Nat /\ MaxFailures \in Nat /\ MaxCrashes \in Nat /\ MaxEdits \in Nat

VARIABLES
    today,
    due,        \* by account, the days of its pending rows of active commitments
    reader,     \* by account: "listening", "deaf" (a switch is off) or "gone"
    digests,    \* table weekly_digests, as <<account, week>>
    run,        \* the job
    failures, crashes, edits,
    posted,     \* history: digests that left, by account and week
    unmarked    \* history: those whose mark was not committed

digestVars == <<today, due, reader, digests, run, failures, crashes, edits, posted, unmarked>>

Days == 0 .. LastDay

\* week_start, as a number.
Week(d) == d \div WeekLength
Weeks == {Week(d) : d \in Days}
Sunday(w) == w * WeekLength + WeekLength - 1

Off == [step |-> "off", on |-> 0, left |-> {}, marking |-> {}]

Init ==
    /\ today = 0
    /\ due \in [Accounts -> {{0}, {LastDay}}]
    /\ reader = [a \in Accounts |-> "listening"]
    /\ digests = {}
    /\ run = Off
    /\ failures = 0 /\ crashes = 0 /\ edits = 0
    /\ posted = [a \in Accounts |-> [w \in Weeks |-> 0]]
    /\ unmarked = posted

\* due_between, from the day of the run to Sunday.
DueFrom(a, d) == \E x \in due[a] : d <= x /\ x <= Sunday(Week(d))

\* Mutation of Already: the digests of the days before are not this run's.
AlreadyToday(d) == {}

\* sent_for_week
Already(d) == {a \in Accounts : <<a, Week(d)>> \in digests}

Load ==
    /\ run.step = "off"
    /\ run' = [Off EXCEPT !.step = "sending", !.on = today,
                          !.left = {a \in Accounts \ Already(today) : DueFrom(a, today)}]
    /\ UNCHANGED <<today, due, reader, digests, failures, crashes, edits, posted, unmarked>>

Turn(a) == run.step = "sending" /\ a \in run.left

Skip(a) ==
    /\ Turn(a)
    /\ reader[a] # "listening"
    /\ run' = [run EXCEPT !.left = @ \ {a}]
    /\ UNCHANGED <<today, due, reader, digests, failures, crashes, edits, posted, unmarked>>

\* Logged, counted, and left for the next run of the week.
Fail(a) ==
    /\ Turn(a)
    /\ reader[a] = "listening"
    /\ failures < MaxFailures /\ failures' = failures + 1
    /\ run' = [run EXCEPT !.left = @ \ {a}]
    /\ UNCHANGED <<today, due, reader, digests, crashes, edits, posted, unmarked>>

Post(a) ==
    /\ Turn(a)
    /\ reader[a] = "listening"
    /\ posted' = [posted EXCEPT ![a][Week(run.on)] = @ + 1]
    /\ run' = [run EXCEPT !.step = "marking", !.left = @ \ {a}, !.marking = {a}]
    /\ UNCHANGED <<today, due, reader, digests, failures, crashes, edits, unmarked>>

\* mark_sent and its commit, account by account.
Mark ==
    /\ run.step = "marking"
    /\ \A a \in run.marking : reader[a] # "gone"
    /\ digests' = digests \cup {<<a, Week(run.on)>> : a \in run.marking}
    /\ run' = [run EXCEPT !.step = "sending", !.marking = {}]
    /\ UNCHANGED <<today, due, reader, failures, crashes, edits, posted, unmarked>>

Lose ==
    unmarked' = [a \in Accounts |->
        IF a \in run.marking THEN [unmarked[a] EXCEPT ![Week(run.on)] = @ + 1] ELSE unmarked[a]]

\* The account is gone: its foreign key refuses the mark, and the job ends there.
MarkRefused ==
    /\ run.step = "marking"
    /\ \E a \in run.marking : reader[a] = "gone"
    /\ Lose
    /\ run' = Off
    /\ UNCHANGED <<today, due, reader, digests, failures, crashes, edits, posted>>

Finish ==
    /\ run.step = "sending" /\ run.left = {}
    /\ run' = Off
    /\ UNCHANGED <<today, due, reader, digests, failures, crashes, edits, posted, unmarked>>

Crash ==
    /\ run.step # "off"
    /\ crashes < MaxCrashes /\ crashes' = crashes + 1
    /\ Lose
    /\ run' = Off
    /\ UNCHANGED <<today, due, reader, digests, failures, edits, posted>>

-----------------------------------------------------------------------------
(* The owners, meanwhile.                                                  *)

Edit == edits < MaxEdits /\ edits' = edits + 1

\* Paying, adding or moving a commitment.
Reschedule(a, days) ==
    /\ Edit
    /\ reader[a] # "gone"
    /\ due' = [due EXCEPT ![a] = days]
    /\ UNCHANGED <<today, reader, digests, run, failures, crashes, posted, unmarked>>

\* The preferences of the account.
Switch(a) ==
    /\ Edit
    /\ reader[a] # "gone"
    /\ reader' = [reader EXCEPT ![a] = IF @ = "deaf" THEN "listening" ELSE "deaf"]
    /\ UNCHANGED <<today, due, digests, run, failures, crashes, posted, unmarked>>

\* ON DELETE CASCADE: its rows and its marks go with it.
DeleteAccount(a) ==
    /\ Edit
    /\ reader[a] # "gone"
    /\ reader' = [reader EXCEPT ![a] = "gone"]
    /\ due' = [due EXCEPT ![a] = {}]
    /\ digests' = {d \in digests : d[1] # a}
    /\ UNCHANGED <<today, run, failures, crashes, posted, unmarked>>

Midnight ==
    /\ today < LastDay
    /\ today' = today + 1
    /\ UNCHANGED <<due, reader, digests, run, failures, crashes, edits, posted, unmarked>>

Next ==
    \/ Load \/ Mark \/ MarkRefused \/ Finish \/ Crash
    \/ \E a \in Accounts :
          \/ Skip(a) \/ Fail(a) \/ Post(a)
          \/ Switch(a) \/ DeleteAccount(a)
          \/ \E days \in {{}, {today}, {LastDay}} : Reschedule(a, days)
    \/ Midnight

Spec == Init /\ [][Next]_digestVars

-----------------------------------------------------------------------------
TypeOK ==
    /\ today \in Days
    /\ due \in [Accounts -> SUBSET Days]
    /\ reader \in [Accounts -> {"listening", "deaf", "gone"}]
    /\ digests \subseteq Accounts \X Weeks
    /\ run \in [step : {"off", "sending", "marking"}, on : Days,
                left : SUBSET Accounts, marking : SUBSET Accounts]
    /\ failures \in Nat /\ crashes \in Nat /\ edits \in Nat
    /\ posted \in [Accounts -> [Weeks -> Nat]]
    /\ unmarked \in [Accounts -> [Weeks -> Nat]]

\* "The (user_id, week_start, channel) key alone makes the send unique" (README,
\* The weekly digest): whatever the days the job runs, catches up and crosses
\* midnight, an account has one digest a week, plus one for each mark that was
\* lost between the message and its commit.
OncePerWeek ==
    \A a \in Accounts, w \in Weeks : posted[a][w] <= 1 + unmarked[a][w]
=============================================================================
