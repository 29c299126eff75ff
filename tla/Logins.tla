------------------------------- MODULE Logins -------------------------------
(***************************************************************************)
(* The lockout of an account after failed logins: login_user of            *)
(* services/authentication/email_password.py up to the check of the        *)
(* password.  What follows a right password is BeginLogin of Sessions.     *)
(*                                                                         *)
(* A login takes the time and reads the account, compares the password for *)
(* a while (argon2), then writes: two steps, between which other logins of *)
(* the account go by.  The write is an UPDATE of what it read, by value.   *)
(***************************************************************************)
EXTENDS Integers, FiniteSets

CONSTANTS
    Requests,           \* logins, each served once
    MaxLoginAttempts,   \* MAX_LOGIN_ATTEMPTS_PER_HOUR: 20
    LoginWindow,        \* LOGIN_WINDOW_HOURS: 1
    LastTick,           \* bound: the last instant
    None

LoginsConstants ==
    /\ IsFiniteSet(Requests)
    /\ MaxLoginAttempts \in Nat \ {0}
    /\ LoginWindow \in Nat \ {0}
    /\ LastTick \in Nat
    /\ None \notin Nat

VARIABLES
    clock,
    account,    \* failed_login_count and last_failed_login_at
    login,      \* what each login has read, and when
    failed,     \* history: the failures since the last success, as <<login, time>>
    missed      \* history: failures that another login did not see when it wrote

loginVars == <<clock, account, login, failed, missed>>

Init ==
    /\ clock = 0
    /\ account = [count |-> 0, last |-> None]
    /\ login = [r \in Requests |-> [step |-> "new", at |-> 0, count |-> 0, last |-> None,
                                    unseen |-> 0]]
    /\ failed = {}
    /\ missed = 0

Recent(last, at) == last # None /\ last > at - LoginWindow

\* Mutation of LoginLocked: one failure too many.
LockedLate(row, at) == Recent(row.last, at) /\ row.count > MaxLoginAttempts

LoginLocked(row, at) == Recent(row.last, at) /\ row.count >= MaxLoginAttempts

\* A locked account is answered as if the password were wrong, and nothing is written.
TurnedAway(r) ==
    /\ login[r].step = "new"
    /\ LoginLocked(account, clock)
    /\ login' = [login EXCEPT ![r].step = "done"]
    /\ UNCHANGED <<clock, account, failed, missed>>

Begin(r) ==
    /\ login[r].step = "new"
    /\ ~LoginLocked(account, clock)
    /\ login' = [login EXCEPT ![r].step = "comparing", ![r].at = clock,
                              ![r].count = account.count, ![r].last = account.last]
    /\ UNCHANGED <<clock, account, failed, missed>>

NextFailureCount(count, last, at) == IF Recent(last, at) THEN count + 1 ELSE 1

\* What the others will find that they had not seen.
Overtake(r) ==
    [s \in Requests |-> IF s # r /\ login[s].step = "comparing"
                        THEN [login[s] EXCEPT !.unseen = @ + 1] ELSE login[s]]

\* Wrong password: the count that was read, plus one, at the time that was read.
FailLogin(r) ==
    LET q == login[r]
    IN  /\ q.step = "comparing"
        /\ account' = [count |-> NextFailureCount(q.count, q.last, q.at), last |-> q.at]
        /\ failed' = failed \cup {<<r, q.at>>}
        /\ missed' = missed + q.unseen
        /\ login' = [Overtake(r) EXCEPT ![r].step = "done"]
        /\ UNCHANGED clock

\* Right password: the failures that were read are forgotten.
PassLogin(r) ==
    LET q == login[r]
    IN  /\ q.step = "comparing"
        /\ IF q.count = 0 THEN UNCHANGED <<account, failed>>
           ELSE account' = [count |-> 0, last |-> None] /\ failed' = {}
        /\ login' = [login EXCEPT ![r].step = "done"]
        /\ UNCHANGED <<clock, missed>>

LoginTick ==
    /\ clock < LastTick
    /\ clock' = clock + 1
    /\ UNCHANGED <<account, login, failed, missed>>

Next ==
    \/ \E r \in Requests : TurnedAway(r) \/ Begin(r) \/ FailLogin(r) \/ PassLogin(r)
    \/ LoginTick

Spec == Init /\ [][Next]_loginVars

-----------------------------------------------------------------------------
TypeOK ==
    /\ clock \in Nat
    /\ account \in [count : Nat, last : Nat \cup {None}]
    /\ login \in [Requests -> [step : {"new", "comparing", "done"}, at : Nat, count : Nat,
                               last : Nat \cup {None}, unseen : Nat]]
    /\ failed \subseteq Requests \X Nat
    /\ missed \in Nat

\* "Twenty failed logins within one hour lock the account" (README, Lockout): no
\* hour holds more failures since the last success, but for those that overlapping
\* logins did not see, and wrote over.
LockoutHolds ==
    \A t \in 0 .. clock :
        Cardinality({f \in failed : f[2] \in t - LoginWindow + 1 .. t})
            <= MaxLoginAttempts + missed
=============================================================================
