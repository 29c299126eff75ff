-------------------------------- MODULE Codes --------------------------------
(***************************************************************************)
(* The one-time codes of an account: verification of its address, reset of *)
(* its password, change of its address (services/emailing/otp_service.py   *)
(* and the requests that issue and check codes).                           *)
(*                                                                         *)
(* A request is one transaction.  It reads the account when it starts and  *)
(* goes on with what it read; its writes wait for the row of the users     *)
(* table and for the row that counts the tries, keep them locked, and are  *)
(* seen by others when it commits.  A refusal (AppException) commits as    *)
(* well; a failed mail, a killed process or a deadlock rolls back.         *)
(*                                                                         *)
(* Each request of the model is served once, so that its name stands for   *)
(* the code it issues.                                                     *)
(***************************************************************************)
EXTENDS Integers, FiniteSets

CONSTANTS
    Requests,
    Addresses,
    Home,          \* the address the account is registered with
    Opening,       \* the code mailed at its registration
    Wrong,         \* a guess that is no code
    MaxAttempts,   \* MAX_VERIFICATION_ATTEMPTS: 5
    MaxResends,    \* MAX_RESEND_PER_HOUR: 5
    CodeLife,      \* OTP_EXPIRY_MINUTES: 15
    Hour,          \* the window of the resend limit
    LastTick,      \* bound: the last instant
    MaxCuts,       \* bound: transactions that are rolled back by a fault
    None

Kinds == {"verification", "reset", "email_change"}
Codes == Requests \cup {Opening}

\* The columns of users that the codes are about.
Code == [code : Codes \cup {None}, at : Nat]

User ==
    [email : Addresses, verified : BOOLEAN, pending : Addresses \cup {None},
     code : [Kinds -> Code], sent : Nat \cup {None}, resends : Nat]

CodesConstants ==
    /\ IsFiniteSet(Requests)
    /\ Home \in Addresses
    /\ Opening \notin Requests /\ Wrong \notin Codes
    /\ None \notin Codes /\ None \notin Addresses /\ None \notin Nat /\ None \notin User
    /\ MaxAttempts \in Nat /\ MaxResends \in Nat \ {0}
    /\ CodeLife \in Nat /\ Hour \in Nat \ {0} /\ LastTick \in Nat /\ MaxCuts \in Nat

VARIABLES
    now,
    user,       \* the account's row of the users table
    tries,      \* table verification_attempts, by kind; 0 where there is no row
    rowLock,    \* the request that has written the row of users, or None
    tryLock,    \* by kind, the request that has written the row of tries, or None
    request,
    cuts,
    mailed,     \* history: the codes that were mailed, and where
    astray,     \* history: codes mailed elsewhere than to the pending address
    issuedAt,   \* history: when each committed code was issued
    guessed,    \* history: by request, the code in use that its guess is compared with
    beside,     \* history: the most checks of a code under way as one more was let in
    proof,      \* history: the code that the current address was confirmed with
    regained,   \* history: codes given their tries back, yet not replaced
    uncounted   \* history: resends lost to the count, written over by others

locks == <<rowLock, tryLock>>
histories == <<mailed, astray, issuedAt, guessed, beside, proof, regained, uncounted>>
codesVars == <<now, user, tries, locks, request, cuts, histories>>

Absent == [code |-> None, at |-> 0]

New == [step |-> "new", what |-> "none", kind |-> "reset", to |-> None, moves |-> FALSE,
        guess |-> None, seen |-> None, draft |-> None]

\* Just registered, or verified long ago.
Init ==
    /\ now = 0
    /\ \E verified \in BOOLEAN :
          user = [email |-> Home, verified |-> verified, pending |-> None,
                  code |-> [k \in Kinds |->
                      IF k = "verification" /\ ~verified THEN [code |-> Opening, at |-> 0]
                                                         ELSE Absent],
                  sent |-> IF verified THEN None ELSE 0,
                  resends |-> IF verified THEN 0 ELSE 1]
    /\ tries = [k \in Kinds |-> 0]
    /\ rowLock = None
    /\ tryLock = [k \in Kinds |-> None]
    /\ request = [r \in Requests |-> New]
    /\ cuts = 0
    /\ mailed = {<<Opening, Home>>} /\ astray = {}
    /\ issuedAt = [c \in Codes |-> IF c = Opening /\ ~user.verified THEN 0 ELSE None]
    /\ guessed = [r \in Requests |-> None] /\ beside = 0
    /\ proof = Opening
    /\ regained = {}
    /\ uncounted = 0

-----------------------------------------------------------------------------
(* Locks and transactions.                                                 *)

Free(lock, r) == lock \in {None, r}

Unlock(r) ==
    /\ rowLock' = IF rowLock = r THEN None ELSE rowLock
    /\ tryLock' = [k \in Kinds |-> IF tryLock[k] = r THEN None ELSE tryLock[k]]

End(r) == request' = [request EXCEPT ![r] = [New EXCEPT !.step = "done"]]

-----------------------------------------------------------------------------
(* What a request asks, and what it reads when it starts.                  *)

Start(r, what, kind, to, moves, guess) ==
    /\ request[r].step = "new"
    /\ request' = [request EXCEPT ![r] =
          [@ EXCEPT !.step = "read", !.what = what, !.kind = kind, !.to = to,
                    !.moves = moves, !.guess = guess, !.seen = user]]
    /\ UNCHANGED <<now, user, tries, locks, cuts, histories>>

RecentlySent(row, t) == row.sent # None /\ row.sent > t - Hour

\* Mutation of MayResend: one code too many.
MayResendOnceMore(row) == ~(RecentlySent(row, now) /\ row.resends > MaxResends)

\* _check_resend_rate_limit
MayResend(row) == ~(RecentlySent(row, now) /\ row.resends >= MaxResends)

\* The requests that issue a code: to the address of the account, to the one it
\* asks for, or to the one it asked for before.
Issue(r) ==
    /\ MayResend(user)
    /\ \/ ~user.verified /\ Start(r, "issue", "verification", user.email, FALSE, None)
       \/ Start(r, "issue", "reset", user.email, FALSE, None)
       \/ /\ user.verified
          /\ \E to \in Addresses \ {user.email} :
                Start(r, "issue", "email_change", to, TRUE, None)
       \/ /\ user.verified /\ user.pending # None
          /\ Start(r, "issue", "email_change", user.pending, FALSE, None)

\* The requests that present one: anything that was mailed, or something else.
Present(r) ==
    \E guess \in {sent[1] : sent \in mailed} \cup {Wrong} :
        \/ ~user.verified /\ Start(r, "check", "verification", None, FALSE, guess)
        \/ /\ user.code["reset"].code # None
           /\ Start(r, "check", "reset", None, FALSE, guess)
        \/ /\ user.verified /\ user.pending # None
           /\ user.code["email_change"].code # None
           /\ Start(r, "check", "email_change", user.pending, FALSE, guess)

-----------------------------------------------------------------------------
(* Issuing: the row of users, then the tries, then the mail, then commit.  *)

\* _compute_resend_count
Counted(row, t) == IF RecentlySent(row, t) THEN row.resends + 1 ELSE 1

\* Only the columns it sets: the rest of the row is as committed last.
Renewed(r, row) ==
    [row EXCEPT !.code[request[r].kind] = [code |-> r, at |-> now],
                !.sent = now,
                !.resends = Counted(request[r].seen, now)]

\* A reset is written where the address still is the one that was read; a row
\* that is not there is not an error, nor is it locked.
StillThere(r) == request[r].kind = "reset" => user.email = request[r].seen.email

Write(r) ==
    LET q == request[r]
    IN  /\ q.step = "read" /\ q.what = "issue"
        /\ \/ /\ StillThere(r)
              /\ Free(rowLock, r)
              /\ rowLock' = r
              /\ request' = [request EXCEPT ![r].step = "written", ![r].draft = Renewed(r, user)]
           \/ /\ ~StillThere(r)
              /\ UNCHANGED rowLock
              /\ request' = [request EXCEPT ![r].step = "written"]
        /\ UNCHANGED <<now, user, tries, tryLock, cuts, histories>>

\* The kinds whose tries a request that issues or confirms a code forgives.
\* Mutation of Forgiven: those of every kind.
ForgivenAll(kind) == Kinds
Forgiven(kind) == {kind}

\* DELETE: a row that is not there (or not committed yet) is not waited for.
Reachable(r, k) == tries[k] = 0 \/ Free(tryLock[k], r)

Clear(r) ==
    LET q == request[r]
    IN  /\ q.step = "written"
        /\ \A k \in Forgiven(q.kind) : Reachable(r, k)
        /\ tryLock' = [k \in Kinds |-> IF k \in Forgiven(q.kind) /\ tries[k] # 0 THEN r
                                                                          ELSE tryLock[k]]
        /\ request' = [request EXCEPT ![r].step = "cleared"]
        /\ UNCHANGED <<now, user, tries, rowLock, cuts, histories>>

\* Mutation of Mail: a mail that does not leave is not an error.
MailOrNot(r) ==
    LET q == request[r]
    IN  /\ q.step = "cleared"
        /\ mailed' = mailed \/ mailed' = mailed \cup {<<r, q.to>>}
        /\ request' = [request EXCEPT ![r].step = "mailed",
              ![r].draft = IF q.moves THEN [@ EXCEPT !.pending = q.to] ELSE @]
        /\ UNCHANGED <<now, user, tries, locks, cuts, astray, issuedAt, guessed, beside, proof,
                       regained, uncounted>>

\* Mutation of Mail: to the address of the account, whatever is asked.
MailHome(r) ==
    LET q == request[r]
    IN  /\ q.step = "cleared"
        /\ mailed' = mailed \cup {<<r, user.email>>}
        /\ request' = [request EXCEPT ![r].step = "mailed",
              ![r].draft = IF q.moves THEN [@ EXCEPT !.pending = q.to] ELSE @]
        /\ UNCHANGED <<now, user, tries, locks, cuts, astray, issuedAt, guessed, beside, proof,
                       regained, uncounted>>

Mail(r) ==
    LET q == request[r]
    IN  /\ q.step = "cleared"
        /\ mailed' = mailed \cup {<<r, q.to>>}
        /\ request' = [request EXCEPT ![r].step = "mailed",
              ![r].draft = IF q.moves THEN [@ EXCEPT !.pending = q.to] ELSE @]
        /\ UNCHANGED <<now, user, tries, locks, cuts, astray, issuedAt, guessed, beside, proof,
                       regained, uncounted>>

Excess(a, b) == IF a > b THEN a - b ELSE 0

CommitIssue(r) ==
    LET q == request[r]
    IN  /\ q.step = "mailed"
        /\ IF q.draft = None
           THEN /\ regained' = regained \cup {user.code[q.kind].code}
                /\ UNCHANGED <<user, astray, issuedAt, uncounted>>
           ELSE /\ user' = q.draft
                /\ UNCHANGED regained
                /\ issuedAt' = [issuedAt EXCEPT ![r] = q.draft.sent]
                /\ uncounted' = uncounted + Excess(Counted(user, q.draft.sent), q.draft.resends)
                /\ astray' = IF q.kind = "email_change" /\ q.draft.pending # q.to
                             THEN astray \cup {r} ELSE astray
        /\ tries' = [k \in Kinds |-> IF tryLock[k] = r THEN 0 ELSE tries[k]]
        /\ Unlock(r) /\ End(r)
        /\ UNCHANGED <<now, cuts, mailed, guessed, beside, proof>>

-----------------------------------------------------------------------------
(* Checking: the tries are read, then counted, then the code is compared.  *)

\* The checks of a code that are let in and have not ended.
UnderWay(c) == {r \in Requests : guessed[r] = c /\ request[r].step \in {"looked", "counted"}}

Look(r) ==
    LET q == request[r]
        c == q.seen.code[q.kind].code
        n == Cardinality(UnderWay(c))
    IN  /\ q.step = "read" /\ q.what = "check"
        /\ tries[q.kind] < MaxAttempts
        /\ request' = [request EXCEPT ![r].step = "looked"]
        /\ IF c # None /\ user.code[q.kind].code = c
           THEN /\ guessed' = [guessed EXCEPT ![r] = c]
                /\ beside' = IF n > beside THEN n ELSE beside
           ELSE UNCHANGED <<guessed, beside>>
        /\ UNCHANGED <<now, user, tries, locks, cuts, mailed, astray, issuedAt, proof,
                       regained, uncounted>>

\* TooManyVerificationAttempts
Exhausted(r) ==
    LET q == request[r]
    IN  /\ q.step = "read" /\ q.what = "check"
        /\ tries[q.kind] >= MaxAttempts
        /\ End(r)
        /\ UNCHANGED <<now, user, tries, locks, cuts, histories>>

\* INSERT ... ON CONFLICT DO UPDATE: waits for the row, and adds to what it holds.
Count(r) ==
    LET q == request[r]
    IN  /\ q.step = "looked"
        /\ tryLock[q.kind] = None
        /\ tryLock' = [tryLock EXCEPT ![q.kind] = r]
        /\ request' = [request EXCEPT ![r].step = "counted"]
        /\ UNCHANGED <<now, user, tries, rowLock, cuts, histories>>

Accepts(r) ==
    LET known == request[r].seen.code[request[r].kind]
    IN  known.code # None /\ known.at + CodeLife >= now /\ request[r].guess = known.code

\* Mutation of Spent: a refusal is rolled back, and costs nothing.
SpentNothing(k) == tries[k]

\* The tries as the transaction of a refusal commits them.
Spent(k) == tries[k] + 1

\* The code expired or is another, the address was taken meanwhile, the new
\* password is the old one: the refusal commits the try.
Refuse(r) ==
    LET q == request[r]
    IN  /\ q.step = "counted"
        /\ Accepts(r) => q.kind # "verification"
        /\ tries' = [tries EXCEPT ![q.kind] = Spent(q.kind)]
        /\ Unlock(r) /\ End(r)
        /\ UNCHANGED <<now, user, cuts, histories>>

Confirmed(r, row) ==
    LET q == request[r]
        bare == [row EXCEPT !.code[q.kind] = Absent]
    IN  CASE q.kind = "verification" -> [bare EXCEPT !.verified = TRUE]
          [] q.kind = "reset"        -> bare
          [] q.kind = "email_change" -> [bare EXCEPT !.email = q.to, !.pending = None]

\* The row of users, the tries and the commit; it holds the tries already.
Accept(r) ==
    LET q == request[r]
    IN  /\ q.step = "counted"
        /\ Accepts(r)
        /\ Free(rowLock, r)
        /\ user' = Confirmed(r, user)
        /\ tries' = [tries EXCEPT ![q.kind] = 0]
        /\ proof' = IF q.kind = "email_change" THEN q.guess ELSE proof
        /\ Unlock(r) /\ End(r)
        /\ UNCHANGED <<now, cuts, mailed, astray, issuedAt, guessed, beside, regained, uncounted>>

-----------------------------------------------------------------------------
(* What goes wrong.                                                        *)

Rollback(r) ==
    /\ Unlock(r) /\ End(r)
    /\ guessed' = [guessed EXCEPT ![r] = None]
    /\ UNCHANGED <<now, user, tries, mailed, astray, issuedAt, beside, proof, regained, uncounted>>

\* The mail does not leave, the commit fails, the process is killed.
Cut(r) ==
    /\ request[r].step \in {"written", "cleared", "mailed", "looked", "counted"}
    /\ cuts < MaxCuts
    /\ cuts' = cuts + 1
    /\ Rollback(r)

\* The locks a request cannot go on without.
WaitsFor(r, s) ==
    LET q == request[r]
    IN  /\ r # s
        /\ \/ q.step = "read" /\ q.what = "issue" /\ StillThere(r) /\ rowLock = s
           \/ q.step = "counted" /\ Accepts(r) /\ rowLock = s
           \/ q.step = "looked" /\ tryLock[q.kind] = s
           \/ /\ q.step = "written"
              /\ \E k \in Forgiven(q.kind) : tryLock[k] = s /\ ~Reachable(r, k)

Locked(r, s) == WaitsFor(r, s) /\ WaitsFor(s, r)

\* deadlock_timeout: PostgreSQL cancels one of them.
Deadlock(r) ==
    /\ \E s \in Requests : Locked(r, s)
    /\ UNCHANGED cuts
    /\ Rollback(r)

Tick ==
    /\ now < LastTick
    /\ now' = now + 1
    /\ UNCHANGED <<user, tries, locks, request, cuts, histories>>

Next ==
    \/ \E r \in Requests :
          \/ Issue(r) \/ Write(r) \/ Clear(r) \/ Mail(r) \/ CommitIssue(r)
          \/ Present(r) \/ Look(r) \/ Exhausted(r) \/ Count(r) \/ Refuse(r) \/ Accept(r)
          \/ Cut(r) \/ Deadlock(r)
    \/ Tick

Spec == Init /\ [][Next]_codesVars
-----------------------------------------------------------------------------
Request ==
    [step : {"new", "read", "written", "cleared", "mailed", "looked", "counted", "done"},
     what : {"none", "issue", "check"}, kind : Kinds, to : Addresses \cup {None},
     moves : BOOLEAN, guess : Codes \cup {Wrong, None}, seen : User \cup {None},
     draft : User \cup {None}]

TypeOK ==
    /\ now \in Nat
    /\ user \in User
    /\ tries \in [Kinds -> Nat]
    /\ rowLock \in Requests \cup {None}
    /\ tryLock \in [Kinds -> Requests \cup {None}]
    /\ request \in [Requests -> Request]
    /\ cuts \in Nat
    /\ mailed \subseteq Codes \X Addresses
    /\ astray \subseteq Codes
    /\ issuedAt \in [Codes -> Nat \cup {None}]
    /\ guessed \in [Requests -> Codes \cup {None}]
    /\ beside \in Nat
    /\ proof \in Codes
    /\ regained \subseteq Codes \cup {None}
    /\ uncounted \in Nat

\* "The address only moves on confirm-email-change" (README, Email change): it is
\* the one the code was mailed to, whatever requests of other addresses come in
\* between.  The exception is named: a resend that read the pending address
\* before another request replaced it mails its code to the former one.
AddressIsProved ==
    <<proof, user.email>> \in mailed \/ proof \in astray

\* A code is compared with at most MaxAttempts guesses, new codes, other kinds and
\* refusals notwithstanding, and with as many more as checks of it were under way
\* at once when one was let in: the count is read before it is locked, so that
\* every overlapping check may pass on the same reading.  The exceptions are
\* named: a check that is rolled back costs nothing, one that is let in when its
\* code was replaced already is not a guess at the code in use, and a reset that
\* was asked for before the address changed is written nowhere, and gives its
\* tries back to the code that is still there.
TriesAreSpent ==
    \A c \in Codes \ regained :
        Cardinality({r \in Requests : guessed[r] = c}) <= MaxAttempts + beside

\* "Resending is capped at 5 per hour per account" (README, One-time codes), all
\* kinds together, in any hour, but for what overlapping requests write over.
ResendsAreCapped ==
    \A t \in 0 .. now :
        Cardinality({c \in Codes : issuedAt[c] # None /\ issuedAt[c] \in t - Hour + 1 .. t})
            <= MaxResends + uncounted

\* A code that can be used is one that left, for the address it stands for: a mail
\* that fails never puts the code the owner holds out of use.  The exception is
\* that of AddressIsProved: a resend that read the pending address before another
\* request replaced it (astray) stands for an address it was not mailed to.
StoredCodeWasMailed ==
    \A k \in Kinds :
        LET c == user.code[k].code
        IN  c # None =>
              /\ \E a \in Addresses : <<c, a>> \in mailed
              /\ k = "verification" /\ ~user.verified => <<c, user.email>> \in mailed
              /\ k = "email_change" /\ user.pending # None =>
                     <<c, user.pending>> \in mailed \/ c \in astray

\* Issuing takes the account then the tries, confirming the tries then the
\* account: PostgreSQL may have to cancel one of the two, when they are of one
\* kind and the code is the right one.  Nothing else ever waits in a circle.
DeadlocksAreOfAKind ==
    \A r, s \in Requests :
        Locked(r, s) => /\ request[r].kind = request[s].kind
                        /\ {request[r].what, request[s].what} = {"issue", "check"}
=============================================================================
