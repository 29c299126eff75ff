------------------------------ MODULE Sessions ------------------------------
(***************************************************************************)
(* The sessions of the accounts: the refresh tokens that the ways in       *)
(* (login, verification of the address, Google) hand out, that a refresh   *)
(* rotates and that a logout, a new password or a replay revokes.          *)
(*                                                                         *)
(* A request that hands out a token reads the account, and the token it    *)
(* presents, long before it writes: argon2 or an exchange with Google lies *)
(* between. It is two steps here, Begin and Finish, and other transactions *)
(* commit between them. So is the choice of a first password, which looks  *)
(* at the one there is, hashes, and writes without looking again. The      *)
(* other requests are one step, when they write. For a new password and    *)
(* the end of an account that leaves something out: both check a password  *)
(* or a code first, and what becomes of the account after that check and   *)
(* before the write (disabled, another password) would not stop them.      *)
(***************************************************************************)
EXTENDS Integers

CONSTANTS
    Accounts,
    Tokens,        \* refresh tokens that may be handed out (bound)
    Requests,      \* requests served at the same time, at most
    Lifetime,      \* REFRESH_TOKEN_EXPIRE_DAYS: 30
    Grace,         \* PURGE_GRACE_DAYS: 7
    LastDay,       \* bound: the last day
    MaxPasswords,  \* bound: passwords chosen by an account
    None

\* What a token says of itself: whose it is, the first token of its session, the
\* password it was opened under and its expiry.
Claims == [owner : Accounts, family : Tokens, era : 1 .. MaxPasswords, expires : Int]

\* A row of refresh_tokens.
Token == [owner : Accounts, revoked : BOOLEAN, expires : Int]

ASSUME SessionAssumption ==
    /\ Lifetime \in Nat /\ Grace \in Nat /\ LastDay \in Nat
    /\ MaxPasswords \in Nat \ {0}
    /\ None \notin Tokens /\ None \notin Claims /\ None \notin Token

VARIABLES
    day,
    user,        \* table users, of each account
    tokens,      \* table refresh_tokens, by token_hash
    request,     \* what each request has read
    issued,      \* history: the tokens handed out, and the claims they carry
    chosen,      \* history: the last password its owner chose, counted from 1
    overlapped,  \* history: requests that something else overtook since they read
    late,        \* history: tokens handed out by such a request, or rotated from one
    ended,       \* history: sessions that were ended, by their first token
    undone       \* history: accounts whose new password was written over by a
                 \* request that had begun before it

histories == <<issued, chosen, overlapped, late, ended, undone>>
vars == <<day, user, tokens, request, histories>>

NoPassword == 0

Account(stage) ==
    [stage |-> stage, verified |-> FALSE, active |-> TRUE, linked |-> FALSE,
     password |-> NoPassword, weak |-> FALSE]

Absent == Account("absent")
Gone == Account("gone")

\* Mutation of NewUser: an account waits in a stage of its own to be verified.
NewUserPending == Account("pending")
NewUser == Account("open")

Nothing ==
    [kind |-> "none", account |-> None, parent |-> None, writes |-> NoPassword, era |-> 0]

Init ==
    /\ day = 0
    /\ user = [a \in Accounts |-> Absent]
    /\ tokens = [t \in Tokens |-> None]
    /\ request = [r \in Requests |-> Nothing]
    /\ issued = [t \in Tokens |-> None]
    /\ chosen = [a \in Accounts |-> 1]
    /\ overlapped = {} /\ late = {} /\ ended = {} /\ undone = {}

-----------------------------------------------------------------------------
Open(a) == user[a].stage = "open"
IsLive(t) == tokens[t] # None /\ ~tokens[t].revoked
UnderWay(a) == {r \in Requests : request[r].account = a}
Presenting(t) == {r \in Requests : request[r].parent = t}

Overtake(requests) ==
    overlapped' = overlapped \cup {r \in requests : request[r] # Nothing}

Revoke(which) ==
    [t \in Tokens |-> IF t \in which /\ IsLive(t)
                      THEN [tokens[t] EXCEPT !.revoked = TRUE] ELSE tokens[t]]

TokensOf(a) == {t \in Tokens : tokens[t] # None /\ tokens[t].owner = a}

\* The good tokens among which are revoked; the requests have read them.
Cut(which, requests) ==
    /\ tokens' = Revoke(which)
    /\ ended' = ended \cup {issued[t].family : t \in {s \in which \ late : IsLive(s)}}
    /\ Overtake(requests)

CutAll(a) == Cut(TokensOf(a), UNION {Presenting(t) : t \in TokensOf(a)})

-----------------------------------------------------------------------------
(* The ways in: what is read.                                              *)

Begin(r, a, kind, parent, writes, era) ==
    /\ request[r] = Nothing
    /\ request' = [request EXCEPT ![r] =
          [kind |-> kind, account |-> a, parent |-> parent, writes |-> writes, era |-> era]]
    /\ UNCHANGED <<day, user, tokens, histories>>

\* The password is the right one and the account is not locked out.
BeginLogin(r, a) ==
    /\ Open(a) /\ user[a].password # NoPassword
    /\ user[a].active /\ user[a].verified
    /\ LET writes == IF user[a].weak THEN user[a].password ELSE NoPassword
       IN  Begin(r, a, "login", None, writes, chosen[a])

BeginVerify(r, a) ==
    /\ Open(a) /\ user[a].active /\ ~user[a].verified
    /\ Begin(r, a, "verify", None, NoPassword, chosen[a])

\* _link_or_create: the identity is known, its address is, or neither is.
BeginGoogle(r, a) ==
    \/ /\ Open(a) /\ user[a].active /\ user[a].linked
       /\ Begin(r, a, "google", None, NoPassword, chosen[a])
    \/ /\ Open(a) /\ user[a].active /\ ~user[a].linked
       /\ Begin(r, a, "link", None, NoPassword, chosen[a])
    \/ /\ user[a].stage = "absent"
       /\ Begin(r, a, "create", None, NoPassword, chosen[a])

\* Mutation of BeginRefresh: the account is not looked at.
BeginRefreshBlindly(r, t) ==
    /\ IsLive(t)
    /\ day <= tokens[t].expires
    /\ Begin(r, tokens[t].owner, "refresh", t, NoPassword, issued[t].era)

BeginRefresh(r, t) ==
    /\ IsLive(t)
    /\ day <= tokens[t].expires
    /\ user[tokens[t].owner].active
    /\ Begin(r, tokens[t].owner, "refresh", t, NoPassword, issued[t].era)

-----------------------------------------------------------------------------
(* The ways in: what is written.                                           *)

\* A password written by a request that had begun before the last one was chosen.
WriteOver(r) ==
    LET q == request[r]
    IN  undone' = undone \cup
            {a \in {q.account} : q.writes # NoPassword /\ q.era # chosen[a]}

\* issue_tokens: table is what the request itself makes of refresh_tokens.
\* The foreign key asks for the account.
Issue(r, t, table, rivals) ==
    LET q == request[r]
        family == IF q.parent = None THEN t ELSE issued[q.parent].family
    IN  /\ issued[t] = None
        /\ tokens' = [table EXCEPT ![t] =
              [owner |-> q.account, revoked |-> FALSE, expires |-> day + Lifetime]]
        /\ issued' = [issued EXCEPT ![t] =
              [owner |-> q.account, family |-> family, era |-> q.era,
               expires |-> day + Lifetime]]
        /\ request' = [request EXCEPT ![r] = Nothing]
        /\ overlapped' = (overlapped \cup rivals) \ {r}
        /\ late' = IF r \in overlapped \/ q.parent \in late THEN late \cup {t} ELSE late
        /\ WriteOver(r)
        /\ UNCHANGED <<day, chosen, ended>>

\* needs_rehash: the password that was typed is hashed again, and written over
\* whatever the account's has become.
FinishLogin(r, t) ==
    LET q == request[r]
    IN  /\ q.kind = "login" /\ Open(q.account)
        /\ user' = IF q.writes = NoPassword THEN user
                   ELSE [user EXCEPT ![q.account].password = q.writes,
                                     ![q.account].weak = FALSE]
        /\ Issue(r, t, tokens, {})

FinishVerify(r, t) ==
    LET q == request[r]
    IN  /\ q.kind = "verify" /\ Open(q.account)
        /\ user' = [user EXCEPT ![q.account].verified = TRUE]
        /\ Issue(r, t, tokens, {})

\* Mutation of FinishLink: the address is not verified by the link.
FinishLinkOnly(r, t) ==
    LET q == request[r]
    IN  /\ q.kind = "link" /\ Open(q.account)
        /\ user' = [user EXCEPT ![q.account].linked = TRUE]
        /\ Issue(r, t, tokens, {})

FinishLink(r, t) ==
    LET q == request[r]
    IN  /\ q.kind = "link" /\ Open(q.account)
        /\ user' = [user EXCEPT ![q.account].linked = TRUE, ![q.account].verified = TRUE]
        /\ Issue(r, t, tokens, {})

FinishCreate(r, t) ==
    LET q == request[r]
    IN  /\ q.kind = "create" /\ user[q.account].stage = "absent"
        /\ user' = [user EXCEPT ![q.account] =
                      [NewUser EXCEPT !.verified = TRUE, !.linked = TRUE]]
        /\ Issue(r, t, tokens, {})

FinishGoogle(r, t) ==
    /\ request[r].kind = "google" /\ Open(request[r].account)
    /\ UNCHANGED user
    /\ Issue(r, t, tokens, {})

\* Mutation of FinishRefresh: the token presented stays good.
FinishRefreshKeeping(r, t) ==
    /\ request[r].kind = "refresh" /\ Open(request[r].account)
    /\ UNCHANGED user
    /\ Issue(r, t, tokens, Presenting(request[r].parent))

\* The rotation. Nobody looks at how many rows the revocation found.
FinishRefresh(r, t) ==
    /\ request[r].kind = "refresh" /\ Open(request[r].account)
    /\ UNCHANGED user
    /\ Issue(r, t, Revoke({request[r].parent}), Presenting(request[r].parent))

\* The request fails, or its process dies: its transaction rolls back.
Abandon(r) ==
    /\ request[r] # Nothing
    /\ request' = [request EXCEPT ![r] = Nothing]
    /\ overlapped' = overlapped \ {r}
    /\ UNCHANGED <<day, user, tokens, issued, chosen, late, ended, undone>>

-----------------------------------------------------------------------------
(* The ways out.                                                           *)

\* A token that was revoked is presented again: every session of its account
\* ends, and get_session commits that although the request is refused.
Replay(t) ==
    /\ tokens[t] # None /\ tokens[t].revoked
    /\ day <= issued[t].expires
    /\ CutAll(tokens[t].owner)
    /\ UNCHANGED <<day, user, request, issued, chosen, late, undone>>

\* A good token of a disabled account.
RefreshDisabled(t) ==
    /\ IsLive(t) /\ day <= tokens[t].expires
    /\ ~user[tokens[t].owner].active
    /\ CutAll(tokens[t].owner)
    /\ UNCHANGED <<day, user, request, issued, chosen, late, undone>>

Logout(t) ==
    /\ Cut({t}, Presenting(t))
    /\ UNCHANGED <<day, user, request, issued, chosen, late, undone>>

\* Mutations of ReplacePassword: the sessions stay; the password is not saved.
ReplacePasswordOnly(a) ==
    /\ Open(a) /\ user[a].active /\ user[a].password # NoPassword
    /\ chosen[a] < MaxPasswords
    /\ chosen' = [chosen EXCEPT ![a] = @ + 1]
    /\ user' = [user EXCEPT ![a].password = chosen[a] + 1, ![a].weak = FALSE]
    /\ undone' = undone \ {a}
    /\ Overtake(UnderWay(a))
    /\ UNCHANGED <<day, tokens, request, issued, late, ended>>

ReplacePasswordUnsaved(a) ==
    /\ Open(a) /\ user[a].active /\ user[a].password # NoPassword
    /\ chosen[a] < MaxPasswords
    /\ chosen' = [chosen EXCEPT ![a] = @ + 1]
    /\ undone' = undone \ {a}
    /\ Cut(TokensOf(a), UnderWay(a))
    /\ UNCHANGED <<day, user, request, issued, late>>

\* change_password and reset_password. What was written over is replaced as well.
ReplacePassword(a) ==
    /\ Open(a) /\ user[a].active /\ user[a].password # NoPassword
    /\ chosen[a] < MaxPasswords
    /\ chosen' = [chosen EXCEPT ![a] = @ + 1]
    /\ user' = [user EXCEPT ![a].password = chosen[a] + 1, ![a].weak = FALSE]
    /\ undone' = undone \ {a}
    /\ Cut(TokensOf(a), UnderWay(a))
    /\ UNCHANGED <<day, request, issued, late>>

-----------------------------------------------------------------------------
(* The accounts.                                                           *)

Register(a) ==
    /\ user[a].stage = "absent"
    /\ user' = [user EXCEPT ![a] = [NewUser EXCEPT !.password = chosen[a]]]
    /\ UNCHANGED <<day, tokens, request, histories>>

\* The account of a Google user gets its first password: nobody looks again, at the
\* end, at the password there is, and no session ends. (Two first passwords that
\* overlap count as one here.)
BeginSetPassword(r, a) ==
    /\ Open(a) /\ user[a].active /\ user[a].password = NoPassword
    /\ Begin(r, a, "set", None, chosen[a], chosen[a])

FinishSetPassword(r) ==
    LET q == request[r]
    IN  /\ q.kind = "set" /\ Open(q.account)
        /\ user' = [user EXCEPT ![q.account].password = q.writes,
                                ![q.account].weak = FALSE]
        /\ request' = [request EXCEPT ![r] = Nothing]
        /\ overlapped' = overlapped \ {r}
        /\ WriteOver(r)
        /\ UNCHANGED <<day, tokens, issued, chosen, late, ended>>

\* is_active is written by an administrator, outside this program.
Enable(a) ==
    /\ Open(a) /\ ~user[a].active
    /\ user' = [user EXCEPT ![a].active = TRUE]
    /\ UNCHANGED <<day, tokens, request, histories>>

Disable(a) ==
    /\ Open(a) /\ user[a].active
    /\ user' = [user EXCEPT ![a].active = FALSE]
    /\ Overtake(UnderWay(a))
    /\ UNCHANGED <<day, tokens, request, issued, chosen, late, ended, undone>>

\* The tokens go with their account.
DeleteAccount(a) ==
    /\ Open(a) /\ user[a].active
    /\ user' = [user EXCEPT ![a] = Gone]
    /\ tokens' = [t \in Tokens |-> IF t \in TokensOf(a) THEN None ELSE tokens[t]]
    /\ UNCHANGED <<day, request, histories>>

\* Mutation of Purgeable: a revoked token is of no use any more.
PurgeableOrRevoked(t) ==
    tokens[t] # None /\ (tokens[t].revoked \/ tokens[t].expires < day - Grace)

Purgeable(t) == tokens[t] # None /\ tokens[t].expires < day - Grace

\* scripts/purge_refresh_tokens.py
Purge ==
    /\ tokens' = [t \in Tokens |-> IF Purgeable(t) THEN None ELSE tokens[t]]
    /\ UNCHANGED <<day, user, request, histories>>

\* A release may come with the night, with other parameters of argon2: the
\* hashes made before are weak.
Midnight ==
    /\ day < LastDay
    /\ day' = day + 1
    /\ \/ UNCHANGED user
       \/ user' = [a \in Accounts |->
             [user[a] EXCEPT !.weak = user[a].password # NoPassword]]
    /\ UNCHANGED <<tokens, request, histories>>

Finish(r, t) ==
    \/ FinishLogin(r, t) \/ FinishVerify(r, t) \/ FinishLink(r, t)
    \/ FinishCreate(r, t) \/ FinishGoogle(r, t) \/ FinishRefresh(r, t)

Next ==
    \/ \E r \in Requests :
          \/ \E a \in Accounts : \/ BeginLogin(r, a) \/ BeginVerify(r, a)
                                \/ BeginGoogle(r, a) \/ BeginSetPassword(r, a)
          \/ \E t \in Tokens : BeginRefresh(r, t) \/ Finish(r, t)
          \/ FinishSetPassword(r) \/ Abandon(r)
    \/ \E t \in Tokens : Replay(t) \/ RefreshDisabled(t) \/ Logout(t)
    \/ \E a \in Accounts :
          \/ ReplacePassword(a) \/ Register(a) \/ DeleteAccount(a)
          \/ Enable(a) \/ Disable(a)
    \/ Purge
    \/ Midnight

Spec == Init /\ [][Next]_vars

-----------------------------------------------------------------------------
User ==
    [stage : {"absent", "open", "gone"}, verified : BOOLEAN, active : BOOLEAN,
     linked : BOOLEAN, password : 0 .. MaxPasswords, weak : BOOLEAN]

Kinds == {"login", "verify", "google", "link", "create", "refresh", "set"}

Request ==
    [kind : Kinds, account : Accounts, parent : Tokens \cup {None},
     writes : 0 .. MaxPasswords, era : 1 .. MaxPasswords]

TypeOK ==
    /\ day \in 0 .. LastDay
    /\ user \in [Accounts -> User]
    /\ tokens \in [Tokens -> Token \cup {None}]
    /\ request \in [Requests -> Request \cup {Nothing}]
    /\ issued \in [Tokens -> Claims \cup {None}]
    /\ chosen \in [Accounts -> 1 .. MaxPasswords]
    /\ overlapped \subseteq Requests
    /\ late \subseteq Tokens
    /\ ended \subseteq Tokens
    /\ undone \subseteq Accounts

\* A session is one thread: of the tokens rotated from one way in, a single one
\* is good, unless two requests presented the same one at the same time.
OneThread ==
    \A s, t \in Tokens \ late :
        IsLive(s) /\ IsLive(t) /\ issued[s].family = issued[t].family => s = t

\* A session that is over stays over: a logout ends it, a replay and a new
\* password "revoke every session" (tests/integration/test_password.py) and
\* those opened under the former password; but for what a request that was
\* under way at that moment handed out.
EndedForGood ==
    \A t \in Tokens \ late : IsLive(t) =>
        /\ issued[t].family \notin ended
        /\ issued[t].era = chosen[issued[t].owner]

\* The password that was chosen last is the one that opens the account, unless it
\* was written over by a request that had begun before it was chosen: a login that
\* hashed the former one again, or a first password. The next new password mends
\* that.
LastPasswordHolds ==
    \A a \in Accounts \ undone : user[a].password \in {NoPassword, chosen[a]}

\* "Verification is enforced where tokens are issued": whatever the way in, who
\* holds a session has a verified address (README, Authentication).
OnlyVerified ==
    \A t \in Tokens : IsLive(t) => user[tokens[t].owner].verified

\* "The detection of replays depends on it" (scripts/purge_refresh_tokens.py): as
\* long as a token can be presented, and its account is there, its row is there.
ReplayIsRecognised ==
    \A t \in Tokens :
        issued[t] # None /\ day <= issued[t].expires /\ Open(issued[t].owner) =>
            tokens[t] # None

\* A disabled account gets no new session, unless it was disabled during the
\* request.
DisabledGetsNothing ==
    [][\A t \in Tokens \ late' :
          issued[t] = None /\ issued'[t] # None => user'[issued'[t].owner].active]_vars
=============================================================================
