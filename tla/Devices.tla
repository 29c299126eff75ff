------------------------------- MODULE Devices -------------------------------
(***************************************************************************)
(* The devices that receive push notifications: table push_subscriptions   *)
(* and what reads and writes it, the requests of api/v1/client/push.py and *)
(* the push channel of the daily job (_deliver_push of reminder_service).  *)
(*                                                                         *)
(* A subscription takes the time, then writes its row (which moves it from *)
(* another account if need be), then chooses what to prune among what it   *)
(* sees, its own row and what others have committed, then waits for those  *)
(* rows and commits.  The job posts to the devices that it listed, forgets *)
(* those that are gone and commits with the stamp of the batch.            *)
(***************************************************************************)
EXTENDS Integers, FiniteSets

CONSTANTS
    Requests,    \* each served once; its name stands for the id of a row it inserts
    Owners,      \* accounts
    Endpoints,
    Limit,       \* MAX_PUSH_SUBSCRIPTIONS_PER_USER: 10
    MaxCalls,    \* bound: requests, in all
    MaxFaults,   \* bound: posts that fail, requests and jobs that are cut
    Job,         \* the daily job, as the holder of a lock
    None

DevicesConstants ==
    /\ IsFiniteSet(Requests) /\ IsFiniteSet(Endpoints)
    /\ Limit \in Nat \ {0} /\ MaxCalls \in Nat /\ MaxFaults \in Nat
    /\ Requests \cap Endpoints = {}
    /\ Job \notin Requests /\ None \notin Requests \cup Owners \cup {Job}
    /\ None \notin [id : Requests \cup Endpoints, owner : Owners, seen : Nat]

VARIABLES
    tick,       \* the time: no two subscriptions have the same microsecond
    rows,       \* by endpoint (it is unique), the committed row or None
    locked,     \* by endpoint, the transaction that has written the row, or None
    call,       \* what each request does
    job,        \* the batch of the job, and what it has not committed yet
    dead,       \* endpoints the push service no longer knows
    stamped,    \* accounts whose batch was stamped
    faults,
    wanted,     \* history: by endpoint, the last subscription that nothing withdrew
    arrivals,   \* history: committed subscriptions, as <<owner, endpoint, time>>
    crossed,    \* history: endpoints that were written while a prune waited for them
    slack       \* history: by owner, subscriptions that the last prunes did not see

devicesVars ==
    <<tick, rows, locked, call, job, dead, stamped, faults, wanted, arrivals, crossed, slack>>
histories == <<wanted, arrivals, crossed, slack>>

OwnedIn(table, u) == {e \in Endpoints : table[e] # None /\ table[e].owner = u}

\* The rows there may be at first: a device's row has the id it was made with.
Earlier == [id : Endpoints, owner : Owners, seen : 0 .. Limit - 1]

New == [step |-> "new", owner |-> None, endpoint |-> None, at |-> 0, pruned |-> {},
        unseen |-> 0]

NoBatch == [step |-> "idle", owner |-> None, left |-> {}, forgotten |-> {}]

\* The devices subscribed before, those of an account one after the other.
Init ==
    /\ tick = Limit
    /\ rows \in {table \in [Endpoints -> Earlier] :
          /\ \A e, f \in Endpoints :
                e # f /\ table[e].owner = table[f].owner => table[e].seen # table[f].seen
          /\ \A e \in Endpoints : table[e].id = e
          /\ \A u \in Owners : Cardinality(OwnedIn(table, u)) <= Limit}
    /\ locked = [e \in Endpoints |-> None]
    /\ call = [r \in Requests |-> New]
    /\ job = NoBatch
    /\ dead = {} /\ stamped = {} /\ faults = 0
    /\ wanted = [e \in Endpoints |-> [owner |-> rows[e].owner, at |-> rows[e].seen]]
    /\ arrivals = {<<rows[e].owner, e, rows[e].seen>> : e \in Endpoints}
    /\ crossed = {}
    /\ slack = [u \in Owners |-> 0]

-----------------------------------------------------------------------------
Free(e, holder) == locked[e] \in {None, holder}

Unlocked(holder) == [e \in Endpoints |-> IF locked[e] = holder THEN None ELSE locked[e]]

Done(r) == call' = [call EXCEPT ![r] = [New EXCEPT !.step = "done"]]

Fault == faults < MaxFaults /\ faults' = faults + 1

Owned(u) == OwnedIn(rows, u)

\* A request comes in.
Fresh(r) ==
    /\ call[r].step = "new"
    /\ Cardinality({s \in Requests : call[s].step # "new"}) < MaxCalls

-----------------------------------------------------------------------------
(* POST /subscriptions: PushRepository.save.                               *)

Subscribe(r, u, e) ==
    /\ Fresh(r)
    /\ tick' = tick + 1
    /\ call' = [call EXCEPT ![r] = [New EXCEPT !.step = "asked", !.owner = u,
                                               !.endpoint = e, !.at = tick]]
    /\ UNCHANGED <<rows, locked, job, dead, stamped, faults, histories>>

\* INSERT ... ON CONFLICT (endpoint) DO UPDATE: waits for the row.
Upsert(r) ==
    LET e == call[r].endpoint
    IN  /\ call[r].step = "asked"
        /\ Free(e, r)
        /\ locked' = [locked EXCEPT ![e] = r]
        /\ call' = [call EXCEPT ![r].step = "upserted"]
        /\ UNCHANGED <<tick, rows, job, dead, stamped, faults, histories>>

\* The row that the upsert leaves: a device that is known keeps its id.
Row(r) ==
    LET q == call[r]
        known == rows[q.endpoint]
    IN  [id |-> IF known = None THEN r ELSE known.id, owner |-> q.owner, seen |-> q.at]

\* What the transaction sees.
Seen(r) == [rows EXCEPT ![call[r].endpoint] = Row(r)]

\* The account's rows that were seen after another of its rows.
SeenAfter(table, e) == {f \in OwnedIn(table, table[e].owner) : table[f].seen > table[e].seen}

\* Mutation of Kept: the oldest are kept.
KeptOldest(table, u) ==
    {e \in OwnedIn(table, u) :
        Cardinality({f \in OwnedIn(table, u) : table[f].seen < table[e].seen}) < Limit}

\* Mutation of Kept: one too many.
KeptOneMore(table, u) ==
    {e \in OwnedIn(table, u) : Cardinality(SeenAfter(table, e)) <= Limit}

\* The rows that were seen last.
Kept(table, u) ==
    {e \in OwnedIn(table, u) : Cardinality(SeenAfter(table, e)) < Limit}

\* prune, the rows it is to delete.
Choose(r) ==
    LET q == call[r]
        table == Seen(r)
    IN  /\ q.step = "upserted"
        /\ call' = [call EXCEPT ![r].step = "pruning",
              ![r].pruned = {<<e, table[e]>> : e \in OwnedIn(table, q.owner)
                                                     \ Kept(table, q.owner)}]
        /\ UNCHANGED <<tick, rows, locked, job, dead, stamped, faults, histories>>

\* The row is there, under that id, and still is the account's.
StillPruned(r, p) ==
    /\ Seen(r)[p[1]] # None
    /\ Seen(r)[p[1]].id = p[2].id
    /\ Seen(r)[p[1]].owner = call[r].owner

\* The deletions, as soon as nobody holds the rows, and the commit.
CommitSubscription(r) ==
    LET q == call[r]
        victims == {p \in q.pruned : StillPruned(r, p)}
        lost == {p[1] : p \in victims}
    IN  /\ q.step = "pruning"
        /\ \A p \in q.pruned : rows[p[1]] # None => Free(p[1], r)
        /\ rows' = [e \in Endpoints |-> IF e \in lost THEN None ELSE Seen(r)[e]]
        /\ locked' = Unlocked(r)
        /\ call' = [s \in Requests |->
              CASE s = r -> [New EXCEPT !.step = "done"]
                [] s # r /\ call[s].step = "pruning" /\ call[s].owner = q.owner ->
                       [call[s] EXCEPT !.unseen = @ + 1]
                [] OTHER -> call[s]]
        /\ wanted' = [wanted EXCEPT ![q.endpoint] = [owner |-> q.owner, at |-> q.at]]
        /\ arrivals' = arrivals \cup {<<q.owner, q.endpoint, q.at>>}
        /\ crossed' = crossed \cup {p[1] : p \in {v \in victims : Seen(r)[v[1]] # v[2]}}
        /\ slack' = [slack EXCEPT ![q.owner] = IF q.unseen = 0 THEN 0 ELSE @ + 1]
        /\ UNCHANGED <<tick, job, dead, stamped, faults>>

\* The transactions that one cannot go on without.
WaitedFor(holder) ==
    IF holder = Job
    THEN {locked[e] : e \in {f \in job.left : f \in dead /\ rows[f] # None}} \ {Job, None}
    ELSE {locked[p[1]] : p \in {v \in call[holder].pruned : rows[v[1]] # None}} \ {holder, None}

\* Two prunes, or a prune and the job, that wait for each other: PostgreSQL
\* cancels one of them.
Deadlocked(r) == \E other \in WaitedFor(r) : r \in WaitedFor(other)

CutRequest(r) ==
    /\ call[r].step \in {"upserted", "pruning"}
    /\ Fault \/ (Deadlocked(r) /\ UNCHANGED faults)
    /\ locked' = Unlocked(r)
    /\ Done(r)
    /\ UNCHANGED <<tick, rows, job, dead, stamped, histories>>

-----------------------------------------------------------------------------
(* DELETE /subscriptions and POST /test.                                   *)

Withdraw(e) ==
    /\ rows' = [rows EXCEPT ![e] = None]
    /\ wanted' = [wanted EXCEPT ![e] = None]

\* Only the account's own row; nothing to say where there is none.
Unsubscribe(r, u, e) ==
    /\ Fresh(r)
    /\ IF e \in Owned(u) THEN Free(e, r) /\ Withdraw(e)
                         ELSE UNCHANGED <<rows, wanted>>
    /\ Done(r)
    /\ UNCHANGED <<tick, locked, job, dead, stamped, faults, arrivals, crossed, slack>>

\* find, then post.
Test(r, u, e) ==
    /\ Fresh(r)
    /\ e \in Owned(u)
    /\ call' = [call EXCEPT ![r] = [New EXCEPT !.step = "testing", !.owner = u, !.endpoint = e]]
    /\ UNCHANGED <<tick, rows, locked, job, dead, stamped, faults, histories>>

\* 404 or 410.
Gone(e) == e \in dead

\* forget: whoever the row belongs to by now.  PushSubscriptionGone commits.
TestFindsItGone(r) ==
    LET e == call[r].endpoint
    IN  /\ call[r].step = "testing"
        /\ Gone(e)
        /\ IF rows[e] = None THEN UNCHANGED <<rows, wanted>> ELSE Free(e, r) /\ Withdraw(e)
        /\ Done(r)
        /\ UNCHANGED <<tick, locked, job, dead, stamped, faults, arrivals, crossed, slack>>

\* The message is received, or the post raises: nothing was written.
TestAnswered(r) ==
    /\ call[r].step = "testing"
    /\ Done(r)
    /\ UNCHANGED <<tick, rows, locked, job, dead, stamped, faults, histories>>

-----------------------------------------------------------------------------
(* The push channel of the job: one batch per account.                     *)

\* list_for_user.  An account without a device counts as written to.
List(u) ==
    /\ job.step = "idle"
    /\ u \notin stamped
    /\ job' = [job EXCEPT !.step = "posting", !.owner = u, !.left = Owned(u) \ job.forgotten]
    /\ UNCHANGED <<tick, rows, locked, call, dead, stamped, faults, histories>>

PostSent(e) ==
    /\ job.step = "posting" /\ e \in job.left
    /\ e \notin dead
    /\ job' = [job EXCEPT !.left = @ \ {e}]
    /\ UNCHANGED <<tick, rows, locked, call, dead, stamped, faults, histories>>

PostGone(e) ==
    /\ job.step = "posting" /\ e \in job.left
    /\ Gone(e)
    /\ IF rows[e] = None THEN UNCHANGED locked /\ job' = [job EXCEPT !.left = @ \ {e}]
       ELSE /\ Free(e, Job)
            /\ locked' = [locked EXCEPT ![e] = Job]
            /\ job' = [job EXCEPT !.left = @ \ {e}, !.forgotten = @ \cup {e}]
    /\ UNCHANGED <<tick, rows, call, dead, stamped, faults, histories>>

\* The exception ends the batch, not the job: what it forgot is not committed.
PostFails ==
    /\ job.step = "posting" /\ job.left # {}
    /\ Fault
    /\ job' = [job EXCEPT !.step = "idle", !.left = {}]
    /\ UNCHANGED <<tick, rows, locked, call, dead, stamped, histories>>

Stamp ==
    /\ job.step = "posting" /\ job.left = {}
    /\ stamped' = stamped \cup {job.owner}
    /\ rows' = [e \in Endpoints |-> IF e \in job.forgotten THEN None ELSE rows[e]]
    /\ wanted' = [e \in Endpoints |-> IF e \in job.forgotten THEN None ELSE wanted[e]]
    /\ locked' = Unlocked(Job)
    /\ job' = NoBatch
    /\ UNCHANGED <<tick, call, dead, faults, arrivals, crossed, slack>>

\* The job ends on a batch that failed, or is killed: the next one lists again.
JobRollsBack ==
    /\ job # NoBatch
    /\ \/ job.step = "idle" /\ UNCHANGED faults
       \/ job.step = "posting" /\ Fault
    /\ locked' = Unlocked(Job)
    /\ job' = NoBatch
    /\ UNCHANGED <<tick, rows, call, dead, stamped, histories>>

\* The browser drops its subscription, or uninstalls the application.
Die(e) ==
    /\ e \notin dead
    /\ dead' = dead \cup {e}
    /\ UNCHANGED <<tick, rows, locked, call, job, stamped, faults, histories>>

Next ==
    \/ \E r \in Requests :
          \/ \E u \in Owners, e \in Endpoints :
                \/ Subscribe(r, u, e) \/ Unsubscribe(r, u, e) \/ Test(r, u, e)
          \/ Upsert(r) \/ Choose(r) \/ CommitSubscription(r) \/ CutRequest(r)
          \/ TestFindsItGone(r) \/ TestAnswered(r)
    \/ \E u \in Owners : List(u)
    \/ \E e \in Endpoints : PostSent(e) \/ PostGone(e) \/ Die(e)
    \/ PostFails \/ Stamp \/ JobRollsBack

Spec == Init /\ [][Next]_devicesVars

-----------------------------------------------------------------------------
Rows == [id : Requests \cup Endpoints, owner : Owners, seen : Nat]

TypeOK ==
    /\ tick \in Nat
    /\ rows \in [Endpoints -> Rows \cup {None}]
    /\ locked \in [Endpoints -> Requests \cup {Job, None}]
    /\ call \in [Requests -> [step : {"new", "asked", "upserted", "pruning", "testing", "done"},
                              owner : Owners \cup {None}, endpoint : Endpoints \cup {None},
                              at : Nat, pruned : SUBSET (Endpoints \X Rows), unseen : Nat]]
    /\ job \in [step : {"idle", "posting"}, owner : Owners \cup {None},
                left : SUBSET Endpoints, forgotten : SUBSET Endpoints]
    /\ dead \subseteq Endpoints /\ stamped \subseteq Owners /\ faults \in Nat
    /\ wanted \in [Endpoints -> [owner : Owners, at : Nat] \cup {None}]
    /\ arrivals \subseteq Owners \X Endpoints \X Nat
    /\ crossed \subseteq Endpoints
    /\ slack \in [Owners -> Nat]

\* An account has at most MAX_PUSH_SUBSCRIPTIONS_PER_USER devices, however devices
\* change hands, but for those that overlapping subscriptions did not see; and the
\* first subscription that nothing overlaps brings it back to the limit.
LimitHolds ==
    \A u \in Owners : Cardinality(Owned(u)) <= Limit + slack[u]

\* Endpoints of the account that subscribed after the time of the last visit of e.
Later(e) ==
    {f \in Endpoints \ {e} :
        \E t \in wanted[e].at + 1 .. tick : <<wanted[e].owner, f, t>> \in arrivals}

\* A device stays subscribed, for the account that subscribed it last, until it
\* unsubscribes, is gone, or as many as the limit have subscribed after it: the
\* one that came last is never the one pruned.  The exception is named: a device
\* that came back while a prune was waiting for its row is pruned all the same.
NewestAreKept ==
    \A e \in Endpoints :
        \/ wanted[e] = None
        \/ rows[e] # None /\ rows[e].owner = wanted[e].owner
        \/ Cardinality(Later(e)) >= Limit
        \/ e \in crossed
=============================================================================
