----------------------------- MODULE Commitments -----------------------------
(***************************************************************************)
(* The commitments of the accounts and the occurrences generated for them: *)
(* services/commitments/commitment_service.py, occurrence_generator.py and *)
(* the part of jobs/daily.py that purges and generates.  Each request and  *)
(* each generation is one transaction, taken here as one step; a request   *)
(* that the code refuses writes nothing and is not a step.                 *)
(*                                                                         *)
(* A day is a number.  The server's day is UTC's; the day of an account is *)
(* the one its zone reads at that moment, at most one day away.            *)
(***************************************************************************)
EXTENDS Schedule, FiniteSets

CONSTANTS
    Ids,             \* commitment ids
    Users,           \* accounts
    Travellers,      \* accounts that may change their time zone
    Types,           \* CommitmentType
    Drafts,          \* the CommitmentCreate payloads sent
    Edits,           \* the CommitmentUpdate payloads sent, as partial records
    RowEdits,        \* the OccurrenceUpdate payloads sent, as partial records
    Kinds,           \* reminder families looked at
    MaxPerType,      \* MAX_COMMITMENTS_PER_TYPE: 25
    RestoreFactor,   \* RESTORE_CEILING_FACTOR: 2
    PurgeAfter,      \* PURGE_AFTER_DAYS: 30
    PurgeLogAfter,   \* PURGE_REMINDERS_AFTER_DAYS: 45
    Zones,           \* the day of an account minus the server's: within -1 .. 1
    FirstDay,        \* bound: the server's first day
    LastDay          \* bound: the server's last day

Statuses == {"active", "paused", "archived"}
Counted == {"active", "paused"}                      \* COUNTED_STATUSES
Rescheduling == {"amount", "frequency", "starts_on", "ends_on", "status"}
ActionFields == {"trial_ends_on", "cancellation_notice_days"}

Fields == Rescheduling \cup ActionFields \cup {"user_id", "type", "deleted_at"}

ASSUME CommitmentAssumption ==
    /\ IsFiniteSet(Ids)
    /\ MaxPerType \in Nat
    /\ RestoreFactor \in Nat \ {0}
    /\ PurgeAfter \in Nat
    /\ PurgeLogAfter \in Nat
    /\ Zones \subseteq -1 .. 1
    /\ FirstDay \in Nat \ {0}
    /\ LastDay \in Nat
    /\ \A p \in Drafts :
         /\ DOMAIN p = Fields \ {"user_id", "status", "deleted_at"}
         /\ p.type \in Types
         /\ p.amount \in Nat
         /\ p.frequency \in Frequency
         /\ p.starts_on \in Day
         /\ p.ends_on \in Day \cup {None}
         /\ WithinTerm(p.starts_on, p.ends_on)
         /\ p.trial_ends_on \in Day \cup {None}
         /\ p.trial_ends_on # None => p.trial_ends_on <= p.starts_on
         /\ p.cancellation_notice_days \in Nat \cup {None}
    /\ \A e \in Edits :
         /\ DOMAIN e \subseteq Fields \ {"user_id", "deleted_at"} /\ DOMAIN e # {}
         /\ "type" \in DOMAIN e => e.type \in Types
         /\ "status" \in DOMAIN e => e.status \in Statuses
         /\ "amount" \in DOMAIN e => e.amount \in Nat
         /\ "frequency" \in DOMAIN e => e.frequency \in Frequency
         /\ "starts_on" \in DOMAIN e => e.starts_on \in Day
         /\ "ends_on" \in DOMAIN e => e.ends_on \in Day \cup {None}
         /\ "trial_ends_on" \in DOMAIN e => e.trial_ends_on \in Day \cup {None}
         /\ "cancellation_notice_days" \in DOMAIN e =>
                e.cancellation_notice_days \in Nat \cup {None}
    /\ \A e \in RowEdits :
         /\ DOMAIN e \subseteq {"status", "amount", "paid_on"} /\ DOMAIN e # {}
         /\ "status" \in DOMAIN e => e.status \in {"pending", "paid", "skipped"}
         /\ "amount" \in DOMAIN e => e.amount \in Nat
         /\ "paid_on" \in DOMAIN e => e.paid_on \in Int \cup {None}

VARIABLES
    commitments,  \* table commitments: [Ids -> record or None]
    rows,         \* table commitment_occurrences, by commitment and due date
    day,          \* the server's day
    today,        \* the day of each account
    synced        \* history: the day a commitment was last generated from

vars == <<commitments, rows, day, today, synced>>

Exists(i)      == commitments[i] # None
Live(i)        == Exists(i) /\ commitments[i].deleted_at = None
InTrash(i)     == Exists(i) /\ commitments[i].deleted_at # None
Owned(u)       == {i \in Ids : Exists(i) /\ commitments[i].user_id = u}
OwnerDay(i)    == today[commitments[i].user_id]
NoRows         == [d \in Day |-> None]

\* dict.get, and setattr for every field of a dict.
Get(changes, field, default) ==
    IF field \in DOMAIN changes THEN changes[field] ELSE default
Merge(c, changes) == [field \in DOMAIN c |-> Get(changes, field, c[field])]
Touches(changes, fields) == DOMAIN changes \cap fields # {}

-----------------------------------------------------------------------------
(* The population an account may track.                                    *)

\* count_commitments(statuses=COUNTED_STATUSES): archives and trash are out.
Tracked(u, t) ==
    {i \in Ids : /\ Live(i)
                 /\ commitments[i].user_id = u
                 /\ commitments[i].status \in Counted
                 /\ commitments[i].type = t}

BelowCeiling(u, t) == Cardinality(Tracked(u, t)) < MaxPerType

\* Mutation of Enters: the change of type is a side door.
EntersByStatus(c, status, type) == status \in Counted /\ c.status \notin Counted

\* A change makes a commitment enter a population it is not counted in.
Enters(c, status, type) ==
    /\ status \in Counted
    /\ ~(c.status \in Counted /\ c.type = type)

\* The trash may go over the ceiling, not over the roof; the whole batch is
\* refused when one of its types does not fit.
Entrants(u, ids, t) ==
    {i \in ids \cap Owned(u) : /\ InTrash(i)
                               /\ commitments[i].status \in Counted
                               /\ commitments[i].type = t}

\* Mutation of RestoreFits: the batch measured without what is there already.
RestoreFitsAlone(u, ids) ==
    \A t \in Types : Cardinality(Entrants(u, ids, t)) <= RestoreFactor * MaxPerType

RestoreFits(u, ids) ==
    \A t \in Types : Entrants(u, ids, t) # {} =>
        Cardinality(Tracked(u, t)) + Cardinality(Entrants(u, ids, t))
            <= RestoreFactor * MaxPerType

-----------------------------------------------------------------------------
(* Generation.                                                             *)

\* Mutation of NewRow: the status of the commitment.
NewActiveRow(amount) ==
    [status |-> "active", amount |-> amount, paid_on |-> None, reminded |-> {},
     by_hand |-> FALSE]

NewRow(amount) ==
    [status |-> "pending", amount |-> amount, paid_on |-> None,
     reminded |-> {},       \* occurrence_reminders of this occurrence
     by_hand |-> FALSE]     \* history: changed by update_occurrence

\* INSERT ... ON CONFLICT DO NOTHING: a row that exists is left as it is.
AddOccurrences(table, dates, amount) ==
    [d \in Day |-> IF d \in dates /\ table[d] = None THEN NewRow(amount) ELSE table[d]]

IsPending(row) == row # None /\ row.status = "pending"

\* Mutation of DeletePendingFrom: the settled rows go as well.
DeleteFrom(table, floor) == [d \in Day |-> IF d >= floor THEN None ELSE table[d]]

DeletePendingFrom(table, floor) ==
    [d \in Day |-> IF IsPending(table[d]) /\ d >= floor THEN None ELSE table[d]]

Sync(c, table, floor) ==
    IF c.status # "active" THEN table
    ELSE AddOccurrences(table,
            DueDates(c.starts_on, c.frequency, c.ends_on,
                     floor, floor + HorizonDays(c.frequency)),
            c.amount)

\* Mutations of Resync: nothing deleted first; generated from the day after.
ResyncOnTop(c, table, floor) == Sync(c, table, floor)
ResyncFromTomorrow(c, table, floor) ==
    Sync(c, DeletePendingFrom(table, floor), floor + 1)

Resync(c, table, floor) == Sync(c, DeletePendingFrom(table, floor), floor)

\* clear_reminders, and the DELETE of purge_reminders.
Forget(table, kinds, days) ==
    [d \in Day |-> IF table[d] # None /\ d \in days
                   THEN [table[d] EXCEPT !.reminded = @ \ kinds] ELSE table[d]]

\* Mutation of PendingDays: the log of what is settled is cleared too.
AllDays(table) == {d \in Day : table[d] # None}

PendingDays(table) == {d \in Day : IsPending(table[d])}

-----------------------------------------------------------------------------
(* Requests on commitments.                                                *)

Init ==
    /\ commitments = [i \in Ids |-> None]
    /\ rows = [i \in Ids |-> NoRows]
    /\ day = FirstDay
    /\ today \in [Users -> {FirstDay + zone : zone \in Zones}]
    /\ synced = [i \in Ids |-> FirstDay]

\* What the row of a new commitment is filled with.
NewCommitment(u, payload) ==
    [field \in Fields |->
        CASE field = "user_id"    -> u
          [] field = "status"     -> "active"
          [] field = "deleted_at" -> None
          [] OTHER                -> payload[field]]

Create(u, i, payload) ==
    LET c == NewCommitment(u, payload)
    IN  /\ ~Exists(i)
        /\ BelowCeiling(u, payload.type)
        /\ commitments' = [commitments EXCEPT ![i] = c]
        /\ rows' = [rows EXCEPT ![i] = Sync(c, NoRows, today[u])]
        /\ synced' = [synced EXCEPT ![i] = today[u]]
        /\ UNCHANGED <<day, today>>

\* Mutation of TermsFit: the trial is only looked at when it is created.
TermsFitWithoutTrial(c) == WithinTerm(c.starts_on, c.ends_on)

TermsFit(c) ==
    /\ WithinTerm(c.starts_on, c.ends_on)
    /\ c.trial_ends_on # None => c.trial_ends_on <= c.starts_on

Update(i, changes) ==
    LET c       == commitments[i]
        updated == Merge(c, changes)
    IN  /\ Live(i)
        /\ TermsFit(updated)
        /\ Enters(c, updated.status, updated.type) => BelowCeiling(c.user_id, updated.type)
        /\ commitments' = [commitments EXCEPT ![i] = updated]
        /\ \/ /\ Touches(changes, Rescheduling)
              /\ rows' = [rows EXCEPT ![i] = Resync(updated, @, OwnerDay(i))]
              /\ synced' = [synced EXCEPT ![i] = OwnerDay(i)]
           \/ /\ ~Touches(changes, Rescheduling)
              /\ Touches(changes, ActionFields)
              /\ rows' = [rows EXCEPT ![i] = Forget(@, {"action_required"}, PendingDays(@))]
              /\ UNCHANGED synced
           \/ /\ ~Touches(changes, Rescheduling \cup ActionFields)
              /\ UNCHANGED <<rows, synced>>
        /\ UNCHANGED <<day, today>>

\* One by one in the order of the request: those that enter a full population
\* are left out, the others change.
SetStatusMany(u, ids, status) ==
    LET asked     == {i \in ids \cap Owned(u) : Live(i) /\ commitments[i].status # status}
        entering  == {i \in asked : Enters(commitments[i], status, commitments[i].type)}
        OfType(batch, t) == {i \in batch : commitments[i].type = t}
        room(t)   == MaxPerType - Cardinality(Tracked(u, t))
    IN  \E admitted \in SUBSET entering :
          LET changed == (asked \ entering) \cup admitted
          IN  /\ changed # {}
              /\ \A t \in Types :
                    /\ OfType(admitted, t) # {} => Cardinality(OfType(admitted, t)) <= room(t)
                    /\ OfType(admitted, t) # OfType(entering, t) =>
                           Cardinality(OfType(admitted, t)) >= room(t)
              /\ commitments' = [i \in Ids |->
                    IF i \in changed THEN [commitments[i] EXCEPT !.status = status]
                                     ELSE commitments[i]]
              /\ rows' = [i \in Ids |->
                    IF i \in changed
                    THEN Resync([commitments[i] EXCEPT !.status = status], rows[i], today[u])
                    ELSE rows[i]]
              /\ synced' = [i \in Ids |-> IF i \in changed THEN today[u] ELSE synced[i]]
              /\ UNCHANGED <<day, today>>

SoftDelete(batch) ==
    /\ commitments' = [i \in Ids |->
          IF i \in batch THEN [commitments[i] EXCEPT !.deleted_at = day]
                         ELSE commitments[i]]
    /\ UNCHANGED <<rows, day, today, synced>>

DeleteMany(u, ids) == SoftDelete({i \in ids \cap Owned(u) : Live(i)})

DeleteAll(u, type, status) ==
    SoftDelete({i \in Owned(u) : /\ Live(i)
                                 /\ type \in {None, commitments[i].type}
                                 /\ status \in {None, commitments[i].status}})

Restore(u, ids) ==
    LET batch == {i \in ids \cap Owned(u) : InTrash(i)}
    IN  /\ batch # {}
        /\ RestoreFits(u, ids)
        /\ commitments' = [i \in Ids |->
              IF i \in batch THEN [commitments[i] EXCEPT !.deleted_at = None]
                             ELSE commitments[i]]
        /\ UNCHANGED <<rows, day, today, synced>>

\* DELETE: the occurrences and their log go with the commitment (ON DELETE CASCADE).
Erased(table, batch) == [i \in Ids |-> IF i \in batch THEN None ELSE table[i]]
ErasedRows(batch) == [i \in Ids |-> IF i \in batch THEN NoRows ELSE rows[i]]

PurgeNow(u, type) ==
    LET batch == {i \in Owned(u) : InTrash(i) /\ type \in {None, commitments[i].type}}
    IN  /\ batch # {}
        /\ commitments' = Erased(commitments, batch)
        /\ rows' = ErasedRows(batch)
        /\ UNCHANGED <<day, today, synced>>

-----------------------------------------------------------------------------
(* Requests on occurrences.                                                *)

\* Mutation of Settled: the day of a payment survives its reopening.
SettledForGood(row, changes, now) ==
    LET given == Get(changes, "paid_on", row.paid_on)
    IN  IF given = None /\ Get(changes, "status", row.status) = "paid" THEN now ELSE given

\* settle: a payment has a day, never in the future; anything else has none.
Settled(row, changes, now) ==
    LET status == Get(changes, "status", row.status)
        given  == Get(changes, "paid_on", row.paid_on)
    IN  IF status # "paid" THEN None ELSE IF given = None THEN now ELSE given

UpdateOccurrence(i, d, changes) ==
    LET row     == rows[i][d]
        paid_on == Settled(row, changes, OwnerDay(i))
    IN  /\ Live(i)
        /\ row # None
        /\ paid_on # None => paid_on <= OwnerDay(i)
        /\ rows' = [rows EXCEPT ![i][d] =
              [row EXCEPT !.status = Get(changes, "status", @),
                          !.amount = Get(changes, "amount", @),
                          !.paid_on = paid_on,
                          !.by_hand = TRUE]]
        /\ UNCHANGED <<commitments, day, today, synced>>

-----------------------------------------------------------------------------
(* The daily job, and the days.                                            *)

\* Mutation of Purgeable: the age of the trash is not looked at.
AnyTrash == {i \in Ids : InTrash(i)}

\* deleted_at is compared to the second: a trash exactly PurgeAfter days old is
\* purged or not with the hour.
Purgeable == {i \in Ids : InTrash(i) /\ commitments[i].deleted_at <= day - PurgeAfter}
Expired == {i \in Ids : InTrash(i) /\ commitments[i].deleted_at < day - PurgeAfter}

\* run_daily up to its first commit.
DailyGeneration ==
    \E batch \in SUBSET Purgeable :
        /\ Expired \subseteq batch
        /\ commitments' = Erased(commitments, batch)
        /\ LET old  == {d \in Day : d < day - PurgeLogAfter}
               kept == [i \in Ids |-> Forget(ErasedRows(batch)[i], Kinds, old)]
           IN  rows' = [i \in Ids |-> IF Live(i) THEN Sync(commitments[i], kept[i], day)
                                                 ELSE kept[i]]
        /\ synced' = [i \in Ids |-> IF Live(i) /\ synced[i] < day THEN day ELSE synced[i]]
        /\ UNCHANGED <<day, today>>

\* mark_reminders_sent, after a message about this occurrence was delivered.
MarkReminded(i, d, kind) ==
    /\ Live(i)
    /\ commitments[i].status = "active"
    /\ IsPending(rows[i][d])
    /\ rows' = [rows EXCEPT ![i][d].reminded = @ \cup {kind}]
    /\ UNCHANGED <<commitments, day, today, synced>>

LocalMidnight(u) ==
    /\ today[u] + 1 - day \in Zones
    /\ today' = [today EXCEPT ![u] = @ + 1]
    /\ UNCHANGED <<commitments, rows, day, synced>>

ServerMidnight ==
    /\ day < LastDay
    /\ \A u \in Users : today[u] - (day + 1) \in Zones
    /\ day' = day + 1
    /\ UNCHANGED <<commitments, rows, today, synced>>

\* update_profile: another zone, where it may be the day before or after.
ChangeTimezone(u) ==
    /\ u \in Travellers
    /\ \E zone \in Zones : today' = [today EXCEPT ![u] = day + zone]
    /\ UNCHANGED <<commitments, rows, day, synced>>

Next ==
    \/ \E u \in Users, i \in Ids, payload \in Drafts : Create(u, i, payload)
    \/ \E i \in Ids, changes \in Edits : Update(i, changes)
    \/ \E u \in Users, ids \in SUBSET Ids, status \in Statuses : SetStatusMany(u, ids, status)
    \/ \E u \in Users, ids \in SUBSET Ids : DeleteMany(u, ids)
    \/ \E u \in Users, type \in Types \cup {None}, status \in Statuses \cup {None} :
          DeleteAll(u, type, status)
    \/ \E u \in Users, ids \in SUBSET Ids : Restore(u, ids)
    \/ \E u \in Users, type \in Types \cup {None} : PurgeNow(u, type)
    \/ \E i \in Ids, d \in Day, changes \in RowEdits : UpdateOccurrence(i, d, changes)
    \/ \E i \in Ids, d \in Day, kind \in Kinds : MarkReminded(i, d, kind)
    \/ DailyGeneration
    \/ \E u \in Users : LocalMidnight(u) \/ ChangeTimezone(u)
    \/ ServerMidnight

Spec == Init /\ [][Next]_vars

-----------------------------------------------------------------------------
Commitment ==
    [user_id : Users, type : Types, amount : Nat, frequency : Frequency,
     starts_on : Day, ends_on : Day \cup {None}, trial_ends_on : Day \cup {None},
     cancellation_notice_days : Nat \cup {None}, status : Statuses,
     deleted_at : Int \cup {None}]

Row ==
    [status : {"pending", "paid", "skipped"}, amount : Nat, paid_on : Int \cup {None},
     reminded : SUBSET Kinds, by_hand : BOOLEAN]

TypeOK ==
    /\ commitments \in [Ids -> Commitment \cup {None}]
    /\ rows \in [Ids -> [Day -> Row \cup {None}]]
    /\ day \in Nat
    /\ today \in [Users -> Int]
    /\ \A u \in Users : today[u] - day \in Zones
    /\ synced \in [Ids -> Int]

\* The CHECK constraints of the table hold although an edit is validated field
\* by field, against what the row already holds: an update never meets a 500.
TermsAreSound ==
    \A i \in Ids : Exists(i) =>
        LET c == commitments[i]
        IN  /\ WithinTerm(c.starts_on, c.ends_on)
            /\ c.trial_ends_on # None => c.trial_ends_on <= c.starts_on

\* "The cycle create 25, empty into the trash, create 25 again, restore the lot"
\* (README, The ceiling) stops at the roof, whatever the requests in between.
RoofHolds ==
    \A u \in Users, t \in Types :
        Cardinality(Tracked(u, t)) <= RestoreFactor * MaxPerType

\* What Population sees of a commitment.
Standing(c) ==
    [owner |-> c.user_id, type |-> c.type, counted |-> c.status \in Counted,
     binned |-> c.deleted_at # None]

Abstract == INSTANCE Population WITH
    place <- [i \in Ids |-> IF Exists(i) THEN Standing(commitments[i]) ELSE None]

\* The absence of a record is no record.
ASSUME RecordAssumption ==
    None \notin Commitment /\ None \notin Row /\ None \notin Abstract!Place

\* The requests, the batches and the job implement Population: no sequence of
\* them grows a population past the ceiling but a restoration, nor past the roof
\* (README, The ceiling); touches what is in the trash but to bring it back or to
\* erase it; erases what is not there; or moves a commitment to another account.
TracksPopulations == Abstract!Spec

\* Over the ceiling, a population grows by a restoration and by nothing else:
\* no creation, un-archiving, change of type or batch is a side door.
OnlyRestoreExceeds ==
    [][\A u \in Users, t \in Types :
          /\ Cardinality(Tracked(u, t)') > MaxPerType
          /\ Cardinality(Tracked(u, t)') > Cardinality(Tracked(u, t))
          => \E ids \in SUBSET Ids : Restore(u, ids)]_vars

\* What was settled, and what is in the owner's past, is history: regeneration,
\* pauses, edits and stays in the trash never rewrite it.  Only its own request
\* does, or the end of the commitment.
HistoryKept ==
    [][\A i \in Ids, d \in Day :
          LET row == rows[i][d]
          IN  /\ row # None
              /\ ~IsPending(row) \/ d < OwnerDay(i)
              => \/ commitments'[i] = None
                 \/ rows'[i][d] # None /\ rows'[i][d] = [row EXCEPT !.reminded = rows'[i][d].reminded]
                 \/ \E changes \in RowEdits : UpdateOccurrence(i, d, changes)]_vars

\* What is announced from today on is what the commitment says now: after any
\* sequence of edits, a pending row the generator wrote is on the schedule, at
\* the current amount, and there is none while it is paused or archived.
\* (Rows changed by hand keep what their owner gave them.)
OnlyScheduled ==
    \A i \in Ids, d \in Day :
        LET c == commitments[i]
            row == rows[i][d]
        IN  Exists(i) /\ c.user_id \notin Travellers /\ IsPending(row)
              /\ ~row.by_hand /\ d >= OwnerDay(i)
            => /\ c.status = "active"
               /\ d \in DueDates(c.starts_on, c.frequency, c.ends_on, d, d)
               /\ row.amount = c.amount

\* Every due date of an active commitment has its row, from the day it was last
\* generated up to that generation's horizon: nothing done since has lost one.
NothingMissing ==
    \A i \in Ids :
        LET c == commitments[i]
        IN  Live(i) /\ c.status = "active" =>
            \A d \in DueDates(c.starts_on, c.frequency, c.ends_on,
                               synced[i], synced[i] + HorizonDays(c.frequency)) :
                rows[i][d] # None

\* The days the list shows a commitment as due next: `due_dates` takes the first
\* of them as its next_due_date, and there is none (null) when the set is empty.
Upcoming(i) == {d \in Day : Live(i) /\ IsPending(rows[i][d]) /\ d >= OwnerDay(i)}

\* The horizon is one period and a margin, so that the next due date never
\* renders as null (README, Generation): for HorizonMargin days after the last
\* generation, through missed jobs and stays in the trash, a commitment shows
\* one, unless what falls due within a period was settled ahead of its day.
NextDueVisible ==
    \A i \in Ids :
        LET c     == commitments[i]
            from  == OwnerDay(i)
            Ahead == DueDates(c.starts_on, c.frequency, c.ends_on,
                              from, from + LongestPeriod[c.frequency])
        IN  /\ Live(i) /\ c.status = "active" /\ c.frequency \in Recurring
            /\ synced[i] <= from /\ from <= synced[i] + HorizonMargin
            /\ Ahead # {}
            => \E d \in Ahead :
                  d \in Upcoming(i) \/ (rows[i][d] # None /\ ~IsPending(rows[i][d]))

\* A payment has its day, which is not in the future, and only a payment has:
\* reopening, skipping and paying again never leave a stale date behind.
PaidConsistent ==
    \A i \in Ids, d \in Day :
        LET row == rows[i][d]
        IN  row # None =>
              /\ row.status = "paid" <=> row.paid_on # None
              /\ row.paid_on # None /\ commitments[i].user_id \notin Travellers
                   => row.paid_on <= OwnerDay(i)

\* Nothing is erased for good but a trash, emptied by its owner or left for
\* PurgeAfter days since it was last thrown away.
OnlyTrashIsPurged ==
    [][\A i \in Ids : Exists(i) /\ commitments'[i] = None =>
          /\ InTrash(i)
          /\ \/ commitments[i].deleted_at + PurgeAfter <= day
             \/ \E type \in Types \cup {None} : PurgeNow(commitments[i].user_id, type)]_vars

\* The log of a row that survives loses a family only when a deadline is edited
\* (action_required, so that it can be announced again) or when the row is old
\* enough to be out of every window.
LogIsKept ==
    [][\A i \in Ids, d \in Day :
          rows[i][d] # None /\ rows'[i][d] # None =>
          \A kind \in rows[i][d].reminded \ rows'[i][d].reminded :
              \/ d < day - PurgeLogAfter
              \/ /\ IsPending(rows[i][d])
                 /\ d >= OwnerDay(i)
              \/ kind = "action_required" /\ IsPending(rows[i][d])]_vars

\* "Recurring frequencies never generate rows before today", and "the floor is
\* the owner's day, not the server's" (README, Generation).
NoBackfill ==
    [][\A i \in Ids, d \in Day :
          rows[i][d] = None /\ rows'[i][d] # None =>
             \/ commitments'[i].frequency = "oneoff"
             \/ d >= today[commitments'[i].user_id]]_vars

\* What the code holds of that sentence: a row before its owner's day is written
\* by the daily job alone, for the server's day, when the owner's zone is
\* already on the next one; never by a request, and never further back.
OnlyTheJobBackfills ==
    [][\A i \in Ids, d \in Day :
          rows[i][d] = None /\ rows'[i][d] # None =>
             \/ commitments'[i].frequency = "oneoff"
             \/ d >= today[commitments'[i].user_id]
             \/ /\ DailyGeneration
                /\ d = day
                /\ today[commitments'[i].user_id] = day + 1]_vars

\* No account is on a later day than the server.
NobodyAhead == \A u \in Users : today[u] <= day
=============================================================================
