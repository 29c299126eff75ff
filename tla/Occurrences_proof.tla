--------------------------- MODULE Occurrences_proof ---------------------------
(***************************************************************************)
(* The occurrences follow their commitment, for every calendar, payload,   *)
(* number of commitments and sequence of requests: none is missing, none   *)
(* is announced that should not be, and history is not rewritten.          *)
(*                                                                         *)
(* Whatever the step, one of six things happens to the rows of a           *)
(* commitment; each invariant is kept by the six.                          *)
(***************************************************************************)
EXTENDS Commitments_proof, Schedule_proof

Terms(c) == <<c.user_id, c.status, c.amount, c.frequency, c.starts_on, c.ends_on>>

\* The terms the rows depend on are what they were.
SameTerms(i) ==
    /\ Exists(i) <=> Exists(i)'
    /\ Exists(i) => Terms(commitments'[i]) = Terms(commitments[i])

LeftAlone(i) == SameTerms(i) /\ rows'[i] = rows[i] /\ synced'[i] = synced[i]

Regenerated(i) ==
    /\ Exists(i)'
    /\ \/ Exists(i) /\ commitments'[i].user_id = commitments[i].user_id
       \/ ~Exists(i) /\ rows[i] = NoRows
    /\ rows'[i] = Resync(commitments'[i], rows[i], OwnerDay(i)')
    /\ synced'[i] = OwnerDay(i)'
    /\ UNCHANGED today

Gone(i) == commitments'[i] = None /\ rows'[i] = NoRows

OldDays == {d \in Day : d < day - PurgeLogAfter}

Forgotten(i) ==
    /\ SameTerms(i)
    /\ synced'[i] = synced[i]
    /\ \/ rows'[i] = Forget(rows[i], {"action_required"}, PendingDays(rows[i]))
       \/ rows'[i] = Forget(rows[i], Kinds, OldDays)

RunDaily(i) ==
    /\ DailyGeneration
    /\ Live(i) /\ commitments'[i] = commitments[i]
    /\ rows'[i] = Sync(commitments[i], Forget(rows[i], Kinds, OldDays), day)
    /\ synced'[i] = IF synced[i] < day THEN day ELSE synced[i]
    /\ UNCHANGED today

Touched(i) ==
    /\ UNCHANGED <<commitments, today, synced>>
    /\ \E d \in Day :
          \/ \E changes \in RowEdits : UpdateOccurrence(i, d, changes)
          \/ \E kind \in Kinds : MarkReminded(i, d, kind)

\* Where there is no commitment there are no rows.
RowsHaveCommitment == \A i \in Ids : ~Exists(i) => rows[i] = NoRows

-----------------------------------------------------------------------------
(* Rows, one by one.                                                       *)

LEMMA RowType ==
    ASSUME NEW c \in Commitment
    PROVE  NewRow(c.amount) \in Row /\ NewRow(c.amount) # None
  <1>1. NewRow(c.amount) \in Row
    BY DEF NewRow, Row, Commitment
  <1>2. QED
    BY <1>1, RecordAssumption

\* Generation adds the due dates that are not there, and leaves the rest.
LEMMA SyncRow ==
    ASSUME NEW c \in Commitment, NEW table \in [Day -> Row \cup {None}], NEW floor,
           NEW d \in Day
    PROVE  /\ table[d] # None => Sync(c, table, floor)[d] = table[d]
           /\ table[d] = None =>
                 \/ Sync(c, table, floor)[d] = None
                 \/ /\ Sync(c, table, floor)[d] = NewRow(c.amount)
                    /\ c.status = "active"
                    /\ d \in DueDates(c.starts_on, c.frequency, c.ends_on,
                                      floor, floor + HorizonDays(c.frequency))
           /\ /\ c.status = "active"
              /\ d \in DueDates(c.starts_on, c.frequency, c.ends_on,
                                floor, floor + HorizonDays(c.frequency))
              => Sync(c, table, floor)[d] # None
  <1> DEFINE dates == DueDates(c.starts_on, c.frequency, c.ends_on,
                               floor, floor + HorizonDays(c.frequency))
             row == NewRow(c.amount)
  <1>1. row # None
    BY RowType
  <1>2. Sync(c, table, floor) = IF c.status # "active" THEN table
                                ELSE [e \in Day |-> IF e \in dates /\ table[e] = None
                                                    THEN row ELSE table[e]]
    BY DEF Sync, AddOccurrences
  <1> HIDE DEF dates, row
  <1>3. /\ table[d] # None => Sync(c, table, floor)[d] = table[d]
        /\ table[d] = None =>
              \/ Sync(c, table, floor)[d] = None
              \/ Sync(c, table, floor)[d] = row /\ c.status = "active" /\ d \in dates
        /\ c.status = "active" /\ d \in dates => Sync(c, table, floor)[d] # None
    BY <1>1, <1>2
  <1>4. QED
    BY <1>3 DEF dates, row

\* Regeneration does the same, once the pending rows ahead are gone.
LEMMA ResyncRow ==
    ASSUME NEW c \in Commitment, NEW table \in [Day -> Row \cup {None}], NEW floor,
           NEW d \in Day
    PROVE  /\ table[d] # None /\ ~(IsPending(table[d]) /\ d >= floor) =>
                 Resync(c, table, floor)[d] = table[d]
           /\ table[d] = None \/ (IsPending(table[d]) /\ d >= floor) =>
                 \/ Resync(c, table, floor)[d] = None
                 \/ /\ Resync(c, table, floor)[d] = NewRow(c.amount)
                    /\ c.status = "active"
                    /\ d \in DueDates(c.starts_on, c.frequency, c.ends_on,
                                      floor, floor + HorizonDays(c.frequency))
           /\ /\ c.status = "active"
              /\ d \in DueDates(c.starts_on, c.frequency, c.ends_on,
                                floor, floor + HorizonDays(c.frequency))
              => Resync(c, table, floor)[d] # None
  <1> DEFINE cut == DeletePendingFrom(table, floor)
  <1>1. /\ cut \in [Day -> Row \cup {None}]
        /\ cut[d] = IF IsPending(table[d]) /\ d >= floor THEN None ELSE table[d]
    BY DEF DeletePendingFrom
  <1>2. Resync(c, table, floor) = Sync(c, cut, floor)
    BY DEF Resync
  <1> HIDE DEF cut
  <1>3. QED
    BY <1>1, <1>2, SyncRow

\* The log aside, forgetting changes no row.
LEMMA ForgetOne ==
    ASSUME NEW table \in [Day -> Row \cup {None}], NEW kinds, NEW days, NEW d \in Day,
           table[d] # None
    PROVE  /\ Forget(table, kinds, days)[d] \in Row
           /\ Forget(table, kinds, days)[d].status = table[d].status
           /\ Forget(table, kinds, days)[d].amount = table[d].amount
           /\ Forget(table, kinds, days)[d].paid_on = table[d].paid_on
           /\ Forget(table, kinds, days)[d].by_hand = table[d].by_hand
           /\ \A k \in table[d].reminded \ Forget(table, kinds, days)[d].reminded :
                 k \in kinds /\ d \in days
  <1>1. ASSUME NEW row \in Row
        PROVE  /\ [row EXCEPT !.reminded = @ \ kinds] \in Row
               /\ [row EXCEPT !.reminded = @ \ kinds].reminded = row.reminded \ kinds
               /\ [row EXCEPT !.reminded = @ \ kinds].status = row.status
               /\ [row EXCEPT !.reminded = @ \ kinds].amount = row.amount
               /\ [row EXCEPT !.reminded = @ \ kinds].paid_on = row.paid_on
               /\ [row EXCEPT !.reminded = @ \ kinds].by_hand = row.by_hand
               /\ [row EXCEPT !.reminded = row.reminded] = row
    BY DEF Row
  <1>2. CASE d \notin days
    <2>1. table[d] \in Row /\ Forget(table, kinds, days)[d] = table[d]
      BY <1>2 DEF Forget
    <2>2. QED
      BY <2>1, <1>1
  <1>3. CASE d \in days
    <2>1. /\ table[d] \in Row
          /\ Forget(table, kinds, days)[d] = [table[d] EXCEPT !.reminded = @ \ kinds]
      BY <1>3 DEF Forget
    <2>2. QED
      BY <1>3, <2>1, <1>1
  <1>4. QED
    BY <1>2, <1>3

LEMMA ForgetExact ==
    ASSUME NEW table \in [Day -> Row \cup {None}], NEW kinds, NEW days, NEW d \in Day,
           table[d] # None
    PROVE  Forget(table, kinds, days)[d] =
              [table[d] EXCEPT !.reminded = Forget(table, kinds, days)[d].reminded]
  <1>1. ASSUME NEW row \in Row
        PROVE  /\ [row EXCEPT !.reminded = @ \ kinds].reminded = row.reminded \ kinds
               /\ [row EXCEPT !.reminded = row.reminded] = row
    BY DEF Row
  <1>2. CASE d \notin days
    <2>1. table[d] \in Row /\ Forget(table, kinds, days)[d] = table[d]
      BY <1>2 DEF Forget
    <2>2. QED
      BY <2>1, <1>1
  <1>3. CASE d \in days
    <2>1. /\ table[d] \in Row
          /\ Forget(table, kinds, days)[d] = [table[d] EXCEPT !.reminded = @ \ kinds]
      BY <1>3 DEF Forget
    <2>2. QED
      BY <2>1, <1>1
  <1>4. QED
    BY <1>2, <1>3

LEMMA ForgetRow ==
    ASSUME NEW table \in [Day -> Row \cup {None}], NEW kinds, NEW days, NEW d \in Day
    PROVE  Forget(table, kinds, days)[d] = None <=> table[d] = None
  <1>1. CASE table[d] = None
    BY <1>1 DEF Forget
  <1>2. CASE table[d] # None
    BY <1>2, ForgetOne, RecordAssumption
  <1>3. QED
    BY <1>1, <1>2

LEMMA ForgetNothing ==
    ASSUME NEW kinds, NEW days
    PROVE  Forget(NoRows, kinds, days) = NoRows
  BY DEF Forget, NoRows

-----------------------------------------------------------------------------
(* What a step may do to the rows of a commitment.                         *)

Fate(i) ==
    LeftAlone(i) \/ Regenerated(i) \/ Gone(i) \/ Forgotten(i) \/ RunDaily(i) \/ Touched(i)

LEMMA CreateFate ==
    ASSUME TypeOK, RowsHaveCommitment, NEW i \in Ids,
           NEW u \in Users, NEW j \in Ids, NEW payload \in Drafts, Create(u, j, payload)
    PROVE  Fate(i)
  <1> DEFINE c == NewCommitment(u, payload)
  <1>1. c \in Commitment /\ c # None /\ c.user_id = u
    BY NewCommitmentType, RecordAssumption
  <1>2. /\ ~Exists(j) /\ UNCHANGED today
        /\ commitments' = [commitments EXCEPT ![j] = c]
        /\ rows' = [rows EXCEPT ![j] = Sync(c, NoRows, today[u])]
        /\ synced' = [synced EXCEPT ![j] = today[u]]
    BY DEF Create
  <1> HIDE DEF c
  <1>3. CASE i # j
    <2>1. /\ commitments'[i] = commitments[i] /\ rows'[i] = rows[i]
          /\ synced'[i] = synced[i]
      BY <1>2, <1>3 DEF TypeOK
    <2>2. QED
      BY <2>1 DEF Fate, LeftAlone, SameTerms, Exists
  <1>4. CASE i = j
    <2>1. /\ commitments'[i] = c /\ rows'[i] = Sync(c, NoRows, today[u])
          /\ synced'[i] = today[u]
      BY <1>2, <1>4 DEF TypeOK
    <2>2. ~Exists(i) /\ rows[i] = NoRows
      BY <1>2, <1>4 DEF RowsHaveCommitment
    <2>3. DeletePendingFrom(NoRows, today[u]) = NoRows
      BY DEF DeletePendingFrom, NoRows
    <2>4. rows'[i] = Resync(c, NoRows, today[u])
      BY <2>1, <2>3 DEF Resync
    <2>5. Exists(i)' /\ OwnerDay(i)' = today[u]
      BY <1>1, <1>2, <2>1 DEF Exists, OwnerDay
    <2>6. QED
      BY <1>2, <2>1, <2>2, <2>4, <2>5 DEF Fate, Regenerated
  <1>5. QED
    BY <1>3, <1>4

LEMMA UpdateFate ==
    ASSUME TypeOK, NEW i \in Ids, NEW j \in Ids, NEW changes \in Edits, Update(j, changes)
    PROVE  Fate(i)
  <1> DEFINE c == commitments[j]
             updated == Merge(c, changes)
  <1>1. Live(j) /\ Exists(j) /\ UNCHANGED today /\ commitments' = [commitments EXCEPT ![j] = updated]
    BY DEF Update, Live
  <1>2. c \in Commitment /\ OwnerDay(j) \in Int
    BY <1>1, OwnerDayIsADay
  <1>3. updated \in Commitment /\ updated # None /\ updated.user_id = c.user_id
    <2>1. "user_id" \notin DOMAIN changes
      BY CommitmentAssumption
    <2>2. QED
      BY <1>2, <2>1, MergeType, RecordAssumption DEF Merge, Get, Commitment
  <1>4. \/ /\ rows' = [rows EXCEPT ![j] = Resync(updated, @, OwnerDay(j))]
           /\ synced' = [synced EXCEPT ![j] = OwnerDay(j)]
        \/ /\ ~Touches(changes, Rescheduling)
           /\ rows' = [rows EXCEPT ![j] = Forget(@, {"action_required"}, PendingDays(@))]
           /\ UNCHANGED synced
        \/ /\ ~Touches(changes, Rescheduling)
           /\ UNCHANGED <<rows, synced>>
    BY DEF Update, Touches
  <1>5. ~Touches(changes, Rescheduling) => Terms(updated) = Terms(c)
    BY <1>2, <1>3 DEF Touches, Rescheduling, Terms, Merge, Get, Commitment
  <1> HIDE DEF updated
  <1>6. CASE i # j
    <2>1. /\ commitments'[i] = commitments[i] /\ rows'[i] = rows[i]
          /\ synced'[i] = synced[i]
      BY <1>1, <1>4, <1>6 DEF TypeOK
    <2>2. QED
      BY <2>1 DEF Fate, LeftAlone, SameTerms, Exists
  <1>7. CASE i = j
    <2>1. commitments'[i] = updated /\ Exists(i)'
      BY <1>1, <1>3, <1>7 DEF TypeOK, Exists
    <2>2. OwnerDay(i)' = OwnerDay(j)
      BY <1>1, <1>3, <1>7, <2>1 DEF OwnerDay
    <2>3. CASE /\ rows' = [rows EXCEPT ![j] = Resync(updated, @, OwnerDay(j))]
               /\ synced' = [synced EXCEPT ![j] = OwnerDay(j)]
      <3>1. /\ rows'[i] = Resync(updated, rows[i], OwnerDay(j))
            /\ synced'[i] = OwnerDay(j)
        BY <1>7, <2>3 DEF TypeOK
      <3>2. QED
        BY <1>1, <1>3, <1>7, <2>1, <2>2, <3>1 DEF Fate, Regenerated
    <2>4. CASE /\ ~Touches(changes, Rescheduling)
               /\ rows' = [rows EXCEPT ![j] = Forget(@, {"action_required"}, PendingDays(@))]
               /\ UNCHANGED synced
      <3>1. rows'[i] = Forget(rows[i], {"action_required"}, PendingDays(rows[i]))
        BY <1>7, <2>4 DEF TypeOK
      <3>2. SameTerms(i)
        BY <1>1, <1>5, <1>7, <2>1, <2>4 DEF SameTerms
      <3>3. QED
        BY <2>4, <3>1, <3>2 DEF Fate, Forgotten
    <2>5. CASE ~Touches(changes, Rescheduling) /\ UNCHANGED <<rows, synced>>
      <3>1. SameTerms(i)
        BY <1>1, <1>5, <1>7, <2>1, <2>5 DEF SameTerms
      <3>2. QED
        BY <2>5, <3>1 DEF Fate, LeftAlone
    <2>6. QED
      BY <1>4, <2>3, <2>4, <2>5
  <1>8. QED
    BY <1>6, <1>7

LEMMA StatusFate ==
    ASSUME TypeOK, NEW i \in Ids, NEW u \in Users, NEW ids \in SUBSET Ids,
           NEW status \in Statuses, SetStatusMany(u, ids, status)
    PROVE  Fate(i)
  <1>1. PICK changed \in SUBSET {j \in Ids : Live(j) /\ j \in Owned(u)} :
          /\ commitments' = [j \in Ids |->
                IF j \in changed THEN [commitments[j] EXCEPT !.status = status]
                                 ELSE commitments[j]]
          /\ rows' = [j \in Ids |->
                IF j \in changed
                THEN Resync([commitments[j] EXCEPT !.status = status], rows[j], today[u])
                ELSE rows[j]]
          /\ synced' = [j \in Ids |-> IF j \in changed THEN today[u] ELSE synced[j]]
          /\ UNCHANGED <<day, today>>
    BY ChangedAreLive
  <1>2. CASE i \notin changed
    BY <1>1, <1>2 DEF Fate, LeftAlone, SameTerms, Exists
  <1>3. CASE i \in changed
    <2> DEFINE c == [commitments[i] EXCEPT !.status = status]
    <2>1. commitments[i] \in Commitment /\ Exists(i) /\ commitments[i].user_id = u
      BY <1>3, OwnerDayIsADay DEF Live, Owned
    <2>2. c \in Commitment /\ c # None /\ c.user_id = u
      BY <2>1, RecordAssumption DEF Commitment
    <2>3. /\ commitments'[i] = c /\ synced'[i] = today[u]
          /\ rows'[i] = Resync(c, rows[i], today[u])
      BY <1>1, <1>3
    <2> HIDE DEF c
    <2>4. Exists(i)' /\ OwnerDay(i)' = today[u]
      BY <1>1, <2>2, <2>3 DEF Exists, OwnerDay
    <2>5. QED
      BY <1>1, <2>1, <2>2, <2>3, <2>4 DEF Fate, Regenerated
  <1>4. QED
    BY <1>2, <1>3

LEMMA TrashFate ==
    ASSUME TypeOK, NEW i \in Ids, NEW at \in Int \cup {None}, NEW batch \in SUBSET Ids,
           commitments' = [j \in Ids |->
              IF j \in batch THEN [commitments[j] EXCEPT !.deleted_at = at]
                             ELSE commitments[j]],
           \A j \in batch : Exists(j),
           UNCHANGED <<rows, synced>>
    PROVE  Fate(i)
  <1>1. CASE i \in batch
    <2> DEFINE c == [commitments[i] EXCEPT !.deleted_at = at]
    <2>1. commitments[i] \in Commitment /\ Exists(i)
      BY <1>1, OwnerDayIsADay
    <2>2. c \in Commitment /\ c # None /\ Terms(c) = Terms(commitments[i])
      BY <2>1, RecordAssumption DEF Commitment, Terms
    <2>3. commitments'[i] = c
      BY <1>1
    <2> HIDE DEF c
    <2>4. QED
      BY <2>1, <2>2, <2>3 DEF Fate, LeftAlone, SameTerms, Exists
  <1>2. CASE i \notin batch
    BY <1>2 DEF Fate, LeftAlone, SameTerms, Exists
  <1>3. QED
    BY <1>1, <1>2

LEMMA DailyFate ==
    ASSUME TypeOK, NEW i \in Ids, DailyGeneration
    PROVE  Fate(i)
  <1>1. PICK batch \in SUBSET {j \in Ids : InTrash(j)} :
          /\ commitments' = Erased(commitments, batch)
          /\ rows' = [j \in Ids |->
                IF Live(j) THEN Sync(commitments[j], Forget(ErasedRows(batch)[j], Kinds, OldDays), day)
                           ELSE Forget(ErasedRows(batch)[j], Kinds, OldDays)]
          /\ synced' = [j \in Ids |-> IF Live(j) /\ synced[j] < day THEN day ELSE synced[j]]
          /\ UNCHANGED <<day, today>>
    BY DEF DailyGeneration, Purgeable, OldDays
  <1>2. CASE i \in batch
    <2>1. ~Live(i) /\ ErasedRows(batch)[i] = NoRows /\ commitments'[i] = None
      BY <1>1, <1>2 DEF ErasedRows, Erased, Live, InTrash
    <2>2. rows'[i] = Forget(NoRows, Kinds, OldDays)
      BY <1>1, <2>1
    <2>3. QED
      BY <2>1, <2>2, ForgetNothing DEF Fate, Gone
  <1>3. CASE i \notin batch
    <2>1. ErasedRows(batch)[i] = rows[i] /\ commitments'[i] = commitments[i]
      BY <1>1, <1>3 DEF ErasedRows, Erased
    <2>2. CASE Live(i)
      BY <1>1, <2>1, <2>2 DEF Fate, RunDaily
    <2>3. CASE ~Live(i)
      BY <1>1, <2>1, <2>3 DEF Fate, Forgotten, SameTerms, Exists
    <2>4. QED
      BY <2>2, <2>3
  <1>4. QED
    BY <1>2, <1>3

LEMMA OccurrenceFate ==
    ASSUME TypeOK, NEW i \in Ids, NEW j \in Ids, NEW d \in Day,
           \/ \E changes \in RowEdits : UpdateOccurrence(j, d, changes)
           \/ \E kind \in Kinds : MarkReminded(j, d, kind)
    PROVE  Fate(i)
  <1>1. UNCHANGED <<commitments, today, synced>>
    BY DEF UpdateOccurrence, MarkReminded
  <1>2. CASE i = j
    BY <1>1, <1>2 DEF Fate, Touched
  <1>3. CASE i # j
    <2>1. rows'[i] = rows[i]
      BY <1>3 DEF UpdateOccurrence, MarkReminded, TypeOK
    <2>2. QED
      BY <1>1, <2>1 DEF Fate, LeftAlone, SameTerms, Exists
  <1>4. QED
    BY <1>2, <1>3

\* One of the six, whatever the step.
LEMMA StepFate ==
    ASSUME TypeOK, RowsHaveCommitment, [Next]_vars, NEW i \in Ids
    PROVE  Fate(i)
  <1> USE DEF TypeOK
  <1>1. ASSUME NEW u \in Users, NEW ids \in SUBSET Ids, DeleteMany(u, ids)
        PROVE  Fate(i)
    <2>1. day \in Int \cup {None} /\ {j \in ids \cap Owned(u) : Live(j)} \in SUBSET Ids
      OBVIOUS
    <2>2. QED
      BY <1>1, <2>1, TrashFate DEF DeleteMany, SoftDelete, Live
  <1>2. ASSUME NEW u \in Users, NEW type \in Types \cup {None},
               NEW status \in Statuses \cup {None}, DeleteAll(u, type, status)
        PROVE  Fate(i)
    <2> DEFINE batch == {j \in Owned(u) : /\ Live(j)
                                          /\ type \in {None, commitments[j].type}
                                          /\ status \in {None, commitments[j].status}}
    <2>1. day \in Int \cup {None} /\ batch \in SUBSET Ids
      BY DEF Owned
    <2>2. QED
      BY <1>2, <2>1, TrashFate DEF DeleteAll, SoftDelete, Live
  <1>3. ASSUME NEW u \in Users, NEW ids \in SUBSET Ids, Restore(u, ids)
        PROVE  Fate(i)
    <2>1. {j \in ids \cap Owned(u) : InTrash(j)} \in SUBSET Ids
      OBVIOUS
    <2>2. QED
      BY <1>3, <2>1, TrashFate DEF Restore, InTrash
  <1>4. ASSUME NEW u \in Users, NEW type \in Types \cup {None}, PurgeNow(u, type)
        PROVE  Fate(i)
    BY <1>4 DEF PurgeNow, Erased, ErasedRows, Fate, Gone, LeftAlone, SameTerms, Exists
  <1>5. UNCHANGED <<commitments, rows, synced>> => Fate(i)
    BY DEF Fate, LeftAlone, SameTerms, Exists
  <1>6. ASSUME NEW u \in Users, LocalMidnight(u) \/ ChangeTimezone(u)
        PROVE  Fate(i)
    BY <1>5, <1>6 DEF LocalMidnight, ChangeTimezone
  <1>7. ServerMidnight \/ UNCHANGED vars => Fate(i)
    BY <1>5 DEF ServerMidnight, vars
  <1>8. QED
    BY <1>1, <1>2, <1>3, <1>4, <1>6, <1>7, CreateFate, UpdateFate, StatusFate,
       DailyFate, OccurrenceFate DEF Next

-----------------------------------------------------------------------------
(* What is kept along the way.                                             *)

\* The day of an account goes on, but for those that change their zone.
LEMMA DaysGoOn ==
    ASSUME TypeOK, [Next]_vars, NEW u \in Users, u \notin Travellers
    PROVE  today[u] \in Int /\ today[u] <= today'[u]
  <1>1. today[u] \in Int
    BY DEF TypeOK
  <1>2. UNCHANGED today => today[u] <= today'[u]
    BY <1>1
  <1>3. ASSUME NEW v \in Users, LocalMidnight(v)
        PROVE  today[u] <= today'[u]
    BY <1>1, <1>3 DEF LocalMidnight, TypeOK
  <1>4. ASSUME NEW v \in Users, ChangeTimezone(v)
        PROVE  today[u] <= today'[u]
    BY <1>1, <1>4 DEF ChangeTimezone, TypeOK
  <1>5. ASSUME ~\E v \in Users : LocalMidnight(v) \/ ChangeTimezone(v)
        PROVE  UNCHANGED today
    <2>1. ASSUME NEW v, NEW i, NEW payload, Create(v, i, payload)
          PROVE  UNCHANGED today
      BY <2>1 DEF Create
    <2>2. ASSUME NEW i, NEW changes, Update(i, changes)
          PROVE  UNCHANGED today
      BY <2>2 DEF Update
    <2>3. ASSUME NEW v, NEW ids, NEW status, SetStatusMany(v, ids, status)
          PROVE  UNCHANGED today
      BY <2>3 DEF SetStatusMany
    <2>4. ASSUME NEW v, NEW ids, DeleteMany(v, ids) \/ Restore(v, ids)
          PROVE  UNCHANGED today
      BY <2>4 DEF DeleteMany, SoftDelete, Restore
    <2>5. ASSUME NEW v, NEW type, NEW status, DeleteAll(v, type, status) \/ PurgeNow(v, type)
          PROVE  UNCHANGED today
      BY <2>5 DEF DeleteAll, SoftDelete, PurgeNow
    <2>6. ASSUME NEW i, NEW d, NEW changes, NEW kind,
                 UpdateOccurrence(i, d, changes) \/ MarkReminded(i, d, kind)
          PROVE  UNCHANGED today
      BY <2>6 DEF UpdateOccurrence, MarkReminded
    <2>7. DailyGeneration \/ ServerMidnight \/ UNCHANGED vars => UNCHANGED today
      BY DEF DailyGeneration, ServerMidnight, vars
    <2>8. QED
      BY <1>5, <2>1, <2>2, <2>3, <2>4, <2>5, <2>6, <2>7, Zenon DEF Next
  <1>6. QED
    BY <1>1, <1>2, <1>3, <1>4, <1>5

LEMMA OwnersDayGoesOn ==
    ASSUME TypeOK, [Next]_vars, NEW i \in Ids, Exists(i), Exists(i)',
           commitments'[i].user_id = commitments[i].user_id,
           commitments[i].user_id \notin Travellers
    PROVE  /\ OwnerDay(i) \in Int /\ OwnerDay(i)' = today'[commitments[i].user_id]
           /\ OwnerDay(i) <= OwnerDay(i)'
  <1>1. commitments[i].user_id \in Users
    BY OwnerDayIsADay DEF Commitment
  <1>2. QED
    BY <1>1, DaysGoOn DEF OwnerDay

\* Of the rows of a commitment, its owner changes one and a message marks one.
LEMMA TouchedRow ==
    ASSUME TypeOK, NEW i \in Ids, Touched(i), NEW d \in Day
    PROVE  \/ rows'[i][d] = rows[i][d]
           \/ /\ rows[i][d] \in Row /\ rows'[i][d] \in Row
              /\ \E kind \in Kinds :
                    rows'[i][d] = [rows[i][d] EXCEPT !.reminded = @ \cup {kind}]
           \/ /\ rows[i][d] \in Row /\ rows'[i][d] \in Row
              /\ \E changes \in RowEdits :
                    /\ UpdateOccurrence(i, d, changes)
                    /\ rows'[i][d].by_hand
                    /\ rows'[i][d].reminded = rows[i][d].reminded
                    /\ rows'[i][d].status = Get(changes, "status", rows[i][d].status)
                    /\ rows'[i][d].paid_on = Settled(rows[i][d], changes, OwnerDay(i))
  <1>1. PICK e \in Day :
          \/ \E changes \in RowEdits : UpdateOccurrence(i, e, changes)
          \/ \E kind \in Kinds : MarkReminded(i, e, kind)
    BY DEF Touched
  <1>2. CASE d # e
    BY <1>1, <1>2 DEF UpdateOccurrence, MarkReminded, TypeOK
  <1>3. ASSUME d = e, NEW kind \in Kinds, MarkReminded(i, e, kind)
        PROVE  /\ rows[i][d] \in Row /\ rows'[i][d] \in Row
               /\ rows'[i][d] = [rows[i][d] EXCEPT !.reminded = @ \cup {kind}]
    <2>1. rows[i][d] \in Row
      BY <1>3 DEF MarkReminded, IsPending, TypeOK
    <2>2. rows'[i][d] = [rows[i][d] EXCEPT !.reminded = @ \cup {kind}]
      BY <1>3 DEF MarkReminded, TypeOK
    <2>3. QED
      BY <2>1, <2>2 DEF Row
  <1>4. ASSUME d = e, NEW changes \in RowEdits, UpdateOccurrence(i, e, changes)
        PROVE  /\ rows[i][d] \in Row /\ rows'[i][d] \in Row
               /\ rows'[i][d].by_hand
               /\ rows'[i][d].reminded = rows[i][d].reminded
               /\ rows'[i][d].status = Get(changes, "status", rows[i][d].status)
               /\ rows'[i][d].paid_on = Settled(rows[i][d], changes, OwnerDay(i))
    <2> DEFINE row     == rows[i][d]
               status  == Get(changes, "status", row.status)
               amount  == Get(changes, "amount", row.amount)
               paid_on == Settled(row, changes, OwnerDay(i))
               after   == [row EXCEPT !.status = status, !.amount = amount,
                                      !.paid_on = paid_on, !.by_hand = TRUE]
    <2>1. row \in Row /\ OwnerDay(i) \in Int
      BY <1>4, OwnerDayIsADay DEF UpdateOccurrence, TypeOK, Live
    <2>2. /\ status \in {"pending", "paid", "skipped"} /\ amount \in Nat
          /\ paid_on \in Int \cup {None}
      BY <2>1, CommitmentAssumption DEF Settled, Get, Row
    <2>3. rows'[i][d] = after
      BY <1>4 DEF UpdateOccurrence, TypeOK
    <2> HIDE DEF status, amount, paid_on
    <2>4. /\ after \in Row /\ after.by_hand /\ after.reminded = row.reminded
          /\ after.status = status /\ after.paid_on = paid_on
      BY <2>1, <2>2 DEF Row
    <2> HIDE DEF after
    <2>5. QED
      BY <2>1, <2>3, <2>4 DEF status, paid_on
  <1>5. QED
    BY <1>1, <1>2, <1>3, <1>4

\* No row outlives its commitment.
LEMMA RowsStep ==
    ASSUME TypeOK, RowsHaveCommitment, [Next]_vars
    PROVE  RowsHaveCommitment'
  <1> SUFFICES ASSUME NEW i \in Ids, ~Exists(i)' PROVE rows'[i] = NoRows
    BY DEF RowsHaveCommitment, NoRows
  <1>1. CASE LeftAlone(i)
    BY <1>1 DEF LeftAlone, SameTerms, RowsHaveCommitment
  <1>2. CASE Forgotten(i)
    BY <1>2, ForgetNothing DEF Forgotten, SameTerms, RowsHaveCommitment
  <1>3. CASE RunDaily(i)
    BY <1>3 DEF RunDaily, Live, Exists
  <1>4. CASE Touched(i)
    BY <1>4 DEF Touched, UpdateOccurrence, MarkReminded, Live, Exists
  <1>5. QED
    BY <1>1, <1>2, <1>3, <1>4, StepFate DEF Fate, Regenerated, Gone

LEMMA RowsInit == Init => RowsHaveCommitment
  BY DEF Init, RowsHaveCommitment

-----------------------------------------------------------------------------
(* Nothing missing.                                                        *)

\* The trash counts as well: what is restored has missed nothing.
AllThere ==
    \A i \in Ids :
        LET c == commitments[i]
        IN  Exists(i) /\ c.status = "active" =>
            \A d \in DueDates(c.starts_on, c.frequency, c.ends_on,
                              synced[i], synced[i] + HorizonDays(c.frequency)) :
                rows[i][d] # None

LEMMA DueIsADay ==
    ASSUME NEW c \in Commitment, NEW floor \in Int,
           NEW d \in DueDates(c.starts_on, c.frequency, c.ends_on,
                              floor, floor + HorizonDays(c.frequency))
    PROVE  d \in Day /\ d \in DueDates(c.starts_on, c.frequency, c.ends_on, d, d)
  <1>1. c.starts_on \in Day /\ c.frequency \in Frequency
    BY DEF Commitment
  <1>2. floor + HorizonDays(c.frequency) \in Int
    BY <1>1, HorizonCovers
  <1>3. QED
    BY <1>1, <1>2, DueAnyWindow

\* A row that is there stays, but for a regeneration or with its commitment.
LEMMA RowStays ==
    ASSUME TypeOK, NEW i \in Ids, LeftAlone(i) \/ Forgotten(i) \/ Touched(i),
           NEW d \in Day, rows[i][d] # None
    PROVE  rows'[i][d] # None
  <1>1. CASE LeftAlone(i)
    BY <1>1 DEF LeftAlone
  <1>2. CASE Forgotten(i)
    <2>1. rows[i] \in [Day -> Row \cup {None}]
      BY DEF TypeOK
    <2>2. QED
      BY <1>2, <2>1, ForgetRow DEF Forgotten
  <1>3. CASE Touched(i)
    BY <1>3, TouchedRow, RecordAssumption
  <1>4. QED
    BY <1>1, <1>2, <1>3

LEMMA AllThereStep ==
    ASSUME TypeOK, TypeOK', RowsHaveCommitment, AllThere, [Next]_vars
    PROVE  AllThere'
  <1> SUFFICES ASSUME NEW i \in Ids, Exists(i)', commitments'[i].status = "active",
                      NEW d \in DueDates(commitments'[i].starts_on, commitments'[i].frequency,
                                         commitments'[i].ends_on, synced'[i],
                                         synced'[i] + HorizonDays(commitments'[i].frequency))
               PROVE  rows'[i][d] # None
    BY DEF AllThere
  <1> DEFINE c == commitments'[i]
  <1>1. c \in Commitment /\ synced'[i] \in Int /\ d \in Day
    <2>1. c \in Commitment /\ synced'[i] \in Int
      BY DEF TypeOK, Exists
    <2>2. QED
      BY <2>1, DueIsADay
  <1>2. ASSUME SameTerms(i), synced'[i] = synced[i]
        PROVE  rows[i][d] # None
    <2>1. /\ Exists(i) /\ commitments[i].status = "active"
          /\ commitments[i].starts_on = c.starts_on /\ commitments[i].frequency = c.frequency
          /\ commitments[i].ends_on = c.ends_on
      BY <1>2 DEF SameTerms, Terms
    <2>2. QED
      BY <1>2, <2>1 DEF AllThere
  <1>3. CASE LeftAlone(i) \/ Forgotten(i)
    BY <1>1, <1>2, <1>3, RowStays DEF LeftAlone, Forgotten
  <1>4. CASE Touched(i)
    BY <1>1, <1>2, <1>4, RowStays DEF Touched, SameTerms, Exists
  <1>5. CASE Regenerated(i)
    <2>1. rows[i] \in [Day -> Row \cup {None}]
      BY DEF TypeOK
    <2>2. rows'[i] = Resync(c, rows[i], synced'[i])
      BY <1>5 DEF Regenerated
    <2>3. QED
      BY <1>1, <2>1, <2>2, ResyncRow
  <1>6. CASE RunDaily(i)
    <2> DEFINE table == Forget(rows[i], Kinds, OldDays)
    <2>1. table \in [Day -> Row \cup {None}] /\ c = commitments[i] /\ Exists(i)
      BY <1>6, ForgetType DEF RunDaily, TypeOK, Live
    <2>2. rows'[i] = Sync(c, table, day)
      BY <1>6 DEF RunDaily
    <2>3. CASE synced[i] < day
      <3>1. synced'[i] = day
        BY <1>6, <2>3 DEF RunDaily
      <3> HIDE DEF table
      <3>2. QED
        BY <1>1, <2>1, <2>2, <3>1, SyncRow
    <2>4. CASE ~(synced[i] < day)
      <3>1. rows[i][d] # None
        BY <1>6, <2>1, <2>4 DEF RunDaily, AllThere
      <3>2. table[d] # None
        <4>1. rows[i] \in [Day -> Row \cup {None}]
          BY DEF TypeOK
        <4>2. QED
          BY <1>1, <3>1, <4>1, ForgetRow
      <3> HIDE DEF table
      <3>3. QED
        BY <1>1, <2>1, <2>2, <3>2, SyncRow
    <2>5. QED
      BY <2>3, <2>4
  <1>7. ~Gone(i)
    BY DEF Gone, Exists
  <1>8. QED
    BY <1>3, <1>4, <1>5, <1>6, <1>7, StepFate DEF Fate

\* Every due date of an active commitment has its row, up to the horizon of its
\* last generation, whatever was edited, paused, thrown away or restored since.
THEOREM NothingMissingTheorem == Spec => []NothingMissing
  <1>1. Init => RowsHaveCommitment /\ AllThere
    BY RowsInit DEF Init, AllThere, Exists
  <1>2. TypeOK /\ TypeOK' /\ RowsHaveCommitment /\ AllThere /\ [Next]_vars
          => RowsHaveCommitment' /\ AllThere'
    BY RowsStep, AllThereStep
  <1>3. AllThere => NothingMissing
    BY DEF AllThere, NothingMissing, Live
  <1>4. QED
    BY <1>1, <1>2, <1>3, CommitmentsType, PTL DEF Spec

\* The next due date of a recurring commitment is there for HorizonMargin days
\* after its last generation, for any calendar and any periods.
THEOREM NextDueTheorem == Spec => []NextDueVisible
  <1>1. TypeOK /\ NothingMissing => NextDueVisible
    <2> SUFFICES ASSUME TypeOK, NothingMissing, NEW i \in Ids,
                        Live(i), commitments[i].status = "active",
                        commitments[i].frequency \in Recurring,
                        synced[i] <= OwnerDay(i),
                        OwnerDay(i) <= synced[i] + HorizonMargin,
                        NEW d \in DueDates(commitments[i].starts_on, commitments[i].frequency,
                                     commitments[i].ends_on, OwnerDay(i),
                                     OwnerDay(i) + LongestPeriod[commitments[i].frequency])
                 PROVE  d \in Upcoming(i) \/ (rows[i][d] # None /\ ~IsPending(rows[i][d]))
      BY DEF NextDueVisible
    <2> DEFINE c == commitments[i]
    <2>1. c \in Commitment /\ OwnerDay(i) \in Int /\ synced[i] \in Int
      BY OwnerDayIsADay DEF Live, TypeOK
    <2>2. c.starts_on \in Day /\ c.frequency \in Frequency
      BY <2>1 DEF Commitment
    <2>3. /\ HorizonDays(c.frequency) \in Nat /\ LongestPeriod[c.frequency] \in Nat
          /\ LongestPeriod[c.frequency] + HorizonMargin <= HorizonDays(c.frequency)
          /\ HorizonMargin \in Nat
      BY <2>2, HorizonCovers, PeriodAssumption
    <2> DEFINE to == OwnerDay(i) + LongestPeriod[c.frequency]
               end == synced[i] + HorizonDays(c.frequency)
    <2>4. to \in Int /\ end \in Int /\ to <= end
      BY <2>1, <2>3
    <2> HIDE DEF to, end
    <2>5. d \in DueDates(c.starts_on, c.frequency, c.ends_on, OwnerDay(i), to)
      BY DEF to
    <2>6. d \in DueDates(c.starts_on, c.frequency, c.ends_on, synced[i], end)
      BY <2>1, <2>2, <2>4, <2>5, DueInWiderWindow
    <2>7. rows[i][d] # None
      BY <2>6 DEF NothingMissing, end
    <2>8. d \in Day /\ d >= OwnerDay(i)
      <3>1. d \in Day
        BY <2>1, <2>2, <2>4, <2>5, DueAnyWindow
      <3>2. c.frequency # "oneoff"
        BY DEF Recurring
      <3>3. d >= OwnerDay(i)
        BY <2>1, <2>4, <2>5, <3>2 DEF DueDates
      <3>4. QED
        BY <3>1, <3>3
    <2>9. CASE IsPending(rows[i][d])
      <3>1. d \in Day /\ Live(i) /\ IsPending(rows[i][d]) /\ d >= OwnerDay(i)
        BY <2>8, <2>9
      <3>2. d \in Upcoming(i)
        BY <3>1, Zenon DEF Upcoming
      <3>3. QED
        BY <3>2
    <2>10. QED
      BY <2>7, <2>9
  <1>2. QED
    BY <1>1, CommitmentsType, NothingMissingTheorem, PTL

-----------------------------------------------------------------------------
(* Nothing out of schedule.                                                *)

\* What a step leaves pending was pending, or is what the commitment says now.
LEMMA PendingStep ==
    ASSUME TypeOK, TypeOK', RowsHaveCommitment, [Next]_vars, NEW i \in Ids, Exists(i)',
           NEW d \in Day, IsPending(rows'[i][d]), ~rows'[i][d].by_hand,
           d >= OwnerDay(i)'
    PROVE  \/ /\ SameTerms(i)
              /\ IsPending(rows[i][d]) /\ ~rows[i][d].by_hand
              /\ rows[i][d].amount = rows'[i][d].amount
           \/ LET c == commitments'[i]
              IN  /\ c.status = "active"
                  /\ d \in DueDates(c.starts_on, c.frequency, c.ends_on, d, d)
                  /\ rows'[i][d].amount = c.amount
  <1> DEFINE c == commitments'[i]
  <1>1. /\ c \in Commitment /\ rows[i] \in [Day -> Row \cup {None}]
        /\ OwnerDay(i)' \in Int /\ day \in Int /\ d \in Int
    BY DayBounds DEF TypeOK, Exists, OwnerDay, Commitment
  <1>2. ASSUME NEW table \in [Day -> Row \cup {None}], NEW floor \in Int,
               rows'[i] = Sync(c, table, floor)
        PROVE  \/ rows'[i][d] = table[d] /\ table[d] # None
               \/ /\ c.status = "active"
                  /\ d \in DueDates(c.starts_on, c.frequency, c.ends_on, d, d)
                  /\ rows'[i][d].amount = c.amount
    <2>1. CASE table[d] # None
      BY <1>1, <1>2, <2>1, SyncRow
    <2>2. CASE table[d] = None
      <3>1. /\ rows'[i][d] = NewRow(c.amount) /\ c.status = "active"
            /\ d \in DueDates(c.starts_on, c.frequency, c.ends_on,
                              floor, floor + HorizonDays(c.frequency))
        BY <1>1, <1>2, <2>2, SyncRow DEF IsPending
      <3>2. NewRow(c.amount).amount = c.amount
        BY DEF NewRow
      <3>3. QED
        BY <1>1, <3>1, <3>2, DueIsADay
    <2>3. QED
      BY <2>1, <2>2
  <1>3. ASSUME NEW kinds, NEW days, rows'[i][d] = Forget(rows[i], kinds, days)[d]
        PROVE  /\ IsPending(rows[i][d]) /\ ~rows[i][d].by_hand
               /\ rows[i][d].amount = rows'[i][d].amount
    <2>1. rows[i][d] # None
      BY <1>1, <1>3, ForgetRow DEF IsPending
    <2> DEFINE table == rows[i]
               after == Forget(table, kinds, days)[d]
    <2>2. /\ rows'[i][d].status = rows[i][d].status
          /\ rows'[i][d].amount = rows[i][d].amount
          /\ rows'[i][d].by_hand = rows[i][d].by_hand
      <3>1. table \in [Day -> Row \cup {None}] /\ table[d] # None
        BY <1>1, <2>1
      <3> HIDE DEF table
      <3>2. /\ after.status = table[d].status /\ after.amount = table[d].amount
            /\ after.by_hand = table[d].by_hand
        BY <3>1, ForgetOne
      <3>3. rows'[i][d] = after
        BY <1>3 DEF table
      <3> HIDE DEF after
      <3>4. QED
        BY <3>2, <3>3 DEF table
    <2>3. ~rows[i][d].by_hand
      BY <2>2, Zenon
    <2>4. QED
      BY <2>1, <2>2, <2>3 DEF IsPending
  <1>4. CASE LeftAlone(i)
    BY <1>4 DEF LeftAlone
  <1>5. CASE Forgotten(i)
    BY <1>3, <1>5 DEF Forgotten
  <1>6. CASE Regenerated(i)
    <2> DEFINE floor == OwnerDay(i)'
               cut == DeletePendingFrom(rows[i], floor)
    <2>1. /\ cut \in [Day -> Row \cup {None}]
          /\ cut[d] = IF IsPending(rows[i][d]) /\ d >= floor THEN None ELSE rows[i][d]
      BY <1>1 DEF DeletePendingFrom
    <2>2. rows'[i] = Sync(c, cut, floor) /\ floor \in Int
      BY <1>1, <1>6 DEF Regenerated, Resync
    <2> HIDE DEF cut, floor
    <2>3. ~(rows'[i][d] = cut[d] /\ cut[d] # None)
      BY <2>1 DEF floor
    <2>4. QED
      BY <1>2, <2>1, <2>2, <2>3
  <1>7. CASE RunDaily(i)
    <2> DEFINE table == Forget(rows[i], Kinds, OldDays)
    <2>1. SameTerms(i) /\ rows'[i] = Sync(c, table, day)
      BY <1>7 DEF RunDaily, SameTerms, Exists
    <2>2. table \in [Day -> Row \cup {None}]
      BY <1>1, ForgetType
    <2>3. rows'[i][d] = table[d] =>
            /\ IsPending(rows[i][d]) /\ ~rows[i][d].by_hand
            /\ rows[i][d].amount = rows'[i][d].amount
      BY <1>3
    <2> HIDE DEF table
    <2>4. QED
      BY <1>1, <1>2, <2>1, <2>2, <2>3
  <1>8. CASE Touched(i)
    <2>1. ASSUME NEW row \in Row, NEW log
          PROVE  /\ [row EXCEPT !.reminded = log].status = row.status
                 /\ [row EXCEPT !.reminded = log].amount = row.amount
                 /\ [row EXCEPT !.reminded = log].by_hand = row.by_hand
      BY DEF Row
    <2>2. SameTerms(i)
      BY <1>8 DEF Touched, SameTerms, Exists
    <2>3. CASE rows'[i][d] = rows[i][d]
      BY <2>2, <2>3
    <2>4. ASSUME rows[i][d] \in Row, NEW kind \in Kinds,
                 rows'[i][d] = [rows[i][d] EXCEPT !.reminded = @ \cup {kind}]
          PROVE  /\ IsPending(rows[i][d]) /\ ~rows[i][d].by_hand
                 /\ rows[i][d].amount = rows'[i][d].amount
      <3>1. /\ rows'[i][d].status = rows[i][d].status
            /\ rows'[i][d].amount = rows[i][d].amount
            /\ rows'[i][d].by_hand = rows[i][d].by_hand
        BY <2>1, <2>4
      <3>2. ~rows[i][d].by_hand
        BY <3>1, Zenon
      <3>3. QED
        BY <2>4, <3>1, <3>2, RecordAssumption DEF IsPending
    <2>5. QED
      BY <1>8, <2>2, <2>3, <2>4, TouchedRow
  <1>9. ~Gone(i)
    BY DEF Gone, Exists
  <1>10. QED
    BY <1>4, <1>5, <1>6, <1>7, <1>8, <1>9, StepFate DEF Fate

LEMMA OnlyScheduledStep ==
    ASSUME TypeOK, TypeOK', RowsHaveCommitment, OnlyScheduled, [Next]_vars
    PROVE  OnlyScheduled'
  <1> SUFFICES ASSUME NEW i \in Ids, NEW d \in Day,
                      Exists(i)', commitments'[i].user_id \notin Travellers,
                      IsPending(rows'[i][d]), ~rows'[i][d].by_hand, d >= OwnerDay(i)'
               PROVE  LET c == commitments'[i]
                      IN  /\ c.status = "active"
                          /\ d \in DueDates(c.starts_on, c.frequency, c.ends_on, d, d)
                          /\ rows'[i][d].amount = c.amount
    BY DEF OnlyScheduled
  <1>1. CASE /\ SameTerms(i)
             /\ IsPending(rows[i][d]) /\ ~rows[i][d].by_hand
             /\ rows[i][d].amount = rows'[i][d].amount
    <2> DEFINE c == commitments[i]
    <2>1. /\ Exists(i) /\ commitments'[i].user_id = c.user_id
          /\ commitments'[i].status = c.status /\ commitments'[i].amount = c.amount
          /\ commitments'[i].frequency = c.frequency
          /\ commitments'[i].starts_on = c.starts_on /\ commitments'[i].ends_on = c.ends_on
      BY <1>1 DEF SameTerms, Terms
    <2>2. OwnerDay(i) \in Int /\ OwnerDay(i)' \in Int /\ OwnerDay(i) <= OwnerDay(i)' /\ d \in Int
      <3>1. OwnerDay(i) \in Int /\ OwnerDay(i) <= OwnerDay(i)'
        BY <2>1, OwnersDayGoesOn
      <3>2. OwnerDay(i)' \in Int /\ d \in Int
        BY DayBounds DEF TypeOK, Exists, OwnerDay, Commitment
      <3>3. QED
        BY <3>1, <3>2
    <2>3. d >= OwnerDay(i)
      BY <2>2
    <2>4. QED
      BY <1>1, <2>1, <2>3 DEF OnlyScheduled
  <1>2. QED
    BY <1>1, PendingStep

\* What is announced from today on is on the schedule, at the current amount,
\* whatever was edited, paused, restored or marked before.
THEOREM OnlyScheduledTheorem == Spec => []OnlyScheduled
  <1>1. Init => RowsHaveCommitment /\ OnlyScheduled
    BY RowsInit DEF Init, OnlyScheduled, Exists
  <1>2. TypeOK /\ TypeOK' /\ RowsHaveCommitment /\ OnlyScheduled /\ [Next]_vars
          => RowsHaveCommitment' /\ OnlyScheduled'
    BY RowsStep, OnlyScheduledStep
  <1>3. QED
    BY <1>1, <1>2, CommitmentsType, PTL DEF Spec

-----------------------------------------------------------------------------
(* Payments.                                                               *)

\* A row after a step is the row before, as far as payments go, or a new one,
\* or what its owner's request makes of it.
LEMMA PaymentStep ==
    ASSUME TypeOK, TypeOK', RowsHaveCommitment, [Next]_vars, NEW i \in Ids, NEW d \in Day,
           rows'[i][d] # None
    PROVE  \/ /\ Exists(i) /\ Exists(i)' /\ rows[i][d] # None
              /\ commitments'[i].user_id = commitments[i].user_id
              /\ rows'[i][d].status = rows[i][d].status
              /\ rows'[i][d].paid_on = rows[i][d].paid_on
           \/ rows'[i][d].status = "pending" /\ rows'[i][d].paid_on = None
           \/ \E changes \in RowEdits :
                 /\ UpdateOccurrence(i, d, changes)
                 /\ rows'[i][d].status = Get(changes, "status", rows[i][d].status)
                 /\ rows'[i][d].paid_on = Settled(rows[i][d], changes, OwnerDay(i))
  <1> DEFINE Same == /\ rows[i][d] # None
                     /\ rows'[i][d].status = rows[i][d].status
                     /\ rows'[i][d].paid_on = rows[i][d].paid_on
             New == rows'[i][d].status = "pending" /\ rows'[i][d].paid_on = None
  <1>1. rows[i] \in [Day -> Row \cup {None}] /\ Exists(i)'
    <2>1. RowsHaveCommitment'
      BY RowsStep
    <2>2. QED
      BY <2>1 DEF TypeOK, RowsHaveCommitment, NoRows
  <1>2. commitments'[i] \in Commitment
    BY <1>1 DEF TypeOK, Exists
  <1>3. rows[i][d] # None => Exists(i)
    BY DEF RowsHaveCommitment, NoRows
  <1>4. SameTerms(i) => commitments'[i].user_id = commitments[i].user_id
    BY <1>1 DEF SameTerms, Terms
  <1>5. NewRow(commitments'[i].amount).status = "pending"
        /\ NewRow(commitments'[i].amount).paid_on = None
    BY DEF NewRow
  <1>6. CASE LeftAlone(i)
    BY <1>3, <1>1, <1>4, <1>6 DEF LeftAlone
  <1>7. ASSUME NEW kinds, NEW days, rows'[i][d] = Forget(rows[i], kinds, days)[d]
        PROVE  Same
    <2>1. rows[i][d] # None
      BY <1>1, <1>7, ForgetRow
    <2>2. QED
      BY <1>1, <1>7, <2>1, ForgetOne
  <1>8. CASE Forgotten(i)
    BY <1>1, <1>3, <1>4, <1>7, <1>8 DEF Forgotten
  <1>9. CASE Regenerated(i)
    <2>1. \/ rows'[i][d] = rows[i][d]
          \/ rows'[i][d] = NewRow(commitments'[i].amount)
      BY <1>1, <1>2, <1>9, ResyncRow DEF Regenerated
    <2>2. QED
      BY <1>1, <1>3, <1>5, <1>9, <2>1 DEF Regenerated
  <1>10. CASE RunDaily(i)
    <2> DEFINE table == Forget(rows[i], Kinds, OldDays)
    <2>1. SameTerms(i) /\ rows'[i] = Sync(commitments'[i], table, day)
      BY <1>10 DEF RunDaily, SameTerms, Exists
    <2>2. table \in [Day -> Row \cup {None}]
      BY <1>1, ForgetType
    <2>3. rows'[i][d] = table[d] => Same
      BY <1>7
    <2> HIDE DEF table
    <2>4. \/ rows'[i][d] = table[d]
          \/ rows'[i][d] = NewRow(commitments'[i].amount)
      BY <1>2, <2>1, <2>2, SyncRow
    <2>5. QED
      BY <1>1, <1>3, <1>4, <1>5, <2>1, <2>3, <2>4
  <1>11. CASE Touched(i)
    <2>1. commitments'[i] = commitments[i]
      BY <1>11 DEF Touched
    <2>2. ASSUME NEW row \in Row, NEW log
          PROVE  /\ [row EXCEPT !.reminded = log].status = row.status
                 /\ [row EXCEPT !.reminded = log].paid_on = row.paid_on
      BY DEF Row
    <2>3. ASSUME rows[i][d] \in Row, NEW kind \in Kinds,
                 rows'[i][d] = [rows[i][d] EXCEPT !.reminded = @ \cup {kind}]
          PROVE  Same
      BY <2>2, <2>3, RecordAssumption
    <2>4. QED
      BY <1>1, <1>3, <1>11, <2>1, <2>3, TouchedRow
  <1>12. ~Gone(i)
    BY <1>1 DEF Gone, Exists
  <1>13. QED
    BY <1>6, <1>8, <1>9, <1>10, <1>11, <1>12, StepFate DEF Fate

LEMMA PaidStep ==
    ASSUME TypeOK, TypeOK', RowsHaveCommitment, PaidConsistent, [Next]_vars
    PROVE  PaidConsistent'
  <1> SUFFICES ASSUME NEW i \in Ids, NEW d \in Day, rows'[i][d] # None
               PROVE  /\ rows'[i][d].status = "paid" <=> rows'[i][d].paid_on # None
                      /\ rows'[i][d].paid_on # None /\ commitments'[i].user_id \notin Travellers
                           => rows'[i][d].paid_on <= OwnerDay(i)'
    BY DEF PaidConsistent
  <1>1. CASE /\ Exists(i) /\ Exists(i)' /\ rows[i][d] # None
             /\ commitments'[i].user_id = commitments[i].user_id
             /\ rows'[i][d].status = rows[i][d].status
             /\ rows'[i][d].paid_on = rows[i][d].paid_on
    <2>1. /\ rows[i][d].status = "paid" <=> rows[i][d].paid_on # None
          /\ rows[i][d].paid_on # None /\ commitments[i].user_id \notin Travellers
               => rows[i][d].paid_on <= OwnerDay(i)
      BY <1>1 DEF PaidConsistent
    <2>2. rows[i][d].paid_on \in Int \cup {None}
      BY <1>1 DEF TypeOK, Row
    <2>3. OwnerDay(i) \in Int /\ OwnerDay(i)' \in Int
      BY <1>1 DEF TypeOK, Exists, OwnerDay, Commitment
    <2>4. commitments[i].user_id \notin Travellers => OwnerDay(i) <= OwnerDay(i)'
      BY <1>1, OwnersDayGoesOn
    <2>5. QED
      BY <1>1, <2>1, <2>2, <2>3, <2>4
  <1>2. CASE rows'[i][d].status = "pending" /\ rows'[i][d].paid_on = None
    BY <1>2
  <1>3. ASSUME NEW changes \in RowEdits, UpdateOccurrence(i, d, changes),
               rows'[i][d].status = Get(changes, "status", rows[i][d].status),
               rows'[i][d].paid_on = Settled(rows[i][d], changes, OwnerDay(i))
        PROVE  /\ rows'[i][d].status = "paid" <=> rows'[i][d].paid_on # None
               /\ rows'[i][d].paid_on # None => rows'[i][d].paid_on <= OwnerDay(i)'
    <2>1. OwnerDay(i)' = OwnerDay(i) /\ OwnerDay(i) \in Int
      BY <1>3, OwnerDayIsADay DEF UpdateOccurrence, OwnerDay, Live
    <2>2. rows'[i][d].paid_on # None => rows'[i][d].paid_on <= OwnerDay(i)
      BY <1>3 DEF UpdateOccurrence
    <2>3. rows'[i][d].status = "paid" <=> rows'[i][d].paid_on # None
      BY <1>3, <2>1, NoneAssumption DEF Settled
    <2>4. QED
      BY <2>1, <2>2, <2>3
  <1>4. QED
    BY <1>1, <1>2, <1>3, PaymentStep

\* A payment has its day, not in the future, and only a payment has one,
\* whatever the sequence of corrections.
THEOREM PaidTheorem == Spec => []PaidConsistent
  <1>1. Init => RowsHaveCommitment /\ PaidConsistent
    BY RowsInit DEF Init, PaidConsistent, NoRows
  <1>2. TypeOK /\ TypeOK' /\ RowsHaveCommitment /\ PaidConsistent /\ [Next]_vars
          => RowsHaveCommitment' /\ PaidConsistent'
    BY RowsStep, PaidStep
  <1>3. QED
    BY <1>1, <1>2, CommitmentsType, PTL DEF Spec

-----------------------------------------------------------------------------
(* History.                                                                *)

LEMMA HistoryStep ==
    ASSUME TypeOK, TypeOK', RowsHaveCommitment, [Next]_vars, NEW i \in Ids, NEW d \in Day,
           rows[i][d] # None, ~IsPending(rows[i][d]) \/ d < OwnerDay(i)
    PROVE  \/ commitments'[i] = None
           \/ /\ rows'[i][d] # None
              /\ rows'[i][d] = [rows[i][d] EXCEPT !.reminded = rows'[i][d].reminded]
           \/ \E changes \in RowEdits : UpdateOccurrence(i, d, changes)
  <1> DEFINE row == rows[i][d]
             after == rows'[i][d]
             Same == after # None /\ after = [row EXCEPT !.reminded = after.reminded]
  <1>1. row \in Row /\ rows[i] \in [Day -> Row \cup {None}] /\ row # None
    BY DEF TypeOK
  <1>2. ASSUME NEW r \in Row
        PROVE  r = [r EXCEPT !.reminded = r.reminded]
    BY DEF Row
  <1>3. after = row => Same
    BY <1>1, <1>2
  <1>4. Exists(i)
    BY <1>1 DEF RowsHaveCommitment, NoRows
  <1>5. CASE LeftAlone(i)
    BY <1>3, <1>5 DEF LeftAlone
  <1>6. ASSUME NEW kinds, NEW days, after = Forget(rows[i], kinds, days)[d]
        PROVE  Same
    <2>1. after # None
      BY <1>1, <1>6, ForgetRow
    <2>2. after = [row EXCEPT !.reminded = after.reminded]
      BY <1>1, <1>6, ForgetExact
    <2>3. QED
      BY <2>1, <2>2
  <1>7. CASE Forgotten(i)
    BY <1>6, <1>7 DEF Forgotten
  <1>8. CASE Regenerated(i)
    <2>1. /\ rows'[i] = Resync(commitments'[i], rows[i], OwnerDay(i))
          /\ commitments'[i] \in Commitment /\ OwnerDay(i) \in Int
      BY <1>4, <1>8, OwnerDayIsADay DEF Regenerated, OwnerDay, TypeOK, Exists
    <2>2. ~(IsPending(row) /\ d >= OwnerDay(i))
      <3>1. d \in Int
        BY DayBounds
      <3>2. QED
        BY <2>1, <3>1
    <2>3. after = row
      BY <1>1, <2>1, <2>2, ResyncRow
    <2>4. QED
      BY <1>3, <2>3
  <1>9. CASE RunDaily(i)
    <2> DEFINE table == Forget(rows[i], Kinds, OldDays)
    <2>1. rows'[i] = Sync(commitments[i], table, day) /\ commitments[i] \in Commitment
      BY <1>4, <1>9, OwnerDayIsADay DEF RunDaily
    <2>2. table \in [Day -> Row \cup {None}] /\ table[d] # None
      BY <1>1, ForgetType, ForgetRow
    <2>3. after = table[d] => Same
      BY <1>6
    <2> HIDE DEF table, Same
    <2>4. after = table[d]
      BY <2>1, <2>2, SyncRow
    <2>5. QED
      BY <2>3, <2>4 DEF Same
  <1>10. CASE Touched(i)
    <2>1. ASSUME NEW kind, after = [row EXCEPT !.reminded = @ \cup {kind}], after \in Row
          PROVE  Same
      <3>1. ASSUME NEW r \in Row, NEW log
            PROVE  [r EXCEPT !.reminded = log].reminded = log
        BY DEF Row
      <3>2. after.reminded = row.reminded \cup {kind}
        BY <1>1, <2>1, <3>1
      <3>3. QED
        BY <2>1, <3>2, RecordAssumption
    <2>2. QED
      BY <1>3, <1>10, <2>1, TouchedRow
  <1>11. QED
    BY <1>5, <1>7, <1>8, <1>9, <1>10, StepFate DEF Fate, Gone

\* What was settled, and what is past, is never rewritten but by its owner's
\* own request.
THEOREM HistoryTheorem == Spec => HistoryKept
  <1>1. Init => RowsHaveCommitment
    BY RowsInit
  <1>2. TypeOK /\ RowsHaveCommitment /\ [Next]_vars => RowsHaveCommitment'
    BY RowsStep
  <1>3. TypeOK /\ TypeOK' /\ RowsHaveCommitment /\ [Next]_vars =>
          [\A i \in Ids, d \in Day :
              LET row == rows[i][d]
              IN  /\ row # None
                  /\ ~IsPending(row) \/ d < OwnerDay(i)
                  => \/ commitments'[i] = None
                     \/ rows'[i][d] # None
                        /\ rows'[i][d] = [row EXCEPT !.reminded = rows'[i][d].reminded]
                     \/ \E changes \in RowEdits : UpdateOccurrence(i, d, changes)]_vars
    BY HistoryStep
  <1>4. QED
    BY <1>1, <1>2, <1>3, CommitmentsType, PTL DEF Spec, HistoryKept

LEMMA LogStep ==
    ASSUME TypeOK, TypeOK', RowsHaveCommitment, [Next]_vars, NEW i \in Ids, NEW d \in Day,
           rows[i][d] # None, rows'[i][d] # None,
           NEW kind \in rows[i][d].reminded \ rows'[i][d].reminded
    PROVE  \/ d < day - PurgeLogAfter
           \/ IsPending(rows[i][d]) /\ d >= OwnerDay(i)
           \/ kind = "action_required" /\ IsPending(rows[i][d])
  <1> DEFINE row == rows[i][d]
             after == rows'[i][d]
  <1>1. row \in Row /\ rows[i] \in [Day -> Row \cup {None}] /\ row # None
    BY DEF TypeOK
  <1>2. Exists(i) /\ after # row
    BY <1>1 DEF RowsHaveCommitment, NoRows
  <1>3. ASSUME NEW kinds, NEW days, after = Forget(rows[i], kinds, days)[d]
        PROVE  kind \in kinds /\ d \in days
    BY <1>1, <1>3, ForgetOne
  <1>4. CASE Forgotten(i)
    BY <1>3, <1>4 DEF Forgotten, PendingDays, OldDays
  <1>5. CASE Regenerated(i)
    <2>1. /\ rows'[i] = Resync(commitments'[i], rows[i], OwnerDay(i))
          /\ commitments'[i] \in Commitment
      BY <1>2, <1>5 DEF Regenerated, OwnerDay, TypeOK, Exists
    <2>2. QED
      BY <1>1, <1>2, <2>1, ResyncRow
  <1>6. CASE RunDaily(i)
    <2> DEFINE table == Forget(rows[i], Kinds, OldDays)
    <2>1. rows'[i] = Sync(commitments[i], table, day) /\ commitments[i] \in Commitment
      BY <1>2, <1>6, OwnerDayIsADay DEF RunDaily
    <2>2. table \in [Day -> Row \cup {None}] /\ table[d] # None
      BY <1>1, ForgetType, ForgetRow
    <2>3. after = table[d] => d \in OldDays
      BY <1>3
    <2> HIDE DEF table
    <2>4. after = table[d]
      BY <2>1, <2>2, SyncRow
    <2>5. QED
      BY <2>3, <2>4 DEF OldDays
  <1>7. CASE Touched(i)
    <2>1. ASSUME NEW r \in Row, NEW log
          PROVE  [r EXCEPT !.reminded = log].reminded = log
      BY DEF Row
    <2>2. ASSUME NEW k, after = [row EXCEPT !.reminded = @ \cup {k}]
          PROVE  FALSE
      BY <1>1, <2>1, <2>2
    <2>3. after.reminded # row.reminded
      OBVIOUS
    <2>4. QED
      BY <1>2, <1>7, <2>2, <2>3, TouchedRow
  <1>8. QED
    BY <1>2, <1>4, <1>5, <1>6, <1>7, StepFate DEF Fate, LeftAlone, Gone, NoRows

\* The log of a row loses a family only when the row is announced anew or is
\* too old to be announced at all.
THEOREM LogTheorem == Spec => LogIsKept
  <1>1. Init => RowsHaveCommitment
    BY RowsInit
  <1>2. TypeOK /\ RowsHaveCommitment /\ [Next]_vars => RowsHaveCommitment'
    BY RowsStep
  <1>3. TypeOK /\ TypeOK' /\ RowsHaveCommitment /\ [Next]_vars =>
          [\A i \in Ids, d \in Day :
              rows[i][d] # None /\ rows'[i][d] # None =>
              \A kind \in rows[i][d].reminded \ rows'[i][d].reminded :
                  \/ d < day - PurgeLogAfter
                  \/ /\ IsPending(rows[i][d])
                     /\ d >= OwnerDay(i)
                  \/ kind = "action_required" /\ IsPending(rows[i][d])]_vars
    BY LogStep
  <1>4. QED
    BY <1>1, <1>2, <1>3, CommitmentsType, PTL DEF Spec, LogIsKept

\* What Population calls a change erases nothing.
LEMMA ChangeErasesNothing ==
    ASSUME TypeOK, Abstract!Change, NEW i \in Ids, Exists(i)
    PROVE  commitments'[i] # None
  <1>1. Where[i] # None /\ Where[i] = Standing(commitments[i])
    BY OwnerDayIsADay, StandingType DEF Where
  <1>2. Abstract!Kept(i) \/ Abstract!Binned(i)
    BY <1>1 DEF Where, Abstract!Kept, Abstract!Binned
  <1>3. Where'[i] = IF commitments'[i] # None THEN Standing(commitments'[i]) ELSE None
    BY DEF Where, Exists
  <1>4. Where'[i] # None
    BY <1>1, <1>2 DEF Where, Abstract!Change
  <1>5. QED
    BY <1>3, <1>4

LEMMA PurgeStep ==
    ASSUME TypeOK, TypeOK', [Next]_vars, NEW i \in Ids, Exists(i), commitments'[i] = None
    PROVE  /\ InTrash(i)
           /\ \/ commitments[i].deleted_at + PurgeAfter <= day
              \/ \E type \in Types \cup {None} : PurgeNow(commitments[i].user_id, type)
  <1>1. commitments[i] \in Commitment /\ ~Abstract!Change
    BY OwnerDayIsADay, ChangeErasesNothing
  <1>2. ~UNCHANGED commitments
    BY DEF Exists
  <1>3. ASSUME NEW u \in Users, NEW ids \in SUBSET Ids, Restore(u, ids)
        PROVE  FALSE
    <2>1. [commitments[i] EXCEPT !.deleted_at = None] # None
      BY <1>1, RecordAssumption DEF Commitment
    <2>2. QED
      BY <1>3, <2>1 DEF Restore, Exists
  <1>4. ASSUME NEW u \in Users, NEW type \in Types \cup {None}, PurgeNow(u, type)
        PROVE  InTrash(i) /\ commitments[i].user_id = u
    BY <1>4 DEF PurgeNow, Erased, Owned, Exists
  <1>5. CASE DailyGeneration
    <2>1. i \in Purgeable
      BY <1>5 DEF DailyGeneration, Erased, Exists
    <2>2. /\ InTrash(i) /\ commitments[i].deleted_at <= day - PurgeAfter
          /\ commitments[i].deleted_at \in Int /\ day \in Int /\ PurgeAfter \in Int
      BY <1>1, <2>1, CommitmentAssumption DEF Purgeable, InTrash, Commitment, TypeOK
    <2>3. QED
      BY <2>2
  <1>6. ASSUME NEW u \in Users, NEW ids \in SUBSET Ids, DeleteMany(u, ids)
        PROVE  FALSE
    BY <1>1, <1>6, DeleteIsChange DEF DeleteMany, Owned
  <1>7. ASSUME NEW u \in Users, NEW type \in Types \cup {None},
               NEW status \in Statuses \cup {None}, DeleteAll(u, type, status)
        PROVE  FALSE
    BY <1>1, <1>7, DeleteIsChange DEF DeleteAll, Owned
  <1>8. ASSUME NEW j \in Ids, NEW d \in Day, NEW changes, NEW kind,
               UpdateOccurrence(j, d, changes) \/ MarkReminded(j, d, kind)
        PROVE  FALSE
    BY <1>2, <1>8 DEF UpdateOccurrence, MarkReminded
  <1>9. ASSUME NEW u \in Users, LocalMidnight(u) \/ ChangeTimezone(u)
        PROVE  FALSE
    BY <1>2, <1>9 DEF LocalMidnight, ChangeTimezone
  <1>10. ~ServerMidnight /\ ~UNCHANGED vars
    BY <1>2 DEF ServerMidnight, vars
  <1>11. QED
    BY <1>1, <1>3, <1>4, <1>5, <1>6, <1>7, <1>8, <1>9, <1>10, CreateIsChange,
       UpdateIsChange, StatusIsChange DEF Next

\* Nothing is erased for good but a trash, emptied by its owner or left long
\* enough.
THEOREM PurgeTheorem == Spec => OnlyTrashIsPurged
  <1>1. TypeOK /\ TypeOK' /\ [Next]_vars =>
          [\A i \in Ids : Exists(i) /\ commitments'[i] = None =>
              /\ InTrash(i)
              /\ \/ commitments[i].deleted_at + PurgeAfter <= day
                 \/ \E type \in Types \cup {None} :
                       PurgeNow(commitments[i].user_id, type)]_vars
    BY PurgeStep
  <1>2. QED
    BY <1>1, CommitmentsType, PTL DEF Spec, OnlyTrashIsPurged

-----------------------------------------------------------------------------
(* No row before the owner's day.                                          *)

LEMMA DueFromFloor ==
    ASSUME NEW c \in Commitment, c.frequency # "oneoff", NEW floor \in Int,
           NEW d \in DueDates(c.starts_on, c.frequency, c.ends_on,
                              floor, floor + HorizonDays(c.frequency))
    PROVE  floor <= d
  BY DEF DueDates

\* The two that write rows are a regeneration, from the owner's day, and the
\* daily job, from the server's.
LEMMA BackfillStep ==
    ASSUME TypeOK, TypeOK', RowsHaveCommitment, [Next]_vars, NEW i \in Ids, NEW d \in Day,
           rows[i][d] = None, rows'[i][d] # None
    PROVE  \/ commitments'[i].frequency = "oneoff"
           \/ d >= today[commitments'[i].user_id]
           \/ /\ DailyGeneration
              /\ d = day
              /\ today[commitments'[i].user_id] = day + 1
  <1> DEFINE c == commitments'[i]
  <1>1. rows[i] \in [Day -> Row \cup {None}]
    BY DEF TypeOK
  <1>2. ~LeftAlone(i)
    BY DEF LeftAlone
  <1>3. ~Gone(i)
    BY DEF Gone, NoRows
  <1>4. ~Forgotten(i)
    BY <1>1, ForgetRow DEF Forgotten
  <1>5. ~Touched(i)
    BY TouchedRow, RecordAssumption
  <1>6. CASE Regenerated(i)
    <2>1. /\ c \in Commitment /\ c.user_id \in Users
          /\ OwnerDay(i)' = today[c.user_id] /\ today[c.user_id] \in Int
      BY <1>6 DEF Regenerated, TypeOK, Exists, OwnerDay, Commitment
    <2>2. rows'[i] = Resync(c, rows[i], today[c.user_id])
      BY <1>6, <2>1 DEF Regenerated
    <2> HIDE DEF c
    <2>3. d \in DueDates(c.starts_on, c.frequency, c.ends_on, today[c.user_id],
                         today[c.user_id] + HorizonDays(c.frequency))
      BY <1>1, <2>1, <2>2, ResyncRow
    <2>4. c.frequency = "oneoff" \/ today[c.user_id] <= d
      BY <2>1, <2>3, DueFromFloor
    <2>5. QED
      BY <2>1, <2>4 DEF c
  <1>7. CASE RunDaily(i)
    <2> DEFINE kept == Forget(rows[i], Kinds, OldDays)
    <2>1. /\ DailyGeneration /\ c = commitments[i] /\ c \in Commitment
          /\ rows'[i] = Sync(c, kept, day)
      BY <1>7, OwnerDayIsADay DEF RunDaily, Live
    <2>2. kept \in [Day -> Row \cup {None}] /\ kept[d] = None
      BY <1>1, ForgetType, ForgetRow
    <2>3. /\ day \in Int /\ c.user_id \in Users /\ today[c.user_id] \in Int
          /\ today[c.user_id] - day \in -1 .. 1
      BY <2>1, CommitmentAssumption DEF TypeOK, Commitment
    <2> HIDE DEF c, kept
    <2>4. d \in DueDates(c.starts_on, c.frequency, c.ends_on, day,
                         day + HorizonDays(c.frequency))
      BY <2>1, <2>2, <2>3, SyncRow
    <2>5. c.frequency = "oneoff" \/ day <= d
      BY <2>1, <2>3, <2>4, DueFromFloor
    <2>6. d \in Int
      BY DayBounds
    <2>7. \/ c.frequency = "oneoff"
          \/ d >= today[c.user_id]
          \/ d = day /\ today[c.user_id] = day + 1
      BY <2>3, <2>5, <2>6
    <2>8. QED
      BY <2>1, <2>7 DEF c
  <1>8. QED
    BY <1>2, <1>3, <1>4, <1>5, <1>6, <1>7, StepFate DEF Fate

\* A row before its owner's day is the daily job's, for the day that has ended
\* where its owner is and not yet where the server is.
THEOREM BackfillTheorem == Spec => OnlyTheJobBackfills
  <1>1. TypeOK /\ TypeOK' /\ RowsHaveCommitment /\ [Next]_vars =>
          [\A i \in Ids, d \in Day :
             rows[i][d] = None /\ rows'[i][d] # None =>
                \/ commitments'[i].frequency = "oneoff"
                \/ d >= today[commitments'[i].user_id]
                \/ /\ DailyGeneration
                   /\ d = day
                   /\ today[commitments'[i].user_id] = day + 1]_vars
    BY BackfillStep
  <1>2. RowsHaveCommitment /\ TypeOK /\ [Next]_vars => RowsHaveCommitment'
    BY RowsStep
  <1>3. QED
    BY <1>1, <1>2, RowsInit, CommitmentsType, PTL DEF Spec, OnlyTheJobBackfills

LEMMA NobodyAheadStep ==
    ASSUME TypeOK, TypeOK', RowsHaveCommitment, NobodyAhead, [Next]_vars,
           NEW i \in Ids, NEW d \in Day, rows[i][d] = None, rows'[i][d] # None
    PROVE  \/ commitments'[i].frequency = "oneoff"
           \/ d >= today[commitments'[i].user_id]
  <1>1. Exists(i)'
    BY RowsStep DEF RowsHaveCommitment, NoRows
  <1>2. commitments'[i].user_id \in Users
    BY <1>1 DEF TypeOK, Exists, Commitment
  <1>3. today[commitments'[i].user_id] <= day /\ day \in Int
    BY <1>2 DEF NobodyAhead, TypeOK
  <1>4. QED
    BY <1>3, BackfillStep

\* Where no account is ahead of the server, as for every zone west of it, the
\* README's sentence holds: nothing is generated before the owner's day.
THEOREM NoBackfillTheorem == Spec /\ []NobodyAhead => NoBackfill
  <1>1. TypeOK /\ TypeOK' /\ RowsHaveCommitment /\ NobodyAhead /\ [Next]_vars =>
          [\A i \in Ids, d \in Day :
             rows[i][d] = None /\ rows'[i][d] # None =>
                \/ commitments'[i].frequency = "oneoff"
                \/ d >= today[commitments'[i].user_id]]_vars
    BY NobodyAheadStep
  <1>2. RowsHaveCommitment /\ TypeOK /\ [Next]_vars => RowsHaveCommitment'
    BY RowsStep
  <1>3. QED
    BY <1>1, <1>2, RowsInit, CommitmentsType, PTL DEF Spec, NoBackfill
=============================================================================
