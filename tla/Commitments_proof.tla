-------------------------- MODULE Commitments_proof --------------------------
(***************************************************************************)
(* For any number of accounts and commitments, any ceiling and any payload *)
(* within the schema: the tables keep their types and no sequence of       *)
(* requests takes a population over the roof, nor, without a restoration,  *)
(* over the ceiling.                                                       *)
(***************************************************************************)
EXTENDS Commitments, FiniteSetTheorems, TLAPS

-----------------------------------------------------------------------------
(* Types.                                                                  *)

\* Generation writes rows and only rows.
LEMMA SyncType ==
    ASSUME NEW c \in Commitment, NEW table \in [Day -> Row \cup {None}], NEW floor
    PROVE  Sync(c, table, floor) \in [Day -> Row \cup {None}]
  <1> DEFINE dates == DueDates(c.starts_on, c.frequency, c.ends_on,
                               floor, floor + HorizonDays(c.frequency))
  <1>1. NewRow(c.amount) \in Row
    BY DEF NewRow, Row, Commitment
  <1>2. AddOccurrences(table, dates, c.amount) \in [Day -> Row \cup {None}]
    <2> HIDE DEF dates
    <2> QED
      BY <1>1 DEF AddOccurrences
  <1>3. QED
    BY <1>2 DEF Sync

\* So does regeneration.
LEMMA ResyncType ==
    ASSUME NEW c \in Commitment, NEW table \in [Day -> Row \cup {None}], NEW floor
    PROVE  Resync(c, table, floor) \in [Day -> Row \cup {None}]
  <1>1. DeletePendingFrom(table, floor) \in [Day -> Row \cup {None}]
    BY DEF DeletePendingFrom
  <1>2. QED
    BY <1>1, SyncType DEF Resync

\* Forgetting log entries keeps the rows.
LEMMA ForgetType ==
    ASSUME NEW table \in [Day -> Row \cup {None}], NEW kinds, NEW days
    PROVE  Forget(table, kinds, days) \in [Day -> Row \cup {None}]
  <1>1. ASSUME NEW row \in Row
        PROVE  [row EXCEPT !.reminded = @ \ kinds] \in Row
    BY DEF Row
  <1>2. QED
    BY <1>1 DEF Forget

\* An edit within the schema makes a commitment of a commitment.
LEMMA MergeType ==
    ASSUME NEW c \in Commitment, NEW changes \in Edits
    PROVE  Merge(c, changes) \in Commitment
  <1>1. DOMAIN c = Fields
    BY DEF Commitment, Fields, Rescheduling, ActionFields
  <1>2. DOMAIN changes \subseteq Fields \ {"user_id", "deleted_at"}
    BY CommitmentAssumption
  <1>3. Merge(c, changes) =
          [user_id |-> c.user_id, type |-> Get(changes, "type", c.type),
           amount |-> Get(changes, "amount", c.amount),
           frequency |-> Get(changes, "frequency", c.frequency),
           starts_on |-> Get(changes, "starts_on", c.starts_on),
           ends_on |-> Get(changes, "ends_on", c.ends_on),
           trial_ends_on |-> Get(changes, "trial_ends_on", c.trial_ends_on),
           cancellation_notice_days |->
              Get(changes, "cancellation_notice_days", c.cancellation_notice_days),
           status |-> Get(changes, "status", c.status), deleted_at |-> c.deleted_at]
    BY <1>1, <1>2 DEF Merge, Get, Fields, Rescheduling, ActionFields
  <1>4. QED
    BY <1>3, CommitmentAssumption DEF Commitment, Get

\* So does a payload, at its creation.
LEMMA NewCommitmentType ==
    ASSUME NEW u \in Users, NEW payload \in Drafts
    PROVE  /\ NewCommitment(u, payload) \in Commitment
           /\ NewCommitment(u, payload).user_id = u
           /\ NewCommitment(u, payload).type = payload.type
  <1>1. NewCommitment(u, payload) =
          [user_id |-> u, type |-> payload.type, amount |-> payload.amount,
           frequency |-> payload.frequency, starts_on |-> payload.starts_on,
           ends_on |-> payload.ends_on, trial_ends_on |-> payload.trial_ends_on,
           cancellation_notice_days |-> payload.cancellation_notice_days,
           status |-> "active", deleted_at |-> None]
    BY DEF NewCommitment, Fields, Rescheduling, ActionFields
  <1>2. QED
    BY <1>1, CommitmentAssumption DEF Commitment, Statuses

\* The initial tables are empty.
LEMMA TypeInit == Init => TypeOK
  <1> SUFFICES ASSUME Init PROVE TypeOK
    OBVIOUS
  <1>1. day \in Nat /\ FirstDay \in Int /\ Zones \subseteq Int
    BY CommitmentAssumption DEF Init
  <1>2. today \in [Users -> Int] /\ \A u \in Users : today[u] - day \in Zones
    <2>1. today \in [Users -> {FirstDay + zone : zone \in Zones}] /\ day = FirstDay
      BY DEF Init
    <2>2. ASSUME NEW u \in Users
          PROVE  today[u] \in Int /\ today[u] - day \in Zones
      <3>1. PICK zone \in Zones : today[u] = FirstDay + zone
        BY <2>1
      <3>2. zone \in Int
        BY <1>1
      <3>3. QED
        BY <3>1, <3>2, <1>1, <2>1
    <2>3. QED
      BY <2>1, <2>2
  <1>3. QED
    BY <1>1, <1>2 DEF Init, TypeOK, NoRows

\* What the requests on commitments need of the types.
LEMMA OwnerDayIsADay ==
    ASSUME TypeOK, NEW i \in Ids, Exists(i)
    PROVE  commitments[i] \in Commitment /\ OwnerDay(i) \in Int
  <1>1. commitments[i] \in Commitment
    BY DEF TypeOK, Exists
  <1>2. QED
    BY <1>1 DEF TypeOK, OwnerDay, Commitment

\* A batch changes live commitments of its account, with one step's effects.
LEMMA ChangedAreLive ==
    ASSUME NEW u \in Users, NEW ids \in SUBSET Ids, NEW status \in Statuses,
           SetStatusMany(u, ids, status)
    PROVE  \E changed \in SUBSET {i \in Ids : Live(i) /\ i \in Owned(u)} :
            /\ commitments' = [i \in Ids |->
                  IF i \in changed THEN [commitments[i] EXCEPT !.status = status]
                                   ELSE commitments[i]]
            /\ rows' = [i \in Ids |->
                  IF i \in changed
                  THEN Resync([commitments[i] EXCEPT !.status = status], rows[i], today[u])
                  ELSE rows[i]]
            /\ synced' = [i \in Ids |-> IF i \in changed THEN today[u] ELSE synced[i]]
            /\ UNCHANGED <<day, today>>
  <1> DEFINE asked == {i \in ids \cap Owned(u) : Live(i) /\ commitments[i].status # status}
             entering == {i \in asked : Enters(commitments[i], status, commitments[i].type)}
  <1>1. ASSUME NEW admitted \in SUBSET entering
        PROVE  (asked \ entering) \cup admitted \in SUBSET {i \in Ids : Live(i) /\ i \in Owned(u)}
    OBVIOUS
  <1>2. QED
    BY <1>1 DEF SetStatusMany

\* Every step keeps the types.
LEMMA TypeStep == TypeOK /\ [Next]_vars => TypeOK'
  <1> SUFFICES ASSUME TypeOK, [Next]_vars PROVE TypeOK'
    OBVIOUS
  <1>1. ASSUME NEW u \in Users, NEW i \in Ids, NEW payload \in Drafts, Create(u, i, payload)
        PROVE  TypeOK'
    <2> DEFINE c == NewCommitment(u, payload)
    <2>1. c \in Commitment
      BY NewCommitmentType
    <2>2. /\ commitments' = [commitments EXCEPT ![i] = c]
          /\ rows' = [rows EXCEPT ![i] = Sync(c, NoRows, today[u])]
          /\ synced' = [synced EXCEPT ![i] = today[u]]
          /\ UNCHANGED <<day, today>>
      BY <1>1 DEF Create
    <2> HIDE DEF c
    <2>3. Sync(c, NoRows, today[u]) \in [Day -> Row \cup {None}]
      BY <2>1, SyncType DEF NoRows
    <2>4. QED
      BY <2>1, <2>2, <2>3 DEF TypeOK
  <1>2. ASSUME NEW i \in Ids, NEW changes \in Edits, Update(i, changes)
        PROVE  TypeOK'
    <2> DEFINE updated == Merge(commitments[i], changes)
    <2>1. /\ commitments[i] \in Commitment /\ OwnerDay(i) \in Int
          /\ updated \in Commitment
      BY <1>2, OwnerDayIsADay, MergeType DEF Update, Live
    <2> HIDE DEF updated
    <2>2. /\ commitments' = [commitments EXCEPT ![i] = updated]
          /\ UNCHANGED <<day, today>>
      BY <1>2 DEF Update, updated
    <2>3. /\ rows' \in [Ids -> [Day -> Row \cup {None}]]
          /\ synced' \in [Ids -> Int]
      <3>1. CASE /\ rows' = [rows EXCEPT ![i] = Resync(updated, @, OwnerDay(i))]
                 /\ synced' = [synced EXCEPT ![i] = OwnerDay(i)]
        BY <3>1, <2>1, ResyncType DEF TypeOK
      <3>2. CASE /\ rows' = [rows EXCEPT ![i] =
                               Forget(@, {"action_required"}, PendingDays(@))]
                 /\ UNCHANGED synced
        <4>1. Forget(rows[i], {"action_required"}, PendingDays(rows[i]))
                 \in [Day -> Row \cup {None}]
          BY ForgetType DEF TypeOK
        <4>2. QED
          BY <3>2, <4>1 DEF TypeOK
      <3>3. CASE UNCHANGED <<rows, synced>>
        BY <3>3 DEF TypeOK
      <3>4. QED
        BY <1>2, <3>1, <3>2, <3>3 DEF Update, updated
    <2>4. QED
      BY <2>1, <2>2, <2>3 DEF TypeOK
  <1>3. ASSUME NEW u \in Users, NEW ids \in SUBSET Ids, NEW status \in Statuses,
               SetStatusMany(u, ids, status)
        PROVE  TypeOK'
    <2>1. PICK changed \in SUBSET {i \in Ids : Live(i) /\ i \in Owned(u)} :
            /\ commitments' = [i \in Ids |->
                  IF i \in changed THEN [commitments[i] EXCEPT !.status = status]
                                   ELSE commitments[i]]
            /\ rows' = [i \in Ids |->
                  IF i \in changed
                  THEN Resync([commitments[i] EXCEPT !.status = status], rows[i], today[u])
                  ELSE rows[i]]
            /\ synced' = [i \in Ids |-> IF i \in changed THEN today[u] ELSE synced[i]]
            /\ UNCHANGED <<day, today>>
      BY <1>3, ChangedAreLive
    <2>2. ASSUME NEW i \in changed
          PROVE  [commitments[i] EXCEPT !.status = status] \in Commitment
      BY OwnerDayIsADay DEF Live, Commitment
    <2>3. commitments' \in [Ids -> Commitment \cup {None}]
      BY <2>1, <2>2 DEF TypeOK
    <2>4. ASSUME NEW i \in changed
          PROVE  Resync([commitments[i] EXCEPT !.status = status], rows[i], today[u])
                    \in [Day -> Row \cup {None}]
      BY <2>2, ResyncType DEF TypeOK
    <2>5. rows' \in [Ids -> [Day -> Row \cup {None}]]
      BY <2>1, <2>4 DEF TypeOK
    <2>6. QED
      BY <2>1, <2>3, <2>5 DEF TypeOK
  <1>4. ASSUME NEW batch \in SUBSET {i \in Ids : Live(i)}, SoftDelete(batch)
        PROVE  TypeOK'
    <2>1. ASSUME NEW i \in batch
          PROVE  [commitments[i] EXCEPT !.deleted_at = day] \in Commitment
      <3>1. commitments[i] \in Commitment
        BY OwnerDayIsADay DEF Live
      <3>2. day \in Int
        BY DEF TypeOK
      <3>3. QED
        BY <3>1, <3>2 DEF Commitment
    <2>2. commitments' \in [Ids -> Commitment \cup {None}]
      BY <1>4, <2>1 DEF SoftDelete, TypeOK
    <2>3. QED
      BY <1>4, <2>2 DEF SoftDelete, TypeOK
  <1>5. ASSUME NEW u \in Users, NEW ids \in SUBSET Ids, Restore(u, ids)
        PROVE  TypeOK'
    <2> DEFINE batch == {i \in ids \cap Owned(u) : InTrash(i)}
    <2>1. ASSUME NEW i \in batch
          PROVE  [commitments[i] EXCEPT !.deleted_at = None] \in Commitment
      BY OwnerDayIsADay DEF InTrash, Commitment
    <2>2. /\ commitments' = [i \in Ids |->
                IF i \in batch THEN [commitments[i] EXCEPT !.deleted_at = None]
                               ELSE commitments[i]]
          /\ UNCHANGED <<rows, day, today, synced>>
      BY <1>5 DEF Restore
    <2> HIDE DEF batch
    <2>3. QED
      BY <2>1, <2>2 DEF TypeOK
  <1>6. ASSUME NEW u \in Users, NEW type \in Types \cup {None}, PurgeNow(u, type)
        PROVE  TypeOK'
    BY <1>6 DEF PurgeNow, Erased, ErasedRows, NoRows, TypeOK
  <1>7. ASSUME NEW i \in Ids, NEW d \in Day, NEW changes \in RowEdits,
               UpdateOccurrence(i, d, changes)
        PROVE  TypeOK'
    <2> DEFINE row     == rows[i][d]
               paid_on == Settled(row, changes, OwnerDay(i))
               after   == [row EXCEPT !.status = Get(changes, "status", @),
                                      !.amount = Get(changes, "amount", @),
                                      !.paid_on = paid_on,
                                      !.by_hand = TRUE]
    <2>1. row \in Row /\ OwnerDay(i) \in Int
      BY <1>7, OwnerDayIsADay DEF UpdateOccurrence, TypeOK, Live
    <2>2. paid_on \in Int \cup {None}
      BY <2>1, CommitmentAssumption DEF Settled, Get, Row
    <2>3. after \in Row
      <3> HIDE DEF row, paid_on
      <3>1. Get(changes, "status", row.status) \in {"pending", "paid", "skipped"}
        BY <2>1, CommitmentAssumption DEF Get, Row
      <3>2. Get(changes, "amount", row.amount) \in Nat
        BY <2>1, CommitmentAssumption DEF Get, Row
      <3>3. QED
        BY <2>1, <2>2, <3>1, <3>2 DEF Row
    <2>4. /\ rows' = [rows EXCEPT ![i][d] = after]
          /\ UNCHANGED <<commitments, day, today, synced>>
      BY <1>7 DEF UpdateOccurrence
    <2> HIDE DEF after
    <2>5. QED
      BY <2>3, <2>4 DEF TypeOK
  <1>8. CASE DailyGeneration
    <2> DEFINE old == {d \in Day : d < day - PurgeLogAfter}
    <2>1. PICK batch \in SUBSET {i \in Ids : InTrash(i)} :
            /\ commitments' = Erased(commitments, batch)
            /\ rows' = [i \in Ids |->
                  IF Live(i) THEN Sync(commitments[i], Forget(ErasedRows(batch)[i], Kinds, old), day)
                             ELSE Forget(ErasedRows(batch)[i], Kinds, old)]
            /\ synced' = [i \in Ids |-> IF Live(i) /\ synced[i] < day THEN day ELSE synced[i]]
            /\ UNCHANGED <<day, today>>
      BY <1>8 DEF DailyGeneration, Purgeable
    <2>2. ASSUME NEW i \in Ids
          PROVE  Forget(ErasedRows(batch)[i], Kinds, old) \in [Day -> Row \cup {None}]
      <3>1. ErasedRows(batch)[i] \in [Day -> Row \cup {None}]
        BY DEF ErasedRows, NoRows, TypeOK
      <3>2. QED
        BY <3>1, ForgetType
    <2> HIDE DEF old
    <2>3. ASSUME NEW i \in Ids, Live(i)
          PROVE  Sync(commitments[i], Forget(ErasedRows(batch)[i], Kinds, old), day)
                    \in [Day -> Row \cup {None}]
      BY <2>2, <2>3, OwnerDayIsADay, SyncType DEF Live
    <2>4. rows' \in [Ids -> [Day -> Row \cup {None}]]
      BY <2>1, <2>2, <2>3
    <2>5. QED
      BY <2>1, <2>4 DEF Erased, TypeOK
  <1>9. ASSUME NEW i \in Ids, NEW d \in Day, NEW kind \in Kinds, MarkReminded(i, d, kind)
        PROVE  TypeOK'
    <2>1. [rows[i][d] EXCEPT !.reminded = @ \cup {kind}] \in Row
      <3>1. rows[i][d] \in Row
        BY <1>9 DEF MarkReminded, IsPending, TypeOK
      <3>2. QED
        BY <3>1 DEF Row
    <2>2. QED
      BY <1>9, <2>1 DEF MarkReminded, TypeOK
  <1>10. ASSUME NEW u \in Users, LocalMidnight(u)
         PROVE  TypeOK'
    BY <1>10 DEF LocalMidnight, TypeOK
  <1>11. ASSUME NEW u \in Users, ChangeTimezone(u)
         PROVE  TypeOK'
    <2>1. PICK zone \in Zones : today' = [today EXCEPT ![u] = day + zone]
      BY <1>11 DEF ChangeTimezone
    <2>2. zone \in Int
      BY CommitmentAssumption
    <2>3. QED
      BY <1>11, <2>1, <2>2 DEF ChangeTimezone, TypeOK
  <1>12. CASE ServerMidnight
    BY <1>12 DEF ServerMidnight, TypeOK
  <1>13. CASE UNCHANGED vars
    BY <1>13 DEF vars, TypeOK
  <1>14. QED
    <2>1. ASSUME NEW u \in Users, NEW ids \in SUBSET Ids, DeleteMany(u, ids)
          PROVE  TypeOK'
      BY <1>4, <2>1 DEF DeleteMany, Owned
    <2>2. ASSUME NEW u \in Users, NEW type \in Types \cup {None},
                 NEW status \in Statuses \cup {None}, DeleteAll(u, type, status)
          PROVE  TypeOK'
      BY <1>4, <2>2 DEF DeleteAll, Owned
    <2>3. QED
      BY <1>1, <1>2, <1>3, <1>5, <1>6, <1>7, <1>8, <1>9, <1>10, <1>11, <1>12, <1>13,
         <2>1, <2>2 DEF Next

\* Whatever the requests, the tables hold commitments and occurrences of the
\* schema, and no account is further than a zone from the server's day.
THEOREM CommitmentsType == Spec => []TypeOK
  BY TypeInit, TypeStep, PTL DEF Spec

-----------------------------------------------------------------------------
(* Populations.                                                            *)

\* Sets of commitments can be counted.
LEMMA Countable ==
    ASSUME NEW S \in SUBSET Ids
    PROVE  IsFiniteSet(S) /\ Cardinality(S) \in Nat
  BY FS_Subset, FS_CardinalityType, CommitmentAssumption

\* A population that gains nobody does not grow.
LEMMA NoneGained ==
    ASSUME NEW S \in SUBSET Ids, NEW T \in SUBSET S
    PROVE  Cardinality(T) <= Cardinality(S)
  BY Countable, FS_Subset

\* A population grows at most by those who join it.
LEMMA SomeGained ==
    ASSUME NEW S \in SUBSET Ids, NEW E \in SUBSET Ids, NEW T \in SUBSET (S \cup E)
    PROVE  Cardinality(T) <= Cardinality(S) + Cardinality(E)
  <1>1. /\ IsFiniteSet(S) /\ Cardinality(S) \in Nat
        /\ IsFiniteSet(E) /\ Cardinality(E) \in Nat
        /\ Cardinality(S \cap E) \in Nat
        /\ Cardinality(S \cup E) \in Nat
        /\ Cardinality(T) \in Nat
    BY Countable
  <1>2. Cardinality(S \cup E) = Cardinality(S) + Cardinality(E) - Cardinality(S \cap E)
    BY <1>1, FS_Union
  <1>3. Cardinality(T) <= Cardinality(S \cup E)
    BY NoneGained
  <1>4. QED
    BY <1>1, <1>2, <1>3

\* One more in a population below the ceiling does not take it over.
LEMMA OneGained ==
    ASSUME NEW S \in SUBSET Ids, NEW i \in Ids, NEW T \in SUBSET (S \cup {i}),
           Cardinality(S) < MaxPerType
    PROVE  Cardinality(T) <= MaxPerType
  <1>1. Cardinality(T) <= Cardinality(S) + Cardinality({i})
    BY SomeGained
  <1>2. Cardinality({i}) = 1
    BY FS_Singleton
  <1>3. Cardinality(S) \in Nat /\ Cardinality(T) \in Nat /\ MaxPerType \in Nat
    BY Countable, CommitmentAssumption
  <1>4. QED
    BY <1>1, <1>2, <1>3

\* The roof is no lower than the ceiling.
LEMMA RoofAboveCeiling ==
    RestoreFactor * MaxPerType \in Nat /\ MaxPerType <= RestoreFactor * MaxPerType
  <1>1. ASSUME NEW a \in Nat, NEW b \in Nat, b >= 1
        PROVE  b * a \in Nat /\ a <= b * a
    BY <1>1
  <1>2. QED
    BY <1>1, CommitmentAssumption

\* Tracked, before and after a step, are sets of commitments.
LEMMA TrackedIds ==
    ASSUME NEW u, NEW t
    PROVE  Tracked(u, t) \in SUBSET Ids /\ Tracked(u, t)' \in SUBSET Ids
  BY DEF Tracked

\* No request but a restoration takes a population over the ceiling.
Admitted(u, t) ==
    \/ Tracked(u, t)' \subseteq Tracked(u, t)
    \/ Cardinality(Tracked(u, t)') <= MaxPerType

\* A step that leaves the table of commitments alone admits nobody.
LEMMA AdmitUnchanged ==
    ASSUME NEW u, NEW t, UNCHANGED commitments
    PROVE  Admitted(u, t)
  BY DEF Admitted, Tracked, Live, Exists

\* A creation is counted.
LEMMA AdmitCreate ==
    ASSUME TypeOK, NEW v \in Users, NEW t \in Types,
           NEW u \in Users, NEW i \in Ids, NEW payload \in Drafts, Create(u, i, payload)
    PROVE  Admitted(v, t)
  <1>1. /\ commitments' = [commitments EXCEPT ![i] = commitments'[i]]
        /\ commitments'[i].user_id = u
        /\ commitments'[i].type = payload.type
        /\ BelowCeiling(u, payload.type)
    BY NewCommitmentType DEF Create, TypeOK
  <1>2. CASE v = u /\ t = payload.type
    <2>1. Tracked(v, t)' \subseteq Tracked(v, t) \cup {i}
      BY <1>1 DEF Tracked, Live, Exists, TypeOK
    <2>2. QED
      BY <1>1, <1>2, <2>1, OneGained, TrackedIds DEF BelowCeiling, Admitted
  <1>3. CASE ~(v = u /\ t = payload.type)
    <2>1. Tracked(v, t)' \subseteq Tracked(v, t)
      BY <1>1, <1>3 DEF Tracked, Live, Exists, TypeOK
    <2>2. QED
      BY <2>1 DEF Admitted
  <1>4. QED
    BY <1>2, <1>3

\* An edit that makes a commitment enter a population is counted.
LEMMA AdmitUpdate ==
    ASSUME TypeOK, NEW v \in Users, NEW t \in Types,
           NEW i \in Ids, NEW changes \in Edits, Update(i, changes)
    PROVE  Admitted(v, t)
  <1> DEFINE c == commitments[i]
             updated == Merge(commitments[i], changes)
  <1>1. c \in Commitment /\ updated \in Commitment /\ updated.user_id = c.user_id
    <2>1. c \in Commitment
      BY OwnerDayIsADay DEF Update, Live
    <2>2. "user_id" \notin DOMAIN changes
      BY CommitmentAssumption
    <2>3. QED
      BY <2>1, <2>2, MergeType DEF Merge, Get, Commitment
  <1>2. /\ Live(i)
        /\ commitments' = [commitments EXCEPT ![i] = updated]
        /\ Enters(c, updated.status, updated.type) => BelowCeiling(c.user_id, updated.type)
    BY DEF Update
  <1> HIDE DEF updated
  <1>3. CASE v = c.user_id /\ t = updated.type /\ Enters(c, updated.status, updated.type)
    <2>1. Tracked(v, t)' \subseteq Tracked(v, t) \cup {i}
      BY <1>2 DEF Tracked, Live, Exists, TypeOK
    <2>2. QED
      BY <1>2, <1>3, <2>1, OneGained, TrackedIds DEF BelowCeiling, Admitted
  <1>4. CASE ~(v = c.user_id /\ t = updated.type /\ Enters(c, updated.status, updated.type))
    <2>1. Tracked(v, t)' \subseteq Tracked(v, t)
      BY <1>1, <1>2, <1>4 DEF Tracked, Live, Exists, TypeOK, Enters
    <2>2. QED
      BY <2>1 DEF Admitted
  <1>5. QED
    BY <1>3, <1>4

\* Of a batch, those that enter a population are no more than it has room for.
LEMMA AdmitStatusMany ==
    ASSUME TypeOK, NEW v \in Users, NEW t \in Types,
           NEW u \in Users, NEW ids \in SUBSET Ids, NEW status \in Statuses,
           SetStatusMany(u, ids, status)
    PROVE  Admitted(v, t)
  <1> DEFINE asked == {i \in ids \cap Owned(u) : Live(i) /\ commitments[i].status # status}
             entering == {i \in asked : Enters(commitments[i], status, commitments[i].type)}
             OfType(batch, type) == {i \in batch : commitments[i].type = type}
             room == MaxPerType - Cardinality(Tracked(u, t))
  <1>1. PICK admitted \in SUBSET entering :
          /\ OfType(admitted, t) # {} => Cardinality(OfType(admitted, t)) <= room
          /\ commitments' = [i \in Ids |->
                IF i \in (asked \ entering) \cup admitted
                THEN [commitments[i] EXCEPT !.status = status] ELSE commitments[i]]
    BY DEF SetStatusMany
  <1>2. ASSUME NEW i \in asked
        PROVE  /\ commitments[i] \in Commitment
               /\ commitments[i].user_id = u
               /\ i \in Ids /\ Live(i)
    BY OwnerDayIsADay DEF Owned
  <1>3. ASSUME NEW i \in Tracked(v, t)', i \notin Tracked(v, t)
        PROVE  v = u /\ i \in OfType(admitted, t)
    <2>1. i \in (asked \ entering) \cup admitted
      BY <1>1, <1>3 DEF Tracked, Live, Exists
    <2>2. /\ commitments'[i] = [commitments[i] EXCEPT !.status = status]
          /\ i \in asked /\ i \in Ids
      BY <1>1, <2>1
    <2>3. /\ commitments'[i].user_id = u
          /\ commitments'[i].type = commitments[i].type
          /\ commitments'[i].status = status
      BY <1>2, <2>2 DEF Commitment
    <2>4. v = u /\ commitments[i].type = t /\ status \in Counted
      BY <1>3, <2>3 DEF Tracked
    <2>5. commitments[i].status \notin Counted
      BY <1>2, <1>3, <2>2, <2>4 DEF Tracked
    <2>6. i \in entering
      BY <2>2, <2>4, <2>5 DEF Enters
    <2>7. QED
      BY <2>1, <2>4, <2>6
  <1> HIDE DEF asked, entering
  <1>4. CASE v # u \/ OfType(admitted, t) = {}
    <2>1. Tracked(v, t)' \subseteq Tracked(v, t)
      BY <1>3, <1>4
    <2>2. QED
      BY <2>1 DEF Admitted
  <1>5. CASE v = u /\ OfType(admitted, t) # {}
    <2>1. OfType(admitted, t) \in SUBSET Ids
      BY DEF entering, asked
    <2>2. Tracked(v, t)' \subseteq Tracked(v, t) \cup OfType(admitted, t)
      BY <1>3
    <2>3. Cardinality(Tracked(v, t)')
            <= Cardinality(Tracked(v, t)) + Cardinality(OfType(admitted, t))
      BY <2>1, <2>2, SomeGained, TrackedIds
    <2>4. Cardinality(OfType(admitted, t)) <= MaxPerType - Cardinality(Tracked(v, t))
      BY <1>1, <1>5
    <2>5. /\ Cardinality(Tracked(v, t)') \in Nat /\ Cardinality(Tracked(v, t)) \in Nat
          /\ Cardinality(OfType(admitted, t)) \in Nat /\ MaxPerType \in Nat
      BY <2>1, Countable, TrackedIds, CommitmentAssumption
    <2> HIDE DEF OfType
    <2>6. QED
      BY <2>3, <2>4, <2>5 DEF Admitted
  <1>6. QED
    BY <1>4, <1>5

\* Deleting and purging admit nobody.
LEMMA AdmitDelete ==
    ASSUME TypeOK, NEW v \in Users, NEW t \in Types,
           NEW batch \in SUBSET {i \in Ids : Live(i)}, SoftDelete(batch)
    PROVE  Admitted(v, t)
  <1>1. ASSUME NEW i \in batch
        PROVE  [commitments[i] EXCEPT !.deleted_at = day].deleted_at # None
    BY OwnerDayIsADay, NoneAssumption DEF Live, Commitment, TypeOK
  <1>2. Tracked(v, t)' \subseteq Tracked(v, t)
    BY <1>1 DEF SoftDelete, Tracked, Live, Exists
  <1>3. QED
    BY <1>2 DEF Admitted

\* What is erased is tracked no longer.
LEMMA AdmitErased ==
    ASSUME NEW v \in Users, NEW t \in Types, NEW batch, commitments' = Erased(commitments, batch)
    PROVE  Admitted(v, t)
  <1>1. Tracked(v, t)' \subseteq Tracked(v, t)
    BY DEF Erased, Tracked, Live, Exists
  <1>2. QED
    BY <1>1 DEF Admitted

\* Every step but a restoration respects the ceiling.
LEMMA AdmitStep ==
    ASSUME TypeOK, [Next]_vars, NEW v \in Users, NEW t \in Types
    PROVE  Admitted(v, t) \/ \E u \in Users, ids \in SUBSET Ids : Restore(u, ids)
  <1>1. ASSUME NEW u \in Users, NEW ids \in SUBSET Ids, DeleteMany(u, ids)
        PROVE  Admitted(v, t)
    BY <1>1, AdmitDelete DEF DeleteMany, Owned
  <1>2. ASSUME NEW u \in Users, NEW type \in Types \cup {None},
               NEW status \in Statuses \cup {None}, DeleteAll(u, type, status)
        PROVE  Admitted(v, t)
    BY <1>2, AdmitDelete DEF DeleteAll, Owned
  <1>3. ASSUME NEW u \in Users, NEW type \in Types \cup {None}, PurgeNow(u, type)
        PROVE  Admitted(v, t)
    BY <1>3, AdmitErased DEF PurgeNow
  <1>4. CASE DailyGeneration
    BY <1>4, AdmitErased DEF DailyGeneration
  <1>5. ASSUME NEW i \in Ids, NEW d \in Day, NEW changes \in RowEdits,
               UpdateOccurrence(i, d, changes)
        PROVE  Admitted(v, t)
    BY <1>5, AdmitUnchanged DEF UpdateOccurrence
  <1>6. ASSUME NEW i \in Ids, NEW d \in Day, NEW kind \in Kinds, MarkReminded(i, d, kind)
        PROVE  Admitted(v, t)
    BY <1>6, AdmitUnchanged DEF MarkReminded
  <1>7. ASSUME NEW u \in Users, LocalMidnight(u) \/ ChangeTimezone(u)
        PROVE  Admitted(v, t)
    BY <1>7, AdmitUnchanged DEF LocalMidnight, ChangeTimezone
  <1>8. CASE ServerMidnight \/ UNCHANGED vars
    BY <1>8, AdmitUnchanged DEF ServerMidnight, vars
  <1>9. QED
    BY <1>1, <1>2, <1>3, <1>4, <1>5, <1>6, <1>7, <1>8,
       AdmitCreate, AdmitUpdate, AdmitStatusMany DEF Next

\* A restoration takes a population to the roof at most.
LEMMA RestoreUnderRoof ==
    ASSUME TypeOK, NEW v \in Users, NEW t \in Types,
           NEW u \in Users, NEW ids \in SUBSET Ids, Restore(u, ids)
    PROVE  \/ Tracked(v, t)' \subseteq Tracked(v, t)
           \/ Cardinality(Tracked(v, t)') <= RestoreFactor * MaxPerType
  <1> DEFINE batch == {i \in ids \cap Owned(u) : InTrash(i)}
  <1>1. /\ commitments' = [i \in Ids |->
              IF i \in batch THEN [commitments[i] EXCEPT !.deleted_at = None]
                             ELSE commitments[i]]
        /\ RestoreFits(u, ids)
    BY DEF Restore
  <1>2. ASSUME NEW i \in Tracked(v, t)', i \notin Tracked(v, t)
        PROVE  v = u /\ i \in Entrants(u, ids, t)
    <2>1. i \in batch
      BY <1>1, <1>2 DEF Tracked, Live, Exists
    <2>2. /\ commitments[i] \in Commitment /\ commitments[i].user_id = u
          /\ commitments'[i] = [commitments[i] EXCEPT !.deleted_at = None]
      BY <1>1, <2>1, OwnerDayIsADay DEF Owned
    <2>3. QED
      BY <1>2, <2>1, <2>2 DEF Tracked, Entrants, Commitment
  <1>3. CASE v # u \/ Entrants(u, ids, t) = {}
    <2>1. Tracked(v, t)' \subseteq Tracked(v, t)
      BY <1>2, <1>3
    <2>2. QED
      BY <2>1
  <1>4. CASE v = u /\ Entrants(u, ids, t) # {}
    <2>1. Entrants(u, ids, t) \in SUBSET Ids
      BY DEF Entrants
    <2>2. Tracked(v, t)' \subseteq Tracked(v, t) \cup Entrants(u, ids, t)
      BY <1>2
    <2>3. Cardinality(Tracked(v, t)')
            <= Cardinality(Tracked(v, t)) + Cardinality(Entrants(u, ids, t))
      BY <2>1, <2>2, SomeGained, TrackedIds
    <2>4. Cardinality(Tracked(v, t)) + Cardinality(Entrants(u, ids, t))
            <= RestoreFactor * MaxPerType
      BY <1>1, <1>4 DEF RestoreFits
    <2>5. /\ Cardinality(Tracked(v, t)') \in Nat /\ Cardinality(Tracked(v, t)) \in Nat
          /\ Cardinality(Entrants(u, ids, t)) \in Nat
          /\ RestoreFactor * MaxPerType \in Nat
      BY <2>1, Countable, TrackedIds, RoofAboveCeiling
    <2>6. QED
      BY <2>3, <2>4, <2>5
  <1>5. QED
    BY <1>3, <1>4

\* The roof of two ceilings per type holds whatever the cycle of creations,
\* deletions, restorations and changes of type or status.
THEOREM RoofTheorem == Spec => []RoofHolds
  <1>1. Init => RoofHolds
    <2> SUFFICES ASSUME Init, NEW u \in Users, NEW t \in Types
                 PROVE  Cardinality(Tracked(u, t)) <= RestoreFactor * MaxPerType
      BY DEF RoofHolds
    <2>1. Tracked(u, t) = {}
      BY DEF Init, Tracked, Live, Exists
    <2>2. QED
      BY <2>1, FS_EmptySet, RoofAboveCeiling
  <1>2. TypeOK /\ RoofHolds /\ [Next]_vars => RoofHolds'
    <2> SUFFICES ASSUME TypeOK, RoofHolds, [Next]_vars, NEW v \in Users, NEW t \in Types
                 PROVE  Cardinality(Tracked(v, t)') <= RestoreFactor * MaxPerType
      BY DEF RoofHolds
    <2>1. /\ Cardinality(Tracked(v, t)) <= RestoreFactor * MaxPerType
          /\ Cardinality(Tracked(v, t)) \in Nat /\ Cardinality(Tracked(v, t)') \in Nat
          /\ MaxPerType \in Nat /\ RestoreFactor * MaxPerType \in Nat
          /\ MaxPerType <= RestoreFactor * MaxPerType
      BY Countable, TrackedIds, RoofAboveCeiling, CommitmentAssumption DEF RoofHolds
    <2>2. CASE Admitted(v, t)
      BY <2>1, <2>2, NoneGained, TrackedIds DEF Admitted
    <2>3. CASE \E u \in Users, ids \in SUBSET Ids : Restore(u, ids)
      BY <2>1, <2>3, RestoreUnderRoof, NoneGained, TrackedIds
    <2>4. QED
      BY <2>2, <2>3, AdmitStep
  <1>3. QED
    BY <1>1, <1>2, CommitmentsType, PTL DEF Spec

\* Over the ceiling, a population only grows by a restoration.
THEOREM CeilingTheorem == Spec => OnlyRestoreExceeds
  <1>1. TypeOK /\ [Next]_vars =>
          [\A u \in Users, t \in Types :
              /\ Cardinality(Tracked(u, t)') > MaxPerType
              /\ Cardinality(Tracked(u, t)') > Cardinality(Tracked(u, t))
              => \E ids \in SUBSET Ids : Restore(u, ids)]_vars
    <2> SUFFICES ASSUME TypeOK, [Next]_vars, NEW v \in Users, NEW t \in Types,
                        Cardinality(Tracked(v, t)') > MaxPerType,
                        Cardinality(Tracked(v, t)') > Cardinality(Tracked(v, t))
                 PROVE  \E ids \in SUBSET Ids : Restore(v, ids)
      OBVIOUS
    <2>1. ~Admitted(v, t)
      BY Countable, NoneGained, TrackedIds, CommitmentAssumption DEF Admitted
    <2>2. PICK u \in Users, ids \in SUBSET Ids : Restore(u, ids)
      BY <2>1, AdmitStep
    <2>3. v = u
      <3>1. SUFFICES ASSUME v # u PROVE Tracked(v, t)' \subseteq Tracked(v, t)
        BY <2>1 DEF Admitted
      <3>2. ASSUME NEW i \in Ids, InTrash(i), i \in Owned(u)
            PROVE  [commitments[i] EXCEPT !.deleted_at = None].user_id = u
        BY <3>2, OwnerDayIsADay DEF InTrash, Owned, Commitment
      <3>3. QED
        BY <2>2, <3>1, <3>2 DEF Restore, Tracked, Live, Exists
    <2>4. QED
      BY <2>2, <2>3
  <1>2. QED
    BY <1>1, CommitmentsType, PTL DEF Spec, OnlyRestoreExceeds
-----------------------------------------------------------------------------
(* The tables implement Population.                                        *)

\* What Population sees of the tables.
Where == [i \in Ids |-> IF Exists(i) THEN Standing(commitments[i]) ELSE None]

\* The fields of a standing, read one at a time.
LEMMA StandingFields ==
    ASSUME NEW c
    PROVE  /\ Standing(c).owner = c.user_id
           /\ Standing(c).type = c.type
           /\ Standing(c).counted <=> c.status \in Counted
           /\ Standing(c).binned <=> c.deleted_at # None
  BY DEF Standing

LEMMA StandingType ==
    ASSUME NEW c \in Commitment
    PROVE  Standing(c) \in Abstract!Place /\ Standing(c) # None
  <1>1. Standing(c) \in [owner : Users, type : Types, counted : BOOLEAN, binned : BOOLEAN]
    BY DEF Standing, Commitment
  <1>2. QED
    BY <1>1, RecordAssumption DEF Abstract!Place

LEMMA PlaceOf ==
    ASSUME TypeOK, NEW i \in Ids
    PROVE  /\ Abstract!Kept(i) <=> Live(i)
           /\ Abstract!Binned(i) <=> InTrash(i)
  <1>1. CASE Exists(i)
    <2>1. Standing(commitments[i]) # None
      BY <1>1, OwnerDayIsADay, StandingType
    <2>2. QED
      BY <1>1, <2>1, StandingFields DEF Abstract!Kept, Abstract!Binned, Live, InTrash
  <1>2. CASE ~Exists(i)
    BY <1>2 DEF Abstract!Kept, Abstract!Binned, Live, InTrash
  <1>3. QED
    BY <1>1, <1>2

LEMMA MembersAreTracked ==
    ASSUME TypeOK, NEW u, NEW t
    PROVE  Abstract!Members(u, t) = Tracked(u, t)
  <1>1. ASSUME NEW i \in Ids, Live(i)
        PROVE  Where[i] = Standing(commitments[i])
    BY <1>1 DEF Where, Live
  <1>2. QED
    BY <1>1, PlaceOf, StandingFields DEF Where, Abstract!Members, Tracked
\* The same after a step.
LEMMA MembersAreTrackedNext ==
    TypeOK' => \A u, t : Abstract!Members(u, t)' = Tracked(u, t)'
  <1> DEFINE Same == \A u, t : Abstract!Members(u, t) = Tracked(u, t)
  <1>1. TypeOK => Same
    BY MembersAreTracked
  <1> HIDE DEF Same
  <1>2. TypeOK' => Same'
    BY <1>1, PTL
  <1>3. QED
    BY <1>2 DEF Same

\* Population counts as this module does.
LEMMA SameCardinality ==
    ASSUME NEW S
    PROVE  Abstract!Cardinality(S) = Cardinality(S)
  BY DEF Abstract!Cardinality, Cardinality

\* What a step does to the populations, it does to the tables.
LEMMA GrowsAsTracked ==
    ASSUME TypeOK, TypeOK', NEW limit,
           \A u \in Users, t \in Types : \/ Tracked(u, t)' \subseteq Tracked(u, t)
                                         \/ Cardinality(Tracked(u, t)') <= limit
    PROVE  Abstract!GrowsUpTo(limit)
  BY MembersAreTracked, MembersAreTrackedNext, SameCardinality DEF Abstract!GrowsUpTo

\* A step that leaves the trash alone, keeps what is live with its owner and
\* admits nobody over the ceiling is a Change.
LEMMA IsChange ==
    ASSUME TypeOK, TypeOK',
           \A u \in Users, t \in Types : Admitted(u, t),
           \A i \in Ids :
              /\ InTrash(i) => commitments'[i] = commitments[i]
              /\ Live(i) => /\ commitments'[i] # None
                            /\ commitments'[i].user_id = commitments[i].user_id
    PROVE  Abstract!Change
  <1>1. ASSUME NEW i \in Ids
        PROVE  /\ Where[i] = IF Exists(i) THEN Standing(commitments[i]) ELSE None
               /\ Where'[i] = IF commitments'[i] # None THEN Standing(commitments'[i]) ELSE None
    BY DEF Where, Exists
  <1>2. ASSUME NEW i \in Ids, commitments'[i] # None
        PROVE  Standing(commitments'[i]) \in Abstract!Place /\ Standing(commitments'[i]) # None
    BY <1>2, StandingType DEF TypeOK
  <1>3. Where' \in [Ids -> Abstract!Place \cup {None}]
    BY <1>2 DEF Where, Exists
  <1>4. ASSUME NEW i \in Ids, Abstract!Binned(i)
        PROVE  Where'[i] = Where[i]
    BY <1>1, <1>4, PlaceOf DEF InTrash, Exists
  <1>5. ASSUME NEW i \in Ids, Abstract!Kept(i)
        PROVE  Where'[i] # None /\ Where'[i].owner = Where[i].owner
    BY <1>1, <1>2, <1>5, PlaceOf, StandingFields DEF Live
  <1>6. Abstract!GrowsUpTo(MaxPerType)
    BY GrowsAsTracked DEF Admitted
  <1>7. QED
    BY <1>3, <1>4, <1>5, <1>6 DEF Where, Abstract!Change
\* A deletion puts what was live in the trash.
LEMMA DeleteIsChange ==
    ASSUME TypeOK, TypeOK', NEW batch \in SUBSET {i \in Ids : Live(i)}, SoftDelete(batch)
    PROVE  Abstract!Change
  <1>1. ASSUME NEW i \in Ids, Live(i)
        PROVE  commitments'[i] # None /\ commitments'[i].user_id = commitments[i].user_id
    <2>1. commitments[i] \in Commitment /\ day \in Nat
      BY <1>1, OwnerDayIsADay DEF Live, TypeOK
    <2>2. /\ [commitments[i] EXCEPT !.deleted_at = day] \in Commitment
          /\ [commitments[i] EXCEPT !.deleted_at = day].user_id = commitments[i].user_id
      BY <2>1 DEF Commitment
    <2>3. QED
      BY <1>1, <2>1, <2>2, RecordAssumption DEF SoftDelete
  <1>2. ASSUME NEW i \in Ids, InTrash(i)
        PROVE  commitments'[i] = commitments[i]
    BY <1>2 DEF SoftDelete, Live, InTrash
  <1>3. QED
    BY <1>1, <1>2, AdmitDelete, IsChange

\* A commitment that is created takes an id where there was none.
LEMMA CreateIsChange ==
    ASSUME TypeOK, TypeOK', NEW u \in Users, NEW i \in Ids, NEW payload \in Drafts,
           Create(u, i, payload)
    PROVE  Abstract!Change
  <1>1. ASSUME NEW j \in Ids, Exists(j)
        PROVE  commitments'[j] = commitments[j]
    BY <1>1 DEF Create, Exists, TypeOK
  <1>2. QED
    BY <1>1, AdmitCreate, IsChange DEF Live, InTrash, Exists

\* An edit leaves a commitment to its owner.
LEMMA UpdateIsChange ==
    ASSUME TypeOK, TypeOK', NEW i \in Ids, NEW changes \in Edits, Update(i, changes)
    PROVE  Abstract!Change
  <1> DEFINE updated == Merge(commitments[i], changes)
  <1>1. Live(i) /\ commitments' = [commitments EXCEPT ![i] = updated]
    BY DEF Update
  <1>2. updated \in Commitment /\ updated.user_id = commitments[i].user_id
    <2>1. commitments[i] \in Commitment
      BY <1>1, OwnerDayIsADay DEF Live
    <2>2. "user_id" \notin DOMAIN changes
      BY CommitmentAssumption
    <2>3. QED
      BY <2>1, <2>2, MergeType DEF Merge, Get, Commitment
  <1> HIDE DEF updated
  <1>3. ASSUME NEW j \in Ids
        PROVE  /\ InTrash(j) => commitments'[j] = commitments[j]
               /\ Live(j) => /\ commitments'[j] # None
                             /\ commitments'[j].user_id = commitments[j].user_id
    BY <1>1, <1>2, RecordAssumption DEF InTrash, Live, Exists, TypeOK
  <1>4. QED
    BY <1>3, AdmitUpdate, IsChange

\* A change of status leaves commitments to their owners.
LEMMA StatusIsChange ==
    ASSUME TypeOK, TypeOK', NEW u \in Users, NEW ids \in SUBSET Ids, NEW status \in Statuses,
           SetStatusMany(u, ids, status)
    PROVE  Abstract!Change
  <1>1. PICK changed \in SUBSET {i \in Ids : Live(i) /\ i \in Owned(u)} :
          /\ commitments' = [i \in Ids |->
                IF i \in changed THEN [commitments[i] EXCEPT !.status = status]
                                 ELSE commitments[i]]
          /\ rows' = [i \in Ids |->
                IF i \in changed
                THEN Resync([commitments[i] EXCEPT !.status = status], rows[i], today[u])
                ELSE rows[i]]
          /\ synced' = [i \in Ids |-> IF i \in changed THEN today[u] ELSE synced[i]]
          /\ UNCHANGED <<day, today>>
    BY ChangedAreLive
  <1>2. ASSUME NEW j \in Ids, Live(j)
        PROVE  /\ [commitments[j] EXCEPT !.status = status] \in Commitment
               /\ [commitments[j] EXCEPT !.status = status].user_id = commitments[j].user_id
    BY <1>2, OwnerDayIsADay DEF Live, Commitment
  <1>3. ASSUME NEW j \in Ids
        PROVE  /\ InTrash(j) => commitments'[j] = commitments[j]
               /\ Live(j) => /\ commitments'[j] # None
                             /\ commitments'[j].user_id = commitments[j].user_id
    BY <1>1, <1>2, RecordAssumption DEF InTrash, Live, Exists
  <1>4. QED
    BY <1>3, AdmitStatusMany, IsChange

\* What comes back from the trash comes back as it was.
LEMMA RestoreIsRestore ==
    ASSUME TypeOK, TypeOK', NEW u \in Users, NEW ids \in SUBSET Ids, Restore(u, ids)
    PROVE  Abstract!Restore
  <1> DEFINE batch == {i \in ids \cap Owned(u) : InTrash(i)}
  <1>1. commitments' = [i \in Ids |->
            IF i \in batch THEN [commitments[i] EXCEPT !.deleted_at = None]
                           ELSE commitments[i]]
    BY DEF Restore
  <1>2. batch \in SUBSET {i \in Ids : Abstract!Binned(i)}
    BY PlaceOf
  <1>3. ASSUME NEW i \in batch
        PROVE  /\ Exists(i) /\ commitments'[i] # None
               /\ Standing(commitments'[i]) =
                      [Standing(commitments[i]) EXCEPT !.binned = FALSE]
    <2>1. commitments[i] \in Commitment /\ Exists(i)
      BY OwnerDayIsADay DEF InTrash
    <2> DEFINE back == [commitments[i] EXCEPT !.deleted_at = None]
    <2>2. /\ back \in Commitment
          /\ back.user_id = commitments[i].user_id
          /\ back.type = commitments[i].type
          /\ back.status = commitments[i].status
          /\ back.deleted_at = None
      BY <2>1 DEF Commitment
    <2>3. commitments'[i] = back
      BY <1>1
    <2> HIDE DEF back
    <2>4. Standing(back) = [Standing(commitments[i]) EXCEPT !.binned = FALSE]
      <3> DEFINE before == Standing(commitments[i])
      <3>1. before \in Abstract!Place
        BY <2>1, StandingType
      <3>2. /\ before.owner = commitments[i].user_id
            /\ before.type = commitments[i].type
            /\ before.counted = (commitments[i].status \in Counted)
        BY DEF Standing
      <3>3. Standing(back) = [owner |-> before.owner, type |-> before.type,
                              counted |-> before.counted, binned |-> FALSE]
        <4>1. (back.deleted_at # None) = FALSE
          BY <2>2
        <4> QED
          BY <2>2, <3>2, <4>1, Zenon DEF Standing
      <3> HIDE DEF before
      <3>4. [before EXCEPT !.binned = FALSE] =
                [owner |-> before.owner, type |-> before.type,
                 counted |-> before.counted, binned |-> FALSE]
        <4> DEFINE no == FALSE
                   flag == BOOLEAN
        <4>1. before \in [owner : Users, type : Types, counted : flag, binned : flag]
          BY <3>1 DEF Abstract!Place
        <4> HIDE DEF no, flag
        <4>2. [before EXCEPT !.binned = no] =
                  [owner |-> before.owner, type |-> before.type,
                   counted |-> before.counted, binned |-> no]
          BY <4>1
        <4>3. QED
          BY <4>2 DEF no
      <3>5. QED
        BY <3>3, <3>4 DEF before
    <2>5. QED
      BY <2>1, <2>2, <2>3, <2>4, RecordAssumption
  <1>4. ASSUME NEW i \in Ids \ batch
        PROVE  commitments'[i] = commitments[i]
    BY <1>1
  <1> HIDE DEF batch
  <1>5. Where' = [i \in Ids |-> IF i \in batch THEN [Where[i] EXCEPT !.binned = FALSE]
                                              ELSE Where[i]]
    BY <1>2, <1>3, <1>4 DEF Where, Exists
  <1>6. Abstract!GrowsUpTo(RestoreFactor * MaxPerType)
    BY RestoreUnderRoof, GrowsAsTracked
  <1>7. QED
    BY <1>2, <1>5, <1>6 DEF Where, Abstract!Restore

\* What is erased was in the trash.
LEMMA ErasedIsErase ==
    ASSUME TypeOK, NEW batch \in SUBSET {i \in Ids : InTrash(i)},
           commitments' = Erased(commitments, batch)
    PROVE  Abstract!Erase
  <1>1. batch \in SUBSET {i \in Ids : Abstract!Binned(i)}
    BY PlaceOf
  <1>2. Where' = [i \in Ids |-> IF i \in batch THEN None ELSE Where[i]]
    BY DEF Where, Erased, Exists
  <1>3. QED
    BY <1>1, <1>2 DEF Where, Abstract!Erase

\* Every step of the tables is a step of the populations, or none.
LEMMA TracksStep ==
    TypeOK /\ TypeOK' /\ [Next]_vars => [Abstract!Next]_Where
  <1> SUFFICES ASSUME TypeOK, TypeOK', [Next]_vars
               PROVE  Abstract!Next \/ Where' = Where
    OBVIOUS
  <1>1. ASSUME NEW u \in Users, NEW ids \in SUBSET Ids, DeleteMany(u, ids)
        PROVE  Abstract!Change
    BY <1>1, DeleteIsChange DEF DeleteMany, Owned
  <1>2. ASSUME NEW u \in Users, NEW type \in Types \cup {None},
               NEW status \in Statuses \cup {None}, DeleteAll(u, type, status)
        PROVE  Abstract!Change
    BY <1>2, DeleteIsChange DEF DeleteAll, Owned
  <1>3. ASSUME NEW u \in Users, NEW type \in Types \cup {None}, PurgeNow(u, type)
        PROVE  Abstract!Erase
    BY <1>3, ErasedIsErase DEF PurgeNow, Owned
  <1>4. CASE DailyGeneration
    <2>1. PICK batch \in SUBSET {i \in Ids : InTrash(i)} :
            commitments' = Erased(commitments, batch)
      BY <1>4 DEF DailyGeneration, Purgeable
    <2>2. QED
      BY <2>1, ErasedIsErase DEF Abstract!Next
  <1>5. ASSUME UNCHANGED commitments
        PROVE  Where' = Where
    BY <1>5 DEF Where, Exists
  <1>6. ASSUME NEW i \in Ids, NEW d \in Day, NEW changes \in RowEdits,
               UpdateOccurrence(i, d, changes)
        PROVE  UNCHANGED commitments
    BY <1>6 DEF UpdateOccurrence
  <1>7. ASSUME NEW i \in Ids, NEW d \in Day, NEW kind \in Kinds, MarkReminded(i, d, kind)
        PROVE  UNCHANGED commitments
    BY <1>7 DEF MarkReminded
  <1>8. ASSUME NEW u \in Users, LocalMidnight(u) \/ ChangeTimezone(u)
        PROVE  UNCHANGED commitments
    BY <1>8 DEF LocalMidnight, ChangeTimezone
  <1>9. ServerMidnight \/ UNCHANGED vars => UNCHANGED commitments
    BY DEF ServerMidnight, vars
  <1>10. QED
    BY <1>1, <1>2, <1>3, <1>4, <1>5, <1>6, <1>7, <1>8, <1>9, CreateIsChange,
       UpdateIsChange, StatusIsChange, RestoreIsRestore DEF Next, Abstract!Next

\* The service implements the promise made of the populations: whatever the
\* requests, a population grows to the ceiling, to the roof by a restoration;
\* the trash is only brought back or erased; nobody's commitment changes hands.
THEOREM PopulationTheorem == Spec => TracksPopulations
  <1>1. Init => Abstract!Init
    BY DEF Init, Abstract!Init, Exists
  <1>2. TypeOK /\ TypeOK' /\ [Next]_vars => [Abstract!Next]_Where
    BY TracksStep
  <1>3. QED
    BY <1>1, <1>2, CommitmentsType, PTL DEF Spec, TracksPopulations, Abstract!Spec, Where
=============================================================================
