----------------------------- MODULE CeilingRace -----------------------------
(***************************************************************************)
(* The ceiling of one account and one type, when its requests overlap.     *)
(* Commitments takes a request as one step; here the guard reads, then the *)
(* transaction writes and commits, and PostgreSQL, at READ COMMITTED and   *)
(* with no lock taken by the code, lets other transactions commit between. *)
(***************************************************************************)
EXTENDS Integers, FiniteSets, FiniteSetsExt

CONSTANTS
    Ids,            \* commitments
    Requests,       \* requests served at the same time, at most
    MaxPerType,     \* MAX_COMMITMENTS_PER_TYPE: 25
    RestoreFactor,  \* RESTORE_CEILING_FACTOR: 2
    MaxBatch        \* MAX_BATCH_IDS, the ids of a restoration; 0 allows none

RaceConstants ==
    /\ IsFiniteSet(Ids) /\ IsFiniteSet(Requests) /\ Requests # {}
    /\ MaxPerType \in Nat
    /\ RestoreFactor \in Nat \ {0}
    /\ MaxBatch \in Nat

VARIABLES
    place,      \* of each commitment: "absent", "tracked", "archived" or "trash"
    request,    \* what each request is about to write
    overlapped  \* history: requests under way while another one filled the
                \* population or the trash

vars == <<place, request, overlapped>>

At(p) == {i \in Ids : place[i] = p}
Tracked == At("tracked")
Population == Cardinality(Tracked)

Nothing == [kind |-> "none", ids |-> {}]
UnderWay == {r \in Requests : request[r] # Nothing}

Init ==
    /\ place = [i \in Ids |-> "absent"]
    /\ request = [r \in Requests |-> Nothing]
    /\ overlapped = {}

Fresh(i) == place[i] = "absent" /\ \A s \in Requests : i \notin request[s].ids

\* Mutation of GuardEntry: no guard.
GuardNothing(r, i) ==
    /\ r \notin UnderWay
    /\ place[i] = "archived" \/ Fresh(i)
    /\ request' = [request EXCEPT ![r] = [kind |-> "entry", ids |-> {i}]]
    /\ UNCHANGED <<place, overlapped>>

\* _guard_limit for a creation, _guard_entry for the end of an archive.
GuardEntry(r, i) ==
    /\ r \notin UnderWay
    /\ Population < MaxPerType
    /\ place[i] = "archived" \/ Fresh(i)
    /\ request' = [request EXCEPT ![r] = [kind |-> "entry", ids |-> {i}]]
    /\ UNCHANGED <<place, overlapped>>

\* Mutation of GuardNext: the batch does not count what it has written itself.
GuardNextAlone(r, i) ==
    /\ request[r].kind = "entry" /\ \A j \in request[r].ids : place[j] # "absent"
    /\ Population < MaxPerType
    /\ place[i] = "archived" /\ i \notin request[r].ids
    /\ request' = [request EXCEPT ![r].ids = @ \cup {i}]
    /\ UNCHANGED <<place, overlapped>>

\* set_status_many ends several archives in one transaction, each guarded when its
\* turn comes. It counts what others have committed and what it has written itself.
\* (The locks of the rows it has written, which would only keep others from them,
\* are left out.)
GuardNext(r, i) ==
    /\ request[r].kind = "entry" /\ \A j \in request[r].ids : place[j] # "absent"
    /\ Cardinality(Tracked \cup request[r].ids) < MaxPerType
    /\ place[i] = "archived" /\ i \notin request[r].ids
    /\ request' = [request EXCEPT ![r].ids = @ \cup {i}]
    /\ UNCHANGED <<place, overlapped>>

\* _guard_restore: it counts those of the ids that are in the trash now.
GuardRestore(r, ids) ==
    LET entrants == ids \cap At("trash")
    IN  /\ r \notin UnderWay
        /\ entrants # {} =>
              Population + Cardinality(entrants) <= RestoreFactor * MaxPerType
        /\ request' = [request EXCEPT ![r] = [kind |-> "restoration", ids |-> ids]]
        /\ UNCHANGED <<place, overlapped>>

\* The request writes, whatever the population has become.
Commit(r, ids) ==
    /\ place' = [i \in Ids |-> IF i \in ids THEN "tracked" ELSE place[i]]
    /\ request' = [request EXCEPT ![r] = Nothing]
    /\ overlapped' = (IF ids = {} THEN overlapped ELSE overlapped \cup UnderWay) \ {r}

Enter(r) ==
    /\ request[r].kind = "entry"
    /\ Commit(r, request[r].ids \cap (At("absent") \cup At("archived")))

\* UPDATE ... WHERE deleted_at IS NOT NULL: those that are in the trash by then.
Restore(r) ==
    /\ request[r].kind = "restoration"
    /\ Commit(r, request[r].ids \cap At("trash"))

Move(i, from, to) ==
    /\ place[i] = from
    /\ place' = [place EXCEPT ![i] = to]
    /\ UNCHANGED request

Archive(i) == Move(i, "tracked", "archived") /\ UNCHANGED overlapped
Delete(i) == Move(i, "tracked", "trash") /\ overlapped' = UnderWay

Next ==
    \/ \E r \in Requests :
          \/ \E i \in Ids : GuardEntry(r, i) \/ GuardNext(r, i)
          \/ \E n \in 1 .. MaxBatch :
                \E ids \in kSubset(n, Tracked \cup At("trash")) : GuardRestore(r, ids)
          \/ Enter(r)
          \/ Restore(r)
    \/ \E i \in Ids : Archive(i) \/ Delete(i)

Spec == Init /\ [][Next]_vars

-----------------------------------------------------------------------------
TypeOK ==
    /\ place \in [Ids -> {"absent", "tracked", "archived", "trash"}]
    /\ \A r \in Requests :
          \/ request[r] = Nothing
          \/ request[r].kind = "entry" /\ Cardinality(request[r].ids) <= MaxPerType
          \/ request[r].kind = "restoration" /\ request[r].ids \subseteq Ids
    /\ overlapped \subseteq UnderWay

\* "An account tracks at most MAX_COMMITMENTS_PER_TYPE (25) of each type"
\* (README, The ceiling), in an account that never restores.
CeilingHolds == Population <= MaxPerType

\* What overlapping requests may cost is bounded: the roof, and what all but one
\* of the requests under way may add to it.
OvershootIsBounded ==
    LET most == IF MaxBatch > MaxPerType THEN MaxBatch ELSE MaxPerType
    IN  Population <= RestoreFactor * MaxPerType + (Cardinality(Requests) - 1) * most

\* A request during which no other one fills the population or the trash keeps to
\* the ceiling, or to the roof to restore.
KeepsToItsLimit(r) ==
    /\ Enter(r) /\ Population' > Population => Population' <= MaxPerType
    /\ Restore(r) /\ Population' > Population => Population' <= RestoreFactor * MaxPerType

AloneKeepsToItsLimit == \A r \in Requests \ overlapped : KeepsToItsLimit(r)

\* Overlapping is the only way over the ceiling and the roof.
OnlyOverlapExceeds == [][AloneKeepsToItsLimit]_vars

\* In an account that never restores, each of the requests served at the same time
\* may bring a population of its own under the ceiling, and no more.
EntriesOvershoot ==
    MaxBatch = 0 => Population <= Cardinality(Requests) * MaxPerType

\* No request is under way while another one fills the population or the trash.
Apart == overlapped = {}

\* The ceiling of an account that never restores, the roof of one that does.
LimitHolds ==
    Population <= IF MaxBatch = 0 THEN MaxPerType ELSE RestoreFactor * MaxPerType
=============================================================================
