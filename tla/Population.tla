------------------------------ MODULE Population ------------------------------
(***************************************************************************)
(* What the application promises of the commitments an account tracks,     *)
(* whatever the request: a commitment that exists belongs to one account,  *)
(* is kept or in the trash, and is counted or not in the population of its *)
(* account and type.  A population grows up to the ceiling; only what      *)
(* comes back from the trash may take it over, up to the roof; and nothing *)
(* is erased but from the trash.                                           *)
(*                                                                         *)
(* Commitments implements it (TracksPopulations), with tables, batches and a job. *)
(***************************************************************************)
EXTENDS Integers, FiniteSets

CONSTANTS Ids, Users, Types, MaxPerType, RestoreFactor, None

VARIABLE place    \* [Ids -> Place], None where there is no commitment

Place == [owner : Users, type : Types, counted : BOOLEAN, binned : BOOLEAN]

Kept(i)   == place[i] # None /\ ~place[i].binned
Binned(i) == place[i] # None /\ place[i].binned

Members(u, t) ==
    {i \in Ids : Kept(i) /\ place[i].owner = u /\ place[i].type = t /\ place[i].counted}

\* No population grows past a limit.
GrowsUpTo(limit) ==
    \A u \in Users, t \in Types :
        \/ Members(u, t)' \subseteq Members(u, t)
        \/ Cardinality(Members(u, t)') <= limit

Init == place = [i \in Ids |-> None]

\* Creations, edits and deletions: what is in the trash is left alone, and
\* nobody's commitment becomes another's.
Change ==
    /\ place' \in [Ids -> Place \cup {None}]
    /\ \A i \in Ids :
          /\ Binned(i) => place'[i] = place[i]
          /\ Kept(i) => place'[i] # None /\ place'[i].owner = place[i].owner
    /\ GrowsUpTo(MaxPerType)

Restore ==
    /\ \E batch \in SUBSET {i \in Ids : Binned(i)} :
          place' = [i \in Ids |-> IF i \in batch THEN [place[i] EXCEPT !.binned = FALSE]
                                                 ELSE place[i]]
    /\ GrowsUpTo(RestoreFactor * MaxPerType)

Erase ==
    \E batch \in SUBSET {i \in Ids : Binned(i)} :
        place' = [i \in Ids |-> IF i \in batch THEN None ELSE place[i]]

Next == Change \/ Restore \/ Erase

Spec == Init /\ [][Next]_place
=============================================================================
