------------------------------- MODULE Avatars -------------------------------
(***************************************************************************)
(* The photo of an account: a row of the users table that names a file of  *)
(* the object store, which no transaction ties together                    *)
(* (services/user_profile/avatar_service.py, delete_account, and           *)
(* services/storage/object_storage.py).                                    *)
(*                                                                         *)
(* A request reads the account when it starts, and deletes the file that   *)
(* it read of; the row is locked from its UPDATE to the commit, the store  *)
(* is not.  Deleting a file is attempted once.  A request is served once   *)
(* and its name stands for the key it draws (a UUID).                      *)
(***************************************************************************)
EXTENDS Naturals, FiniteSets

CONSTANTS
    Requests,
    Picture,      \* an address outside the store, left by an older release
    MaxMishaps,   \* bound: calls to the store that fail, requests that are cut
    None

Keys == Requests
Photos == Keys \cup {Picture, None}

AvatarsConstants ==
    /\ Picture \notin Requests /\ None \notin Requests /\ Picture # None
    /\ MaxMishaps \in Nat

VARIABLES
    owner,      \* the account's row: whether it is there, and its avatar_key
    holder,     \* the request that has written the row, or None
    files,      \* keys of the store
    errand,     \* what each request does and has read
    mishaps,
    spoiled,    \* history: files deleted by a transaction that was rolled back
    strays      \* history: files left behind by a mishap or an overlap

avatarVars == <<owner, holder, files, errand, mishaps, spoiled, strays>>

Waiting == [step |-> "new", what |-> "none", previous |-> None, erased |-> FALSE]

Init ==
    /\ \E photo \in {Picture, None} : owner = [there |-> TRUE, avatar |-> photo]
    /\ holder = None
    /\ files = {}
    /\ errand = [r \in Requests |-> Waiting]
    /\ mishaps = 0
    /\ spoiled = {} /\ strays = {}

Mishap == mishaps < MaxMishaps /\ mishaps' = mishaps + 1

\* is_stored_key
Stored(photo) == photo \in Keys

Leave(r) == errand' = [errand EXCEPT ![r] = [Waiting EXCEPT !.step = "done"]]

\* replace, remove, delete_account: the account is read.  There is nothing to
\* remove where there is no photo.
Begin(r, what) ==
    /\ errand[r].step = "new"
    /\ owner.there
    /\ what = "remove" => owner.avatar # None
    /\ errand' = [errand EXCEPT ![r] =
          [@ EXCEPT !.step = IF what = "replace" THEN "reading" ELSE "ready",
                    !.what = what, !.previous = owner.avatar]]
    /\ UNCHANGED <<owner, holder, files, mishaps, spoiled, strays>>

Put(r) ==
    /\ errand[r].step = "reading"
    /\ files' = files \cup {r}
    /\ errand' = [errand EXCEPT ![r].step = "ready"]
    /\ UNCHANGED <<owner, holder, mishaps, spoiled, strays>>

\* Mutation of PutFails: the failure is not raised.
PutFailsUnseen(r) ==
    /\ errand[r].step = "reading"
    /\ Mishap
    /\ errand' = [errand EXCEPT ![r].step = "ready"]
    /\ UNCHANGED <<owner, holder, files, spoiled, strays>>

\* AvatarUploadFailed, or an image that is refused: nothing was written.
PutFails(r) ==
    /\ errand[r].step = "reading"
    /\ Mishap
    /\ Leave(r)
    /\ UNCHANGED <<owner, holder, files, spoiled, strays>>

\* Mutation of Superseded: only remove deletes the file.
SupersededByRemoval(q) == IF q.what = "remove" /\ Stored(q.previous) THEN {q.previous} ELSE {}

\* The file a request is to delete: the one it read of.
Superseded(q) == IF Stored(q.previous) THEN {q.previous} ELSE {}

\* The row is written, then the previous file deleted; a deletion that fails is
\* not an error.  An account that is gone is not an error for its own deletion.
Write(r) ==
    LET q == errand[r]
    IN  /\ q.step = "ready"
        /\ holder = None
        /\ owner.there \/ q.what = "delete"
        /\ holder' = r
        /\ \/ /\ files' = files \ Superseded(q)
              /\ errand' = [errand EXCEPT ![r].step = "written", ![r].erased = TRUE]
              /\ UNCHANGED <<mishaps, strays>>
           \/ /\ Superseded(q) # {}
              /\ Mishap
              /\ strays' = strays \cup Superseded(q)
              /\ errand' = [errand EXCEPT ![r].step = "written"]
              /\ UNCHANGED files
        /\ UNCHANGED <<owner, spoiled>>

\* update_user finds no row: the request ends in an error.
AccountIsGone(r) ==
    LET q == errand[r]
    IN  /\ q.step = "ready"
        /\ holder = None
        /\ ~owner.there /\ q.what # "delete"
        /\ strays' = IF q.what = "replace" THEN strays \cup {r} ELSE strays
        /\ Leave(r)
        /\ UNCHANGED <<owner, holder, files, mishaps, spoiled>>

\* Another photo was committed since it read: nobody will delete its file.
Overtaken(r) ==
    IF owner.there /\ owner.avatar # errand[r].previous THEN {owner.avatar} ELSE {}

Commit(r) ==
    LET q == errand[r]
    IN  /\ q.step = "written"
        /\ owner' = [there |-> q.what # "delete",
                     avatar |-> IF q.what = "replace" THEN r ELSE None]
        /\ strays' = strays \cup {key \in Overtaken(r) : Stored(key)}
        /\ holder' = None
        /\ Leave(r)
        /\ UNCHANGED <<files, mishaps, spoiled>>

\* The process is killed, or the commit fails.
Cut(r) ==
    LET q == errand[r]
    IN  /\ q.step \in {"ready", "written"}
        /\ Mishap
        /\ holder' = IF holder = r THEN None ELSE holder
        /\ strays' = IF q.what = "replace" THEN strays \cup {r} ELSE strays
        /\ spoiled' = IF q.erased THEN spoiled \cup Superseded(q) ELSE spoiled
        /\ Leave(r)
        /\ UNCHANGED <<owner, files>>

Next ==
    \E r \in Requests :
        \/ \E what \in {"replace", "remove", "delete"} : Begin(r, what)
        \/ Put(r) \/ PutFails(r) \/ Write(r) \/ AccountIsGone(r) \/ Commit(r) \/ Cut(r)

Spec == Init /\ [][Next]_avatarVars

-----------------------------------------------------------------------------
TypeOK ==
    /\ owner \in [there : BOOLEAN, avatar : Photos]
    /\ holder \in Requests \cup {None}
    /\ files \subseteq Keys
    /\ errand \in [Requests -> [step : {"new", "reading", "ready", "written", "done"},
                                what : {"none", "replace", "remove", "delete"},
                                previous : Photos, erased : BOOLEAN]]
    /\ mishaps \in Nat
    /\ spoiled \subseteq Keys /\ strays \subseteq Keys

\* The photo an account shows exists, whatever uploads and removals overlap: a
\* request only deletes the file it supersedes.  The row outlives its file for the
\* moment before the commit, or for good when that commit does not happen.
AvatarIsThere ==
    Stored(owner.avatar) =>
        \/ owner.avatar \in files \cup spoiled
        \/ \E r \in Requests : errand[r].step = "written" /\ errand[r].previous = owner.avatar

\* No file is left behind, after any sequence of uploads, removals and the end of
\* the account, but by a mishap or by requests that overlapped.
NothingLeftBehind ==
    \A key \in files :
        \/ owner.avatar = key
        \/ key \in strays
        \/ errand[key].step \in {"ready", "written"}
=============================================================================
