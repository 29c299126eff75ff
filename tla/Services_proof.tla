--------------------------- MODULE Services_proof ---------------------------
(***************************************************************************)
(* For any number of requests, accounts, addresses, devices and files, any *)
(* limits and any faults: what the six parts promise.                      *)
(***************************************************************************)
EXTENDS Services, FiniteSetTheorems, TLAPS

-----------------------------------------------------------------------------
(* The weekly digest.                                                      *)

\* A digest that left without losing its mark is in the table, is about to be, or
\* is of an account that is gone and gets no other.
MarkStands(a, w) ==
    \/ <<a, w>> \in digests
    \/ reader[a] = "gone"
    \/ a \in run.marking /\ w = Digest!Week(run.on)

\* Who is left has no digest of that week yet, and is not being marked.
LeftIsUnmarked ==
    /\ run.step # "marking" => run.marking = {}
    /\ \A a \in run.left : a \notin run.marking /\ <<a, Digest!Week(run.on)>> \notin digests

DigestInv ==
    /\ Digest!TypeOK
    /\ LeftIsUnmarked
    /\ \A a \in Accounts, w \in Digest!Weeks :
          \/ posted[a][w] <= unmarked[a][w]
          \/ posted[a][w] <= 1 + unmarked[a][w] /\ MarkStands(a, w)

LEMMA DigestInit == Digest!Init => DigestInv
  <1>1. 0 \in Digest!Days /\ LastDay \in Digest!Days
    BY ServicesAssumption DEF Digest!DigestConstants, Digest!Days
  <1>2. Digest!Init => Digest!TypeOK
    BY <1>1 DEF Digest!Init, Digest!TypeOK, Digest!Off
  <1>3. Digest!Init => LeftIsUnmarked
    BY DEF Digest!Init, Digest!Off, LeftIsUnmarked
  <1>4. QED
    BY <1>2, <1>3 DEF Digest!Init, DigestInv

\* A message is counted as unmarked when the job ends before its mark.
LEMMA Losing ==
    ASSUME DigestInv, Digest!Lose, run' = Digest!Off, UNCHANGED <<posted, digests, reader>>
    PROVE  /\ unmarked' \in [Accounts -> [Digest!Weeks -> Nat]]
           /\ \A a \in Accounts, w \in Digest!Weeks :
                 \/ posted'[a][w] <= unmarked'[a][w]
                 \/ posted'[a][w] <= 1 + unmarked'[a][w] /\ MarkStands(a, w)'
  <1>1. \A a \in Accounts, w \in Digest!Weeks :
           unmarked[a][w] \in Nat /\ posted[a][w] \in Nat
    BY DEF DigestInv, Digest!TypeOK
  <1>2. \A a \in Accounts, w \in Digest!Weeks :
           unmarked'[a][w] = IF a \in run.marking /\ w = Digest!Week(run.on)
                             THEN unmarked[a][w] + 1 ELSE unmarked[a][w]
    BY DEF DigestInv, Digest!TypeOK, Digest!Lose
  <1>3. unmarked' \in [Accounts -> [Digest!Weeks -> Nat]]
    <2>1. unmarked \in [Accounts -> [Digest!Weeks -> Nat]]
      BY DEF DigestInv, Digest!TypeOK
    <2>2. unmarked' = [a \in Accounts |->
              IF a \in run.marking
              THEN [unmarked[a] EXCEPT ![Digest!Week(run.on)] = unmarked[a][Digest!Week(run.on)] + 1]
              ELSE unmarked[a]]
      BY DEF Digest!Lose
    <2>3. \A f \in [Digest!Weeks -> Nat], w \in Digest!Weeks :
             [f EXCEPT ![w] = f[w] + 1] \in [Digest!Weeks -> Nat]
      OBVIOUS
    <2>4. Digest!Week(run.on) \in Digest!Weeks
      BY DEF DigestInv, Digest!TypeOK, Digest!Weeks
    <2>5. \A a \in Accounts :
             [unmarked[a] EXCEPT ![Digest!Week(run.on)] = unmarked[a][Digest!Week(run.on)] + 1]
                 \in [Digest!Weeks -> Nat]
      BY <2>1, <2>3, <2>4
    <2>6. QED
      BY <2>1, <2>2, <2>5
  <1>4. QED
    <2> SUFFICES ASSUME NEW a \in Accounts, NEW w \in Digest!Weeks
                 PROVE  \/ posted'[a][w] <= unmarked'[a][w]
                        \/ posted'[a][w] <= 1 + unmarked'[a][w] /\ MarkStands(a, w)'
      BY <1>3
    <2>1. \/ posted[a][w] <= unmarked[a][w]
          \/ posted[a][w] <= 1 + unmarked[a][w] /\ MarkStands(a, w)
      BY DEF DigestInv
    <2>2. CASE a \in run.marking /\ w = Digest!Week(run.on)
      BY <1>1, <1>2, <2>1, <2>2
    <2>3. CASE ~(a \in run.marking /\ w = Digest!Week(run.on))
      BY <1>1, <1>2, <2>1, <2>3 DEF MarkStands
    <2>4. QED
      BY <2>2, <2>3

LEMMA DigestStep == DigestInv /\ [Digest!Next]_digestVars => DigestInv'
  <1> SUFFICES ASSUME DigestInv, [Digest!Next]_digestVars PROVE DigestInv'
    OBVIOUS
  <1> USE DEF DigestInv
  <1>1. /\ today \in Digest!Days /\ run.on \in Digest!Days
        /\ \A d \in Digest!Days : Digest!Week(d) \in Digest!Weeks
        /\ 0 \in Digest!Days /\ LastDay \in Digest!Days
    BY ServicesAssumption DEF Digest!TypeOK, Digest!Weeks, Digest!DigestConstants, Digest!Days
  <1>2. CASE Digest!Load
    <2>1. run' \in [step : {"off", "sending", "marking"}, on : Digest!Days,
                    left : SUBSET Accounts, marking : SUBSET Accounts]
      BY <1>1, <1>2 DEF Digest!Load, Digest!Off
    <2>2. /\ run'.step = "sending" /\ run'.marking = {} /\ run'.on = today
          /\ run'.left \subseteq Accounts \ Digest!Already(today)
      BY <1>2 DEF Digest!Load, Digest!Off
    <2>3. run.marking = {}
      BY <1>2 DEF Digest!Load, LeftIsUnmarked
    <2>4. QED
      BY <1>2, <2>1, <2>2, <2>3
         DEF Digest!Load, Digest!TypeOK, LeftIsUnmarked, MarkStands, Digest!Already
  <1>3. CASE Digest!Mark
    <2>1. /\ run'.marking = {} /\ run'.on = run.on /\ run'.left = run.left
          /\ run'.step = "sending"
          /\ digests' = digests \cup {<<a, Digest!Week(run.on)>> : a \in run.marking}
          /\ UNCHANGED <<reader, posted, unmarked>>
      BY <1>3 DEF Digest!Mark, Digest!TypeOK
    <2>2. Digest!TypeOK'
      <3>1. run.marking \subseteq Accounts
        BY DEF Digest!TypeOK
      <3>2. digests' \subseteq Accounts \X Digest!Weeks
        BY <1>1, <2>1, <3>1 DEF Digest!TypeOK
      <3>3. QED
        BY <1>3, <3>2 DEF Digest!Mark, Digest!TypeOK
    <2>3. LeftIsUnmarked'
      BY <2>1 DEF LeftIsUnmarked
    <2>4. \A a \in Accounts, w \in Digest!Weeks : MarkStands(a, w) => MarkStands(a, w)'
      BY <2>1 DEF MarkStands
    <2>5. QED
      BY <2>1, <2>2, <2>3, <2>4
  <1>4. CASE Digest!MarkRefused
    BY <1>1, <1>4, Losing DEF Digest!MarkRefused, Digest!TypeOK, LeftIsUnmarked, Digest!Off
  <1>5. CASE Digest!Finish
    BY <1>1, <1>5 DEF Digest!Finish, Digest!TypeOK, LeftIsUnmarked, MarkStands, Digest!Off
  <1>6. CASE Digest!Crash
    BY <1>1, <1>6, Losing DEF Digest!Crash, Digest!TypeOK, LeftIsUnmarked, Digest!Off
  <1>7. ASSUME NEW a \in Accounts, Digest!Skip(a) \/ Digest!Fail(a) PROVE DigestInv'
    <2>1. /\ run' = [run EXCEPT !.left = run.left \ {a}]
          /\ UNCHANGED <<today, due, reader, digests, crashes, edits, posted, unmarked>>
          /\ failures' \in Nat
      BY <1>7 DEF Digest!Skip, Digest!Fail, Digest!TypeOK
    <2>2. QED
      BY <2>1 DEF Digest!TypeOK, LeftIsUnmarked, MarkStands
  <1>8. ASSUME NEW a \in Accounts, Digest!Post(a) PROVE DigestInv'
    <2>1. /\ run.step = "sending" /\ a \in run.left /\ run.marking = {}
          /\ ~MarkStands(a, Digest!Week(run.on))
      BY <1>8 DEF Digest!Post, Digest!Turn, LeftIsUnmarked, MarkStands
    <2>2. \A b \in Accounts, w \in Digest!Weeks :
             /\ posted[b][w] \in Nat /\ unmarked[b][w] \in Nat
             /\ posted'[b][w] = IF b = a /\ w = Digest!Week(run.on) THEN posted[b][w] + 1
                                                                   ELSE posted[b][w]
      BY <1>1, <1>8 DEF Digest!Post, Digest!TypeOK
    <2>3. /\ run'.step = "marking" /\ run'.marking = {a} /\ run'.on = run.on
          /\ run'.left = run.left \ {a}
          /\ UNCHANGED <<digests, reader, unmarked>>
      BY <1>8 DEF Digest!Post, Digest!TypeOK
    <2>4. Digest!TypeOK'
      <3>1. posted' \in [Accounts -> [Digest!Weeks -> Nat]]
        <4>1. posted \in [Accounts -> [Digest!Weeks -> Nat]]
          BY DEF Digest!TypeOK
        <4>2. posted' = [posted EXCEPT ![a] =
                           [posted[a] EXCEPT ![Digest!Week(run.on)] =
                               posted[a][Digest!Week(run.on)] + 1]]
          BY <1>8 DEF Digest!Post
        <4>3. [posted[a] EXCEPT ![Digest!Week(run.on)] = posted[a][Digest!Week(run.on)] + 1]
                 \in [Digest!Weeks -> Nat]
          BY <1>1, <4>1
        <4>4. QED
          BY <4>1, <4>2, <4>3
      <3>2. QED
        BY <1>8, <3>1 DEF Digest!Post, Digest!Turn, Digest!TypeOK
    <2>5. LeftIsUnmarked'
      BY <2>1, <2>3 DEF LeftIsUnmarked
    <2>6. QED
      <3> SUFFICES ASSUME NEW b \in Accounts, NEW w \in Digest!Weeks
                   PROVE  \/ posted'[b][w] <= unmarked'[b][w]
                          \/ posted'[b][w] <= 1 + unmarked'[b][w] /\ MarkStands(b, w)'
        BY <2>4, <2>5
      <3>1. CASE b = a /\ w = Digest!Week(run.on)
        BY <3>1, <2>1, <2>2, <2>3 DEF MarkStands
      <3>2. CASE ~(b = a /\ w = Digest!Week(run.on))
        BY <3>2, <2>1, <2>2, <2>3 DEF MarkStands
      <3>3. QED
        BY <3>1, <3>2
  <1>9. CASE \E a \in Accounts, days \in {{}, {today}, {LastDay}} : Digest!Reschedule(a, days)
    BY <1>1, <1>9 DEF Digest!Reschedule, Digest!Edit, Digest!TypeOK, LeftIsUnmarked, MarkStands
  <1>10. CASE \E a \in Accounts : Digest!Switch(a)
    BY <1>10 DEF Digest!Switch, Digest!Edit, Digest!TypeOK, LeftIsUnmarked, MarkStands
  <1>11. CASE \E a \in Accounts : Digest!DeleteAccount(a)
    BY <1>11 DEF Digest!DeleteAccount, Digest!Edit, Digest!TypeOK, LeftIsUnmarked, MarkStands
  <1>12. CASE Digest!Midnight
    <2>1. today' \in Digest!Days
      BY <1>1, <1>12, ServicesAssumption
         DEF Digest!Midnight, Digest!DigestConstants, Digest!Days
    <2>2. UNCHANGED <<due, reader, digests, run, failures, crashes, edits, posted, unmarked>>
      BY <1>12 DEF Digest!Midnight
    <2>3. QED
      BY <2>1, <2>2 DEF Digest!TypeOK, LeftIsUnmarked, MarkStands
  <1>13. CASE UNCHANGED digestVars
    BY <1>13 DEF digestVars, Digest!TypeOK, LeftIsUnmarked, MarkStands
  <1>14. QED
    BY <1>2, <1>3, <1>4, <1>5, <1>6, <1>7, <1>8, <1>9, <1>10, <1>11, <1>12, <1>13
       DEF Digest!Next

\* An account has one digest a week, plus one for each mark that was lost between
\* the message and its commit (weekly_digest.py, send).
THEOREM DigestTheorem == Spec => []OncePerWeek
  <1> DEFINE Inv == served = "digest" => DigestInv
  <1>1. Init => Inv
    BY DigestInit DEF Init
  <1>2. Inv /\ [Next]_vars => Inv'
    BY DigestStep DEF Next, vars
  <1>3. Inv => OncePerWeek
    BY DEF OncePerWeek, Digest!OncePerWeek, DigestInv, Digest!TypeOK
  <1>4. QED
    BY <1>1, <1>2, <1>3, PTL DEF Spec

-----------------------------------------------------------------------------
(* The photo of an account.                                                *)

\* The row is written by one transaction at a time.
OneWriter == \A r \in Requests : errand[r].step = "written" <=> holder = r

\* The key of an account, or one that a request read, is of a request that is over.
KeysAreCommitted ==
    /\ owner.avatar \in Requests => errand[owner.avatar].step = "done"
    /\ ~owner.there => owner.avatar = None
    /\ \A r \in Requests :
          errand[r].previous \in Requests => errand[errand[r].previous].step = "done"

\* Between its upload and its commit, a file is there; and nothing else is.
UploadsAreThere ==
    /\ \A r \in Requests : errand[r].step = "reading" => errand[r].what = "replace"
    /\ \A r \in Requests :
          errand[r].what = "replace" /\ errand[r].step \in {"ready", "written"} => r \in files
    /\ \A key \in files :
          \/ errand[key].step = "done"
          \/ errand[key].step \in {"ready", "written"} /\ errand[key].what = "replace"

\* What a request superseded is deleted, or known to be left.
WritersDelete ==
    \A r \in Requests :
        /\ errand[r].erased => errand[r].step = "written"
        /\ errand[r].step = "written" /\ errand[r].previous \in Requests =>
               IF errand[r].erased THEN errand[r].previous \notin files
                                   ELSE errand[r].previous \in strays

\* The row outlives its file for the moment before a commit, or for good.
RowHasItsFile ==
    owner.avatar \in Requests =>
        \/ owner.avatar \in files \cup spoiled
        \/ \E r \in Requests : /\ errand[r].step = "written" /\ errand[r].erased
                               /\ errand[r].previous = owner.avatar

AvatarInv ==
    /\ Photos!TypeOK
    /\ OneWriter /\ KeysAreCommitted /\ UploadsAreThere /\ WritersDelete /\ RowHasItsFile
    /\ Photos!NothingLeftBehind

LEMMA AvatarInit == Photos!Init => AvatarInv
  <1> SUFFICES ASSUME Photos!Init PROVE AvatarInv
    OBVIOUS
  <1>1. /\ owner \in [there : BOOLEAN, avatar : {Picture, None}] /\ owner.there
        /\ holder = None /\ files = {} /\ spoiled = {} /\ strays = {} /\ mishaps = 0
        /\ \A r \in Requests : /\ errand[r].step = "new" /\ errand[r].what = "none"
                               /\ errand[r].previous = None /\ ~errand[r].erased
    BY DEF Photos!Init, Photos!Waiting
  <1>2. Picture \notin Requests /\ None \notin Requests
    BY ServicesAssumption DEF Photos!AvatarsConstants
  <1>3. Photos!TypeOK
    BY <1>1 DEF Photos!Init, Photos!TypeOK, Photos!Waiting, Photos!Photos, Photos!Keys
  <1>4. QED
    BY <1>1, <1>2, <1>3
       DEF AvatarInv, OneWriter, KeysAreCommitted, UploadsAreThere, WritersDelete,
           RowHasItsFile, Photos!NothingLeftBehind

\* A request that is over.
LEMMA LeaveEnds ==
    ASSUME Photos!TypeOK, NEW r \in Requests, Photos!Leave(r)
    PROVE  /\ errand' \in [Requests -> [step : {"new", "reading", "ready", "written", "done"},
                                       what : {"none", "replace", "remove", "delete"},
                                       previous : Photos!Photos, erased : BOOLEAN]]
           /\ \A s \in Requests \ {r} : errand'[s] = errand[s]
           /\ errand'[r].step = "done" /\ errand'[r].previous = None
           /\ errand'[r].what = "none" /\ ~errand'[r].erased
  <1> DEFINE Errands == [step : {"new", "reading", "ready", "written", "done"},
                         what : {"none", "replace", "remove", "delete"},
                         previous : Photos!Photos, erased : BOOLEAN]
             over == [Photos!Waiting EXCEPT !.step = "done"]
  <1>1. /\ Photos!Waiting \in Errands
        /\ Photos!Waiting.what = "none" /\ Photos!Waiting.previous = None
        /\ ~Photos!Waiting.erased
    BY DEF Photos!Waiting, Photos!Photos
  <1>2. \A w \in Errands :
           LET e == [w EXCEPT !.step = "done"]
           IN  /\ e \in Errands /\ e.step = "done"
               /\ e.what = w.what /\ e.previous = w.previous /\ e.erased = w.erased
    OBVIOUS
  <1>3. /\ over \in Errands /\ over.step = "done"
        /\ over.what = "none" /\ over.previous = None /\ ~over.erased
    BY <1>1, <1>2
  <1>4. errand' = [errand EXCEPT ![r] = over]
    BY DEF Photos!Leave
  <1>5. errand \in [Requests -> Errands]
    BY DEF Photos!TypeOK
  <1> HIDE DEF over
  <1>6. QED
    BY <1>3, <1>4, <1>5

LEMMA AvatarStep == AvatarInv /\ [Photos!Next]_avatarVars => AvatarInv'
  <1> SUFFICES ASSUME AvatarInv, [Photos!Next]_avatarVars PROVE AvatarInv'
    OBVIOUS
  <1>0. /\ Picture \notin Requests /\ None \notin Requests
        /\ Photos!Keys = Requests /\ Photos!Photos = Requests \cup {Picture, None}
        /\ \A photo : Photos!Stored(photo) <=> photo \in Requests
    BY ServicesAssumption DEF Photos!AvatarsConstants, Photos!Keys, Photos!Photos, Photos!Stored
  <1> USE DEF AvatarInv
  <1>1. ASSUME NEW r \in Requests, NEW what \in {"replace", "remove", "delete"},
               Photos!Begin(r, what)
        PROVE  AvatarInv'
    <2>1. /\ errand[r].step = "new" /\ owner.there
          /\ \A s \in Requests \ {r} : errand'[s] = errand[s]
          /\ errand'[r].step = IF what = "replace" THEN "reading" ELSE "ready"
          /\ errand'[r].what = what /\ errand'[r].previous = owner.avatar
          /\ errand'[r].erased = errand[r].erased
          /\ UNCHANGED <<owner, holder, files, mishaps, spoiled, strays>>
      BY <1>1 DEF Photos!Begin, Photos!TypeOK
    <2>2. Photos!TypeOK'
      <3>1. owner.avatar \in Photos!Photos
        BY DEF Photos!TypeOK
      <3>2. (IF what = "replace" THEN "reading" ELSE "ready")
                \in {"new", "reading", "ready", "written", "done"}
        OBVIOUS
      <3>3. what \in {"none", "replace", "remove", "delete"}
        OBVIOUS
      <3>4. [errand[r] EXCEPT !.step = IF what = "replace" THEN "reading" ELSE "ready",
                              !.what = what, !.previous = owner.avatar]
                \in [step : {"new", "reading", "ready", "written", "done"},
                    what : {"none", "replace", "remove", "delete"},
                    previous : Photos!Photos, erased : BOOLEAN]
        BY <3>1, <3>2, <3>3 DEF Photos!TypeOK
      <3>5. QED
        BY <1>1, <2>1, <3>4 DEF Photos!Begin, Photos!TypeOK
    <2>3. r \notin files
      BY <2>1 DEF UploadsAreThere
    <2>4. OneWriter' /\ UploadsAreThere' /\ WritersDelete'
      BY <1>0, <2>1, <2>3 DEF OneWriter, UploadsAreThere, WritersDelete, Photos!TypeOK
    <2>5. KeysAreCommitted'
      BY <1>0, <2>1 DEF KeysAreCommitted
    <2>6. RowHasItsFile' /\ Photos!NothingLeftBehind'
      BY <1>0, <2>1, <2>3 DEF RowHasItsFile, Photos!NothingLeftBehind, Photos!TypeOK
    <2>7. QED
      BY <2>2, <2>4, <2>5, <2>6
  <1>2. ASSUME NEW r \in Requests, Photos!Put(r) PROVE AvatarInv'
    <2>1. /\ errand[r].step = "reading" /\ files' = files \cup {r}
          /\ \A s \in Requests \ {r} : errand'[s] = errand[s]
          /\ errand'[r].step = "ready" /\ errand'[r].what = errand[r].what
          /\ errand'[r].previous = errand[r].previous /\ errand'[r].erased = errand[r].erased
          /\ UNCHANGED <<owner, holder, mishaps, spoiled, strays>>
      BY <1>2 DEF Photos!Put, Photos!TypeOK
    <2>2. Photos!TypeOK'
      BY <1>0, <1>2 DEF Photos!Put, Photos!TypeOK
    <2>3. errand[r].previous # r
      BY <2>1 DEF KeysAreCommitted
    <2>4. OneWriter' /\ UploadsAreThere' /\ WritersDelete'
      BY <1>0, <2>1, <2>3
         DEF OneWriter, UploadsAreThere, WritersDelete, KeysAreCommitted, Photos!TypeOK
    <2>5. KeysAreCommitted'
      BY <1>0, <2>1, <2>3 DEF KeysAreCommitted
    <2>6. RowHasItsFile' /\ Photos!NothingLeftBehind'
      BY <1>0, <2>1, <2>3 DEF RowHasItsFile, Photos!NothingLeftBehind, Photos!TypeOK
    <2>7. QED
      BY <2>2, <2>4, <2>5, <2>6
  <1>3. ASSUME NEW r \in Requests, Photos!PutFails(r) PROVE AvatarInv'
    <2>1. /\ errand[r].step = "reading"
          /\ UNCHANGED <<owner, holder, files, spoiled, strays>>
      BY <1>3 DEF Photos!PutFails
    <2>2. Photos!Leave(r)
      BY <1>3 DEF Photos!PutFails
    <2>3. /\ \A s \in Requests \ {r} : errand'[s] = errand[s]
          /\ errand'[r].step = "done" /\ errand'[r].previous = None
          /\ errand'[r].what = "none" /\ ~errand'[r].erased
      BY <2>2, LeaveEnds
    <2>4. Photos!TypeOK'
      BY <1>3, LeaveEnds DEF Photos!PutFails, Photos!Mishap, Photos!TypeOK
    <2>5. r \notin files
      BY <2>1 DEF UploadsAreThere
    <2>6. OneWriter' /\ UploadsAreThere' /\ WritersDelete'
      BY <1>0, <2>1, <2>3, <2>5 DEF OneWriter, UploadsAreThere, WritersDelete, Photos!TypeOK
    <2>7. KeysAreCommitted'
      BY <1>0, <2>1, <2>3 DEF KeysAreCommitted
    <2>8. RowHasItsFile' /\ Photos!NothingLeftBehind'
      BY <1>0, <2>1, <2>3, <2>5 DEF RowHasItsFile, Photos!NothingLeftBehind, Photos!TypeOK
    <2>9. QED
      BY <2>4, <2>6, <2>7, <2>8
  <1>4. ASSUME NEW r \in Requests, Photos!Write(r) PROVE AvatarInv'
    <2>1. /\ errand[r].step = "ready" /\ holder = None /\ holder' = r
          /\ \A s \in Requests \ {r} : errand'[s] = errand[s]
          /\ errand'[r].step = "written" /\ errand'[r].what = errand[r].what
          /\ errand'[r].previous = errand[r].previous
          /\ UNCHANGED <<owner, spoiled>>
      BY <1>4 DEF Photos!Write, Photos!TypeOK
    <2>2. \/ /\ files' = files \ {errand[r].previous} /\ strays' = strays
             /\ errand'[r].erased
          \/ /\ errand[r].previous \in Requests
             /\ strays' = strays \cup {errand[r].previous} /\ files' = files
             /\ errand'[r].erased = errand[r].erased
      BY <1>0, <1>4 DEF Photos!Write, Photos!Superseded, Photos!TypeOK
    <2>3. Photos!TypeOK'
      BY <1>0, <1>4, <2>2 DEF Photos!Write, Photos!Mishap, Photos!TypeOK
    <2>4. errand[r].previous \in Requests =>
             errand[r].previous # r /\ errand[errand[r].previous].step = "done"
      BY <2>1 DEF KeysAreCommitted
    <2>5. ~errand[r].erased
      BY <2>1 DEF WritersDelete
    <2>6. OneWriter' /\ UploadsAreThere' /\ WritersDelete'
      BY <1>0, <2>1, <2>2, <2>4, <2>5 DEF OneWriter, UploadsAreThere, WritersDelete, Photos!TypeOK
    <2>7. KeysAreCommitted'
      BY <1>0, <2>1, <2>2, <2>4 DEF KeysAreCommitted
    <2>8. RowHasItsFile'
      BY <1>0, <2>1, <2>2 DEF RowHasItsFile, OneWriter
    <2>9. Photos!NothingLeftBehind'
      BY <1>0, <2>1, <2>2 DEF Photos!NothingLeftBehind, Photos!TypeOK
    <2>10. QED
      BY <2>3, <2>6, <2>7, <2>8, <2>9
  <1>5. ASSUME NEW r \in Requests, Photos!AccountIsGone(r) PROVE AvatarInv'
    <2>1. /\ errand[r].step = "ready" /\ holder = None
          /\ strays' = IF errand[r].what = "replace" THEN strays \cup {r} ELSE strays
          /\ Photos!Leave(r)
          /\ UNCHANGED <<owner, holder, files, mishaps, spoiled>>
      BY <1>5 DEF Photos!AccountIsGone
    <2>2. /\ \A s \in Requests \ {r} : errand'[s] = errand[s]
          /\ errand'[r].step = "done" /\ errand'[r].previous = None
          /\ errand'[r].what = "none" /\ ~errand'[r].erased
      BY <2>1, LeaveEnds
    <2>3. Photos!TypeOK'
      BY <1>0, <2>1, LeaveEnds DEF Photos!TypeOK
    <2>4. OneWriter' /\ UploadsAreThere' /\ WritersDelete'
      BY <1>0, <2>1, <2>2 DEF OneWriter, UploadsAreThere, WritersDelete, Photos!TypeOK
    <2>5. KeysAreCommitted'
      BY <1>0, <2>1, <2>2 DEF KeysAreCommitted
    <2>6. RowHasItsFile'
      BY <1>0, <2>1, <2>2 DEF RowHasItsFile
    <2>7. Photos!NothingLeftBehind'
      BY <1>0, <2>1, <2>2 DEF Photos!NothingLeftBehind, UploadsAreThere, Photos!TypeOK
    <2>8. QED
      BY <2>3, <2>4, <2>5, <2>6, <2>7
  <1>6. ASSUME NEW r \in Requests, Photos!Commit(r) PROVE AvatarInv'
    <2>1. /\ errand[r].step = "written" /\ holder' = None
          /\ owner' = [there |-> errand[r].what # "delete",
                       avatar |-> IF errand[r].what = "replace" THEN r ELSE None]
          /\ strays' = strays \cup {key \in Photos!Overtaken(r) : Photos!Stored(key)}
          /\ Photos!Leave(r)
          /\ UNCHANGED <<files, mishaps, spoiled>>
      BY <1>6 DEF Photos!Commit
    <2>2. /\ \A s \in Requests \ {r} : errand'[s] = errand[s]
          /\ errand'[r].step = "done" /\ errand'[r].previous = None
          /\ errand'[r].what = "none" /\ ~errand'[r].erased
      BY <2>1, LeaveEnds
    <2>3. strays \subseteq strays'
      BY <2>1
    <2>4. owner.avatar \in files => owner.avatar \in strays'
      <3>1. owner.avatar \in files /\ owner.avatar # errand[r].previous =>
                owner.avatar \in strays'
        BY <1>0, <2>1 DEF Photos!Overtaken, KeysAreCommitted, Photos!TypeOK
      <3>2. owner.avatar \in files /\ owner.avatar = errand[r].previous =>
                owner.avatar \in strays'
        BY <1>0, <2>1, <2>3 DEF WritersDelete, Photos!TypeOK
      <3>3. QED
        BY <3>1, <3>2
    <2>5. Photos!TypeOK'
      <3>1. owner' \in [there : BOOLEAN, avatar : Photos!Photos] /\ strays' \subseteq Requests
        BY <1>0, <2>1 DEF Photos!TypeOK
      <3>2. QED
        BY <1>0, <2>1, <3>1, LeaveEnds DEF Photos!TypeOK
    <2>6. \A s \in Requests : s # r => errand[s].step # "written"
      BY <2>1 DEF OneWriter
    <2>7. OneWriter' /\ UploadsAreThere' /\ WritersDelete'
      BY <1>0, <2>1, <2>2, <2>6 DEF OneWriter, UploadsAreThere, WritersDelete, Photos!TypeOK
    <2>8. KeysAreCommitted'
      BY <1>0, <2>1, <2>2 DEF KeysAreCommitted
    <2>9. RowHasItsFile'
      BY <1>0, <2>1, <2>2 DEF RowHasItsFile, UploadsAreThere
    <2>10. Photos!NothingLeftBehind'
      BY <1>0, <2>1, <2>2, <2>3, <2>4 DEF Photos!NothingLeftBehind, UploadsAreThere, Photos!TypeOK
    <2>11. QED
      BY <2>5, <2>7, <2>8, <2>9, <2>10
  <1>7. ASSUME NEW r \in Requests, Photos!Cut(r) PROVE AvatarInv'
    <2>1. /\ errand[r].step \in {"ready", "written"}
          /\ holder' = IF holder = r THEN None ELSE holder
          /\ strays' = IF errand[r].what = "replace" THEN strays \cup {r} ELSE strays
          /\ spoiled' = IF errand[r].erased THEN spoiled \cup Photos!Superseded(errand[r])
                                            ELSE spoiled
          /\ Photos!Leave(r)
          /\ UNCHANGED <<owner, files>>
          /\ mishaps' = mishaps + 1
      BY <1>7 DEF Photos!Cut, Photos!Mishap
    <2>2. /\ \A s \in Requests \ {r} : errand'[s] = errand[s]
          /\ errand'[r].step = "done" /\ errand'[r].previous = None
          /\ errand'[r].what = "none" /\ ~errand'[r].erased
      BY <2>1, LeaveEnds
    <2>3. Photos!Superseded(errand[r]) \subseteq Requests
      BY <1>0 DEF Photos!Superseded
    <2>4. Photos!TypeOK'
      BY <1>0, <2>1, <2>3, LeaveEnds DEF Photos!TypeOK
    <2>5. OneWriter' /\ UploadsAreThere' /\ WritersDelete'
      BY <1>0, <2>1, <2>2 DEF OneWriter, UploadsAreThere, WritersDelete, Photos!TypeOK
    <2>6. KeysAreCommitted'
      BY <1>0, <2>1, <2>2 DEF KeysAreCommitted
    <2>7. RowHasItsFile'
      BY <1>0, <2>1, <2>2 DEF RowHasItsFile, Photos!Superseded
    <2>8. Photos!NothingLeftBehind'
      BY <1>0, <2>1, <2>2 DEF Photos!NothingLeftBehind, UploadsAreThere, Photos!TypeOK
    <2>9. QED
      BY <2>4, <2>5, <2>6, <2>7, <2>8
  <1>8. CASE UNCHANGED avatarVars
    BY <1>8 DEF avatarVars, Photos!TypeOK, OneWriter, KeysAreCommitted, UploadsAreThere,
                WritersDelete, RowHasItsFile, Photos!NothingLeftBehind
  <1>9. QED
    BY <1>1, <1>2, <1>3, <1>4, <1>5, <1>6, <1>7, <1>8 DEF Photos!Next

\* The photo an account shows exists, but for the moment before a commit, or for
\* good when that commit does not happen (avatar_service.py, replace and remove).
THEOREM AvatarTheorem == Spec => []AvatarIsThere
  <1> DEFINE Inv == served = "avatars" => AvatarInv
  <1>1. Init => Inv
    BY AvatarInit DEF Init
  <1>2. Inv /\ [Next]_vars => Inv'
    BY AvatarStep DEF Next, vars
  <1>3. Inv => AvatarIsThere
    BY DEF AvatarIsThere, Photos!AvatarIsThere, AvatarInv, RowHasItsFile, Photos!Stored,
           Photos!Keys
  <1>4. QED
    BY <1>1, <1>2, <1>3, PTL DEF Spec

\* No file is left behind in the store, but by a mishap or by requests that
\* overlapped (avatar_service.py, and delete_account of user_profile.py).
THEOREM FilesTheorem == Spec => []NothingLeftBehind
  <1> DEFINE Inv == served = "avatars" => AvatarInv
  <1>1. Init => Inv
    BY AvatarInit DEF Init
  <1>2. Inv /\ [Next]_vars => Inv'
    BY AvatarStep DEF Next, vars
  <1>3. Inv => NothingLeftBehind
    BY DEF NothingLeftBehind, AvatarInv
  <1>4. QED
    BY <1>1, <1>2, <1>3, PTL DEF Spec

-----------------------------------------------------------------------------
(* The one-time codes.                                                     *)

LEMMA CodesCounts ==
    ASSUME NEW S
    PROVE  /\ OneTime!IsFiniteSet(S) = IsFiniteSet(S)
           /\ OneTime!Cardinality(S) = Cardinality(S)
  <1>1. OneTime!IsFiniteSet(S) = IsFiniteSet(S)
    BY DEF OneTime!IsFiniteSet, IsFiniteSet
  <1>2. OneTime!Cardinality(S) = Cardinality(S)
    BY DEF OneTime!Cardinality, Cardinality
  <1>3. QED
    BY <1>1, <1>2

LEMMA CodesFacts ==
    /\ IsFiniteSet(Requests)
    /\ Home \in Addresses /\ Opening \notin Requests /\ None \notin Requests
    /\ None # Opening /\ Wrong \notin Requests /\ Wrong # Opening /\ None \notin Addresses
    /\ None \notin Nat /\ None \notin OneTime!User
    /\ OneTime!Codes = Requests \cup {Opening}
    /\ OneTime!Kinds = {"verification", "reset", "email_change"}
    /\ MaxAttempts \in Nat /\ MaxResends \in Nat /\ 1 <= MaxResends
    /\ CodeLife \in Nat /\ Hour \in Nat /\ 1 <= Hour
  BY ServicesAssumption, CodesCounts DEF OneTime!CodesConstants, OneTime!Codes, OneTime!Kinds

\* What a request does goes with how far it is.
RequestsAreSound ==
    \A r \in Requests :
        LET q == request[r]
        IN  /\ q.step \in {"new", "read", "looked", "counted", "done"} => q.draft = None
            /\ q.step \in {"new", "done"} => q.what = "none" /\ q.kind = "reset"
            /\ q.step = "read" => q.what \in {"issue", "check"}
            /\ q.step \in {"written", "cleared", "mailed"} => q.what = "issue"
            /\ q.step \in {"looked", "counted"} => q.what = "check"
            /\ q.what \in {"issue", "check"} => q.seen \in OneTime!User
            /\ q.moves => q.kind = "email_change"
            /\ q.step \in {"written", "cleared", "mailed"} /\ q.kind # "reset" =>
                  q.draft # None
            /\ q.what = "issue" \/ q.kind = "email_change" => q.to \in Addresses

\* The address moves once the account is verified.
AddressesAreSound ==
    /\ ~user.verified => user.email = Home
    /\ \A r \in Requests :
          /\ request[r].kind = "email_change" => user.verified
          /\ request[r].kind = "verification" /\ request[r].what = "issue" =>
                request[r].to = Home

\* Who holds what.
LocksAreHeld ==
    /\ \A r \in Requests : request[r].draft # None => rowLock = r
    /\ rowLock # None => request[rowLock].step \in {"written", "cleared", "mailed"}
    /\ \A k \in OneTime!Kinds : tryLock[k] # None =>
          /\ request[tryLock[k]].kind = k
          /\ request[tryLock[k]].step \in {"counted", "cleared", "mailed"}

\* The row that is about to be committed is the present one, but for what the
\* request writes.
DraftsAreCurrent ==
    \A r \in Requests :
        LET q == request[r]
        IN  q.draft # None =>
              /\ q.draft.email = user.email
              /\ q.draft.verified = user.verified
              /\ q.draft.pending = IF q.moves /\ q.step = "mailed" THEN q.to ELSE user.pending
              /\ \A k \in OneTime!Kinds :
                    q.draft.code[k].code = IF k = q.kind THEN r ELSE user.code[k].code

\* A code that left is on record, and so is the one a confirmation has read.
CodesAreMailed ==
    \A r \in Requests :
        LET q == request[r]
        IN  /\ q.step = "mailed" => <<r, q.to>> \in mailed
            /\ /\ q.what = "check" /\ q.kind = "email_change"
               /\ q.seen.code["email_change"].code # None
               => \/ <<q.seen.code["email_change"].code, q.to>> \in mailed
                  \/ q.seen.code["email_change"].code \in astray

CodesInv ==
    /\ OneTime!TypeOK
    /\ RequestsAreSound /\ AddressesAreSound /\ LocksAreHeld /\ DraftsAreCurrent
    /\ CodesAreMailed
    /\ OneTime!StoredCodeWasMailed /\ OneTime!AddressIsProved

\* The request that a lemma is about is the only one that moves.
OnlyOne(r) == \A s \in Requests \ {r} : request'[s] = request[s]

LEMMA UserFields ==
    ASSUME NEW u \in OneTime!User
    PROVE  /\ u.email \in Addresses /\ u.verified \in BOOLEAN
           /\ u.pending \in Addresses \cup {None} /\ u.sent \in Nat \cup {None}
           /\ u.resends \in Nat
           /\ \A k \in OneTime!Kinds :
                 u.code[k].code \in OneTime!Codes \cup {None} /\ u.code[k].at \in Nat
  BY DEF OneTime!User, OneTime!Code

\* A request that comes in.
LEMMA Starting ==
    ASSUME OneTime!TypeOK, NEW r \in Requests,
           NEW what \in {"issue", "check"}, NEW kind \in OneTime!Kinds,
           NEW to \in Addresses \cup {None}, NEW moves \in BOOLEAN,
           NEW guess \in OneTime!Codes \cup {Wrong, None},
           OneTime!Start(r, what, kind, to, moves, guess)
    PROVE  /\ request' \in [Requests -> OneTime!Request]
           /\ OnlyOne(r) /\ request[r].step = "new"
           /\ request'[r].step = "read" /\ request'[r].what = what
           /\ request'[r].kind = kind /\ request'[r].to = to /\ request'[r].moves = moves
           /\ request'[r].guess = guess /\ request'[r].seen = user
           /\ request'[r].draft = request[r].draft
           /\ UNCHANGED <<now, user, tries, rowLock, tryLock, cuts, mailed, astray, issuedAt,
                          guessed, beside, proof, regained, uncounted>>
  <1>1. request[r] \in OneTime!Request /\ user \in OneTime!User
    BY DEF OneTime!TypeOK
  <1> DEFINE q == [request[r] EXCEPT !.step = "read", !.what = what, !.kind = kind, !.to = to,
                                     !.moves = moves, !.guess = guess, !.seen = user]
  <1>2. /\ q \in OneTime!Request
        /\ q.step = "read" /\ q.what = what /\ q.kind = kind /\ q.to = to /\ q.moves = moves
        /\ q.guess = guess /\ q.seen = user /\ q.draft = request[r].draft
    BY <1>1 DEF OneTime!Request
  <1>3. request' = [request EXCEPT ![r] = q]
    BY DEF OneTime!Start
  <1> HIDE DEF q
  <1>4. QED
    BY <1>2, <1>3 DEF OneTime!TypeOK, OneTime!Start, OneTime!locks, OneTime!histories, OnlyOne

\* A request that is over.
LEMMA Ending ==
    ASSUME OneTime!TypeOK, NEW r \in Requests, OneTime!End(r)
    PROVE  /\ request' \in [Requests -> OneTime!Request]
           /\ OnlyOne(r)
           /\ request'[r].step = "done" /\ request'[r].what = "none"
           /\ request'[r].kind = "reset" /\ request'[r].draft = None /\ ~request'[r].moves
  <1>1. /\ OneTime!New \in OneTime!Request
        /\ OneTime!New.what = "none" /\ OneTime!New.kind = "reset"
        /\ OneTime!New.draft = None /\ ~OneTime!New.moves
    BY CodesFacts DEF OneTime!New, OneTime!Request
  <1> DEFINE q == [OneTime!New EXCEPT !.step = "done"]
  <1>2. \A w \in OneTime!Request :
           LET e == [w EXCEPT !.step = "done"]
           IN  /\ e \in OneTime!Request /\ e.step = "done" /\ e.what = w.what
               /\ e.kind = w.kind /\ e.draft = w.draft /\ e.moves = w.moves
    BY DEF OneTime!Request
  <1>3. /\ q \in OneTime!Request /\ q.step = "done" /\ q.what = "none" /\ q.kind = "reset"
        /\ q.draft = None /\ ~q.moves
    BY <1>1, <1>2
  <1>4. request' = [request EXCEPT ![r] = q]
    BY DEF OneTime!End
  <1> HIDE DEF q
  <1>5. QED
    BY <1>3, <1>4 DEF OneTime!TypeOK, OnlyOne

\* One that goes on: what it asked and what it read stay.
Goes(r, step, draft) ==
    \/ request' = [request EXCEPT ![r].step = step, ![r].draft = draft]
    \/ /\ request' = [request EXCEPT ![r].step = step]
       /\ draft = request[r].draft

LEMMA GoingOn ==
    ASSUME OneTime!TypeOK, NEW r \in Requests,
           NEW step \in {"written", "cleared", "mailed", "looked", "counted"},
           NEW draft \in OneTime!User \cup {None},
           Goes(r, step, draft)
    PROVE  /\ request' \in [Requests -> OneTime!Request]
           /\ OnlyOne(r)
           /\ request'[r].step = step /\ request'[r].draft = draft
           /\ request'[r].what = request[r].what /\ request'[r].kind = request[r].kind
           /\ request'[r].to = request[r].to /\ request'[r].moves = request[r].moves
           /\ request'[r].guess = request[r].guess /\ request'[r].seen = request[r].seen
  <1>1. request \in [Requests -> OneTime!Request]
    BY DEF OneTime!TypeOK
  <1>2. CASE request' = [request EXCEPT ![r].step = step, ![r].draft = draft]
    <2> DEFINE first == [request EXCEPT ![r].step = step]
    <2>1. /\ first \in [Requests -> OneTime!Request]
          /\ \A s \in Requests \ {r} : first[s] = request[s]
          /\ first[r].step = step /\ first[r].draft = request[r].draft
          /\ first[r].what = request[r].what
          /\ first[r].kind = request[r].kind /\ first[r].to = request[r].to
          /\ first[r].moves = request[r].moves /\ first[r].guess = request[r].guess
          /\ first[r].seen = request[r].seen
      BY <1>1 DEF OneTime!Request
    <2> DEFINE q == [first[r] EXCEPT !.draft = draft]
    <2>2. request' = [first EXCEPT ![r] = q]
      BY <1>2
    <2> HIDE DEF first
    <2>3. /\ q \in OneTime!Request
          /\ q.draft = draft /\ q.step = first[r].step
          /\ q.what = first[r].what /\ q.kind = first[r].kind
          /\ q.to = first[r].to /\ q.moves = first[r].moves
          /\ q.guess = first[r].guess /\ q.seen = first[r].seen
      BY <2>1 DEF OneTime!Request
    <2> HIDE DEF q
    <2>4. QED
      BY <1>2, <2>1, <2>2, <2>3 DEF OnlyOne
  <1>3. CASE /\ request' = [request EXCEPT ![r].step = step]
             /\ draft = request[r].draft
    BY <1>1, <1>3 DEF OneTime!Request, OnlyOne
  <1>4. QED
    BY <1>2, <1>3 DEF Goes

\* Locks that are given back.
LEMMA Unlocking ==
    ASSUME OneTime!TypeOK, NEW r \in Requests, OneTime!Unlock(r)
    PROVE  /\ rowLock' \in Requests \cup {None}
           /\ tryLock' \in [OneTime!Kinds -> Requests \cup {None}]
           /\ rowLock' = IF rowLock = r THEN None ELSE rowLock
           /\ \A k \in OneTime!Kinds :
                 tryLock'[k] = IF tryLock[k] = r THEN None ELSE tryLock[k]
  BY DEF OneTime!TypeOK, OneTime!Unlock

\* The rows that are written.
LEMMA RenewedFields ==
    ASSUME OneTime!TypeOK, NEW r \in Requests, request[r].seen \in OneTime!User
    PROVE  LET u == OneTime!Renewed(r, user)
           IN  /\ u \in OneTime!User
               /\ u.email = user.email /\ u.verified = user.verified
               /\ u.pending = user.pending
               /\ u.sent = now
               /\ u.resends = OneTime!Counted(request[r].seen, now)
               /\ \A k \in OneTime!Kinds :
                     u.code[k].code = IF k = request[r].kind THEN r ELSE user.code[k].code
  <1> DEFINE kind == request[r].kind
             code == [user.code EXCEPT ![kind] = [code |-> r, at |-> now]]
             n == OneTime!Counted(request[r].seen, now)
  <1>1. kind \in OneTime!Kinds /\ user \in OneTime!User /\ now \in Nat
    BY DEF OneTime!TypeOK, OneTime!Request
  <1>2. n \in Nat
    BY UserFields DEF OneTime!Counted
  <1>3. /\ code \in [OneTime!Kinds -> OneTime!Code]
        /\ \A k \in OneTime!Kinds : code[k].code = IF k = kind THEN r ELSE user.code[k].code
    BY <1>1, CodesFacts DEF OneTime!User, OneTime!Code
  <1>4. OneTime!Renewed(r, user) = [user EXCEPT !.code = code, !.sent = now, !.resends = n]
    BY DEF OneTime!Renewed
  <1> HIDE DEF kind, code, n
  <1>5. QED
    BY <1>1, <1>2, <1>3, <1>4 DEF OneTime!User, kind, n

LEMMA ConfirmedFields ==
    ASSUME OneTime!TypeOK, NEW r \in Requests,
           request[r].kind = "email_change" => request[r].to \in Addresses
    PROVE  LET u == OneTime!Confirmed(r, user)
               kind == request[r].kind
           IN  /\ u \in OneTime!User
               /\ u.email = IF kind = "email_change" THEN request[r].to ELSE user.email
               /\ u.verified = IF kind = "verification" THEN TRUE ELSE user.verified
               /\ u.pending = IF kind = "email_change" THEN None ELSE user.pending
               /\ u.sent = user.sent /\ u.resends = user.resends
               /\ \A k \in OneTime!Kinds :
                     u.code[k].code = IF k = kind THEN None ELSE user.code[k].code
  <1> DEFINE kind == request[r].kind
             code == [user.code EXCEPT ![kind] = OneTime!Absent]
             bare == [user EXCEPT !.code = code]
  <1>1. kind \in OneTime!Kinds /\ user \in OneTime!User
    BY DEF OneTime!TypeOK, OneTime!Request
  <1>2. OneTime!Absent \in OneTime!Code /\ OneTime!Absent.code = None
    BY DEF OneTime!Absent, OneTime!Code
  <1>3. /\ code \in [OneTime!Kinds -> OneTime!Code]
        /\ \A k \in OneTime!Kinds : code[k].code = IF k = kind THEN None ELSE user.code[k].code
    BY <1>1, <1>2 DEF OneTime!User
  <1> HIDE DEF code
  <1>4. /\ bare \in OneTime!User /\ bare.code = code /\ bare.email = user.email
        /\ bare.verified = user.verified /\ bare.pending = user.pending
        /\ bare.sent = user.sent /\ bare.resends = user.resends
    BY <1>1, <1>3 DEF OneTime!User
  <1>5. OneTime!Confirmed(r, user) =
            CASE kind = "verification" -> [bare EXCEPT !.verified = TRUE]
              [] kind = "reset"        -> bare
              [] kind = "email_change" -> [bare EXCEPT !.email = request[r].to, !.pending = None]
    BY DEF OneTime!Confirmed, code
  <1> HIDE DEF bare, kind
  <1>6. CASE kind = "verification"
    BY <1>3, <1>4, <1>5, <1>6 DEF OneTime!User, kind
  <1>7. CASE kind = "reset"
    BY <1>3, <1>4, <1>5, <1>7 DEF OneTime!User, kind
  <1>8. CASE kind = "email_change"
    BY <1>3, <1>4, <1>5, <1>8 DEF OneTime!User, kind
  <1>9. QED
    BY <1>1, <1>6, <1>7, <1>8, CodesFacts

LEMMA CodesInit == OneTime!Init => CodesInv
  <1> SUFFICES ASSUME OneTime!Init PROVE CodesInv
    OBVIOUS
  <1>1. OneTime!New \in OneTime!Request /\ OneTime!Absent \in OneTime!Code
    BY CodesFacts DEF OneTime!New, OneTime!Request, OneTime!Absent, OneTime!Code
  <1>2. /\ OneTime!New.step = "new" /\ OneTime!New.what = "none" /\ OneTime!New.kind = "reset"
        /\ OneTime!New.draft = None /\ ~OneTime!New.moves
    BY DEF OneTime!New
  <1>3. PICK verified \in BOOLEAN :
            user = [email |-> Home, verified |-> verified, pending |-> None,
                    code |-> [k \in OneTime!Kinds |->
                        IF k = "verification" /\ ~verified THEN [code |-> Opening, at |-> 0]
                                                           ELSE OneTime!Absent],
                    sent |-> IF verified THEN None ELSE 0,
                    resends |-> IF verified THEN 0 ELSE 1]
    BY DEF OneTime!Init
  <1>4. /\ user \in OneTime!User
        /\ user.email = Home /\ user.pending = None
        /\ \A k \in OneTime!Kinds : user.code[k].code \in {None, Opening}
    BY <1>1, <1>3, CodesFacts DEF OneTime!User, OneTime!Code, OneTime!Absent
  <1>5. OneTime!TypeOK
    BY <1>1, <1>4, CodesFacts DEF OneTime!TypeOK, OneTime!Init
  <1>6. \A r \in Requests : request[r] = OneTime!New
    BY DEF OneTime!Init
  <1>7. RequestsAreSound /\ AddressesAreSound /\ LocksAreHeld /\ DraftsAreCurrent /\ CodesAreMailed
    BY <1>2, <1>4, <1>6, CodesFacts
       DEF RequestsAreSound, AddressesAreSound, LocksAreHeld, DraftsAreCurrent, CodesAreMailed,
           OneTime!Init
  <1>8. OneTime!StoredCodeWasMailed /\ OneTime!AddressIsProved
    BY <1>4, CodesFacts DEF OneTime!StoredCodeWasMailed, OneTime!AddressIsProved, OneTime!Init
  <1>9. QED
    BY <1>5, <1>7, <1>8 DEF CodesInv

\* A request that comes in leaves all of it in place.
LEMMA StartKeeps ==
    ASSUME CodesInv, NEW r \in Requests,
           NEW what \in {"issue", "check"}, NEW kind \in OneTime!Kinds,
           NEW to \in Addresses \cup {None}, NEW moves \in BOOLEAN,
           NEW guess \in OneTime!Codes \cup {Wrong, None},
           OneTime!Start(r, what, kind, to, moves, guess),
           moves => kind = "email_change",
           what = "issue" => to \in Addresses,
           kind = "email_change" => user.verified /\ to \in Addresses,
           kind = "verification" /\ what = "issue" => to = Home,
           kind = "email_change" /\ what = "check" => to = user.pending
    PROVE  CodesInv'
  <1>1. /\ request' \in [Requests -> OneTime!Request]
        /\ OnlyOne(r) /\ request[r].step = "new"
        /\ request'[r].step = "read" /\ request'[r].what = what
        /\ request'[r].kind = kind /\ request'[r].to = to /\ request'[r].moves = moves
        /\ request'[r].guess = guess /\ request'[r].seen = user
        /\ request'[r].draft = request[r].draft
    BY Starting DEF CodesInv
  <1>2. UNCHANGED <<now, user, tries, rowLock, tryLock, cuts, mailed, astray, issuedAt,
                    guessed, beside, proof, regained, uncounted>>
    BY Starting DEF CodesInv
  <1>3. /\ OneTime!TypeOK /\ RequestsAreSound /\ AddressesAreSound /\ LocksAreHeld
        /\ DraftsAreCurrent /\ CodesAreMailed
        /\ OneTime!StoredCodeWasMailed /\ OneTime!AddressIsProved
    BY DEF CodesInv
  <1>4. user \in OneTime!User /\ request[r].draft = None
    BY <1>1, <1>3 DEF OneTime!TypeOK, RequestsAreSound
  <1>5. OneTime!TypeOK'
    BY <1>1, <1>2, <1>3 DEF OneTime!TypeOK
  <1>6. RequestsAreSound'
    BY <1>1, <1>2, <1>3, <1>4 DEF RequestsAreSound, OnlyOne
  <1>7. AddressesAreSound'
    BY <1>1, <1>2, <1>3 DEF AddressesAreSound, OnlyOne
  <1>8. LocksAreHeld'
    <2>1. \A k \in OneTime!Kinds : tryLock[k] \in Requests \cup {None}
      BY <1>3 DEF OneTime!TypeOK
    <2>2. rowLock \in Requests \cup {None}
      BY <1>3 DEF OneTime!TypeOK
    <2>3. rowLock # r /\ \A k \in OneTime!Kinds : tryLock[k] # r
      BY <1>1, <1>3, CodesFacts DEF LocksAreHeld
    <2>4. QED
      BY <1>1, <1>2, <1>3, <1>4, <2>1, <2>2, <2>3 DEF LocksAreHeld, OnlyOne
  <1>9. DraftsAreCurrent'
    BY <1>1, <1>2, <1>3, <1>4 DEF DraftsAreCurrent, OnlyOne
  <1>10. CodesAreMailed'
    <2>1. kind = "email_change" /\ what = "check" /\ user.code["email_change"].code # None =>
             \/ <<user.code["email_change"].code, to>> \in mailed
             \/ user.code["email_change"].code \in astray
      BY <1>3, CodesFacts DEF OneTime!StoredCodeWasMailed
    <2>2. QED
      BY <1>1, <1>2, <1>3, <2>1 DEF CodesAreMailed, OnlyOne
  <1>11. OneTime!StoredCodeWasMailed' /\ OneTime!AddressIsProved'
    BY <1>2, <1>3 DEF OneTime!StoredCodeWasMailed, OneTime!AddressIsProved
  <1>12. QED
    BY <1>5, <1>6, <1>7, <1>8, <1>9, <1>10, <1>11 DEF CodesInv

LEMMA IssueKeeps ==
    ASSUME CodesInv, NEW r \in Requests, OneTime!Issue(r)
    PROVE  CodesInv'
  <1>1. user \in OneTime!User /\ AddressesAreSound
    BY DEF CodesInv, OneTime!TypeOK
  <1>2. user.email \in Addresses /\ user.pending \in Addresses \cup {None}
    BY <1>1, UserFields
  <1>3. CASE ~user.verified /\ OneTime!Start(r, "issue", "verification", user.email, FALSE, None)
    BY <1>1, <1>2, <1>3, StartKeeps, CodesFacts DEF AddressesAreSound
  <1>4. CASE OneTime!Start(r, "issue", "reset", user.email, FALSE, None)
    BY <1>2, <1>4, StartKeeps, CodesFacts
  <1>5. CASE /\ user.verified
             /\ \E to \in Addresses \ {user.email} :
                   OneTime!Start(r, "issue", "email_change", to, TRUE, None)
    BY <1>5, StartKeeps, CodesFacts
  <1>6. CASE /\ user.verified /\ user.pending # None
             /\ OneTime!Start(r, "issue", "email_change", user.pending, FALSE, None)
    BY <1>2, <1>6, StartKeeps, CodesFacts
  <1>7. QED
    BY <1>3, <1>4, <1>5, <1>6 DEF OneTime!Issue

LEMMA PresentKeeps ==
    ASSUME CodesInv, NEW r \in Requests, OneTime!Present(r)
    PROVE  CodesInv'
  <1>1. user \in OneTime!User /\ mailed \subseteq OneTime!Codes \X Addresses
    BY DEF CodesInv, OneTime!TypeOK
  <1>2. user.pending \in Addresses \cup {None}
    BY <1>1, UserFields
  <1>3. PICK guess \in {m[1] : m \in mailed} \cup {Wrong} :
            \/ ~user.verified /\ OneTime!Start(r, "check", "verification", None, FALSE, guess)
            \/ OneTime!Start(r, "check", "reset", None, FALSE, guess)
            \/ /\ user.verified /\ user.pending # None
               /\ OneTime!Start(r, "check", "email_change", user.pending, FALSE, guess)
    BY DEF OneTime!Present
  <1>4. guess \in OneTime!Codes \cup {Wrong, None}
    BY <1>1, <1>3
  <1>5. CASE ~user.verified /\ OneTime!Start(r, "check", "verification", None, FALSE, guess)
    BY <1>4, <1>5, StartKeeps, CodesFacts
  <1>6. CASE OneTime!Start(r, "check", "reset", None, FALSE, guess)
    BY <1>4, <1>6, StartKeeps, CodesFacts
  <1>7. CASE /\ user.verified /\ user.pending # None
             /\ OneTime!Start(r, "check", "email_change", user.pending, FALSE, guess)
    BY <1>2, <1>4, <1>7, StartKeeps, CodesFacts
  <1>8. QED
    BY <1>3, <1>5, <1>6, <1>7

\* The conjuncts that a step of a request leaves alone when the account, the
\* mails and what the request asked stay.
LEMMA Undisturbed ==
    ASSUME CodesInv, NEW r \in Requests, OnlyOne(r),
           UNCHANGED <<user, proof, mailed, astray>>,
           request'[r].what = request[r].what, request'[r].kind = request[r].kind,
           request'[r].to = request[r].to, request'[r].seen = request[r].seen,
           request'[r].step # "mailed"
    PROVE  /\ AddressesAreSound' /\ CodesAreMailed'
           /\ OneTime!StoredCodeWasMailed' /\ OneTime!AddressIsProved'
  <1>1. AddressesAreSound'
    BY DEF CodesInv, AddressesAreSound, OnlyOne
  <1>2. CodesAreMailed'
    BY DEF CodesInv, CodesAreMailed, OnlyOne
  <1>3. OneTime!StoredCodeWasMailed' /\ OneTime!AddressIsProved'
    BY DEF CodesInv, OneTime!StoredCodeWasMailed, OneTime!AddressIsProved
  <1>4. QED
    BY <1>1, <1>2, <1>3

LEMMA WriteKeeps ==
    ASSUME CodesInv, NEW r \in Requests, OneTime!Write(r)
    PROVE  CodesInv'
  <1>1. /\ OneTime!TypeOK /\ RequestsAreSound /\ AddressesAreSound /\ LocksAreHeld
        /\ DraftsAreCurrent /\ CodesAreMailed
    BY DEF CodesInv
  <1>2. /\ request[r].step = "read" /\ request[r].what = "issue"
        /\ UNCHANGED <<now, user, tries, tryLock, cuts, mailed, astray, issuedAt, guessed, beside,
                       proof, regained, uncounted>>
    BY DEF OneTime!Write, OneTime!histories
  <1>3. /\ request[r] \in OneTime!Request /\ request[r].seen \in OneTime!User
        /\ request[r].draft = None /\ user \in OneTime!User
        /\ rowLock \in Requests \cup {None}
        /\ \A k \in OneTime!Kinds : tryLock[k] \in Requests \cup {None}
    BY <1>1, <1>2 DEF OneTime!TypeOK, RequestsAreSound
  <1>4. \A k \in OneTime!Kinds : tryLock[k] # r
    BY <1>1, <1>2, <1>3, CodesFacts DEF LocksAreHeld
  <1>5. CASE /\ OneTime!Free(rowLock, r)
             /\ rowLock' = r
             /\ request' = [request EXCEPT ![r].step = "written",
                                           ![r].draft = OneTime!Renewed(r, user)]
    <2> DEFINE u == OneTime!Renewed(r, user)
    <2>1. /\ u \in OneTime!User
          /\ u.email = user.email /\ u.verified = user.verified /\ u.pending = user.pending
          /\ \A k \in OneTime!Kinds :
                u.code[k].code = IF k = request[r].kind THEN r ELSE user.code[k].code
      BY <1>1, <1>3, RenewedFields
    <2> HIDE DEF u
    <2>3. /\ request' \in [Requests -> OneTime!Request]
          /\ OnlyOne(r)
          /\ request'[r].step = "written" /\ request'[r].draft = u
          /\ request'[r].what = request[r].what /\ request'[r].kind = request[r].kind
          /\ request'[r].to = request[r].to /\ request'[r].moves = request[r].moves
          /\ request'[r].seen = request[r].seen
      <3>1. Goes(r, "written", u)
        BY <1>5 DEF u, Goes
      <3>2. QED
        BY <1>1, <2>1, <3>1, GoingOn
    <2>4. OneTime!TypeOK'
      BY <1>1, <1>2, <1>5, <2>3 DEF OneTime!TypeOK
    <2>5. RequestsAreSound'
      BY <1>1, <1>2, <2>1, <2>3, CodesFacts DEF RequestsAreSound, OnlyOne
    <2>6. LocksAreHeld'
      BY <1>1, <1>2, <1>3, <1>4, <1>5, <2>3, CodesFacts
         DEF LocksAreHeld, OnlyOne, OneTime!Free
    <2>7. DraftsAreCurrent'
      BY <1>1, <1>2, <2>1, <2>3, CodesFacts DEF DraftsAreCurrent, OnlyOne
    <2>8. QED
      BY <1>2, <2>3, <2>4, <2>5, <2>6, <2>7, Undisturbed DEF CodesInv
  <1>6. CASE /\ UNCHANGED rowLock /\ request[r].kind = "reset"
             /\ request' = [request EXCEPT ![r].step = "written"]
    <2>2. /\ request' \in [Requests -> OneTime!Request]
          /\ OnlyOne(r)
          /\ request'[r].step = "written" /\ request'[r].draft = None
          /\ request'[r].what = request[r].what /\ request'[r].kind = request[r].kind
          /\ request'[r].to = request[r].to /\ request'[r].moves = request[r].moves
          /\ request'[r].seen = request[r].seen
      <3>1. Goes(r, "written", None)
        BY <1>3, <1>6 DEF Goes
      <3>2. QED
        BY <1>1, <3>1, GoingOn
    <2>3. OneTime!TypeOK'
      BY <1>1, <1>2, <1>6, <2>2 DEF OneTime!TypeOK
    <2>4. RequestsAreSound'
      BY <1>1, <1>2, <1>6, <2>2 DEF RequestsAreSound, OnlyOne
    <2>5. LocksAreHeld'
      BY <1>1, <1>2, <1>3, <1>4, <1>6, <2>2, CodesFacts DEF LocksAreHeld, OnlyOne
    <2>6. DraftsAreCurrent'
      BY <1>1, <1>2, <2>2 DEF DraftsAreCurrent, OnlyOne
    <2>7. QED
      BY <1>2, <2>2, <2>3, <2>4, <2>5, <2>6, Undisturbed DEF CodesInv
  <1>7. QED
    BY <1>5, <1>6 DEF OneTime!Write, OneTime!StillThere

LEMMA ClearKeeps ==
    ASSUME CodesInv, NEW r \in Requests, OneTime!Clear(r)
    PROVE  CodesInv'
  <1>1. /\ OneTime!TypeOK /\ RequestsAreSound /\ AddressesAreSound /\ LocksAreHeld
        /\ DraftsAreCurrent /\ CodesAreMailed
    BY DEF CodesInv
  <1>2. /\ request[r].step = "written"
        /\ request' = [request EXCEPT ![r].step = "cleared"]
        /\ UNCHANGED <<now, user, tries, rowLock, cuts, mailed, astray, issuedAt, guessed, beside,
                       proof, regained, uncounted>>
    BY DEF OneTime!Clear, OneTime!histories
  <1>3. /\ request[r] \in OneTime!Request
        /\ rowLock \in Requests \cup {None}
        /\ \A k \in OneTime!Kinds : tryLock[k] \in Requests \cup {None}
    BY <1>1 DEF OneTime!TypeOK
  <1>4. request[r].draft \in OneTime!User \cup {None}
    BY <1>3 DEF OneTime!Request
  <1>5. /\ request' \in [Requests -> OneTime!Request]
        /\ OnlyOne(r)
        /\ request'[r].step = "cleared" /\ request'[r].draft = request[r].draft
        /\ request'[r].what = request[r].what /\ request'[r].kind = request[r].kind
        /\ request'[r].to = request[r].to /\ request'[r].moves = request[r].moves
        /\ request'[r].seen = request[r].seen
    <2>1. Goes(r, "cleared", request[r].draft)
      BY <1>2 DEF Goes
    <2>2. QED
      BY <1>1, <1>4, <2>1, GoingOn
  <1>6. /\ tryLock' \in [OneTime!Kinds -> Requests \cup {None}]
        /\ \A k \in OneTime!Kinds :
              tryLock'[k] = tryLock[k] \/ (tryLock'[k] = r /\ k = request[r].kind)
    BY <1>1 DEF OneTime!Clear, OneTime!Forgiven, OneTime!TypeOK
  <1>7. OneTime!TypeOK'
    BY <1>1, <1>2, <1>5, <1>6 DEF OneTime!TypeOK
  <1>8. RequestsAreSound'
    BY <1>1, <1>2, <1>5 DEF RequestsAreSound, OnlyOne
  <1>9. LocksAreHeld'
    <2>1. \A k \in OneTime!Kinds : tryLock[k] # r
      BY <1>1, <1>2, <1>3, CodesFacts DEF LocksAreHeld
    <2>2. (\A s \in Requests : request[s].draft # None => rowLock = s)'
      BY <1>1, <1>2, <1>5 DEF LocksAreHeld, OnlyOne
    <2>3. (rowLock # None => request[rowLock].step \in {"written", "cleared", "mailed"})'
      BY <1>1, <1>2, <1>3, <1>5 DEF LocksAreHeld, OnlyOne
    <2>4. ASSUME NEW k \in OneTime!Kinds, tryLock'[k] # None
          PROVE  /\ request'[tryLock'[k]].kind = k
                 /\ request'[tryLock'[k]].step \in {"counted", "cleared", "mailed"}
      <3>1. CASE tryLock'[k] = tryLock[k]
        BY <1>1, <1>3, <1>5, <2>1, <2>4, <3>1 DEF LocksAreHeld, OnlyOne
      <3>2. CASE tryLock'[k] = r /\ k = request[r].kind
        BY <1>5, <3>2
      <3>3. QED
        BY <1>6, <3>1, <3>2
    <2>5. QED
      BY <2>2, <2>3, <2>4 DEF LocksAreHeld
  <1>10. DraftsAreCurrent'
    BY <1>1, <1>2, <1>5 DEF DraftsAreCurrent, OnlyOne
  <1>11. QED
    BY <1>2, <1>5, <1>7, <1>8, <1>9, <1>10, Undisturbed DEF CodesInv

LEMMA MailKeeps ==
    ASSUME CodesInv, NEW r \in Requests, OneTime!Mail(r)
    PROVE  CodesInv'
  <1>1. /\ OneTime!TypeOK /\ RequestsAreSound /\ AddressesAreSound /\ LocksAreHeld
        /\ DraftsAreCurrent /\ CodesAreMailed
        /\ OneTime!StoredCodeWasMailed /\ OneTime!AddressIsProved
    BY DEF CodesInv
  <1> DEFINE old == request[r].draft
             to == request[r].to
             draft == IF request[r].moves THEN [old EXCEPT !.pending = to] ELSE old
  <1>2. /\ request[r].step = "cleared" /\ request[r].what = "issue"
        /\ request' = [request EXCEPT ![r].step = "mailed", ![r].draft = draft]
        /\ mailed' = mailed \cup {<<r, to>>}
        /\ UNCHANGED <<now, user, tries, rowLock, tryLock, cuts, astray, issuedAt, guessed, beside,
                       proof, regained, uncounted>>
    BY <1>1 DEF OneTime!Mail, OneTime!locks, RequestsAreSound
  <1>3. /\ request[r] \in OneTime!Request
        /\ rowLock \in Requests \cup {None}
        /\ \A k \in OneTime!Kinds : tryLock[k] \in Requests \cup {None}
    BY <1>1 DEF OneTime!TypeOK
  <1>4. /\ old \in OneTime!User \cup {None}
        /\ to \in Addresses
        /\ request[r].moves => request[r].kind = "email_change"
    BY <1>1, <1>2, <1>3 DEF OneTime!Request, RequestsAreSound
  <1>5. /\ draft \in OneTime!User \cup {None}
        /\ draft # None <=> old # None
        /\ old # None =>
              /\ draft.email = old.email /\ draft.verified = old.verified
              /\ draft.code = old.code
              /\ draft.pending = IF request[r].moves THEN to ELSE old.pending
    <2>1. CASE request[r].moves
      <3>1. old \in OneTime!User /\ old # None
        BY <1>1, <1>2, <1>4, <2>1 DEF RequestsAreSound
      <3>2. QED
        BY <1>4, <2>1, <3>1, CodesFacts DEF OneTime!User
    <2>2. CASE ~request[r].moves
      BY <1>4, <2>2
    <2>3. QED
      BY <2>1, <2>2
  <1> HIDE DEF draft
  <1>6. /\ request' \in [Requests -> OneTime!Request]
        /\ OnlyOne(r)
        /\ request'[r].step = "mailed" /\ request'[r].draft = draft
        /\ request'[r].what = request[r].what /\ request'[r].kind = request[r].kind
        /\ request'[r].to = to /\ request'[r].moves = request[r].moves
        /\ request'[r].seen = request[r].seen
    <2>1. Goes(r, "mailed", draft)
      BY <1>2 DEF Goes
    <2>2. QED
      BY <1>1, <1>4, <1>5, <2>1, GoingOn
  <1> HIDE DEF old, to
  <1>7. OneTime!TypeOK'
    BY <1>1, <1>2, <1>4, <1>6, CodesFacts DEF OneTime!TypeOK
  <1>8. RequestsAreSound'
    BY <1>1, <1>2, <1>4, <1>5, <1>6 DEF RequestsAreSound, OnlyOne, old, to
  <1>9. AddressesAreSound'
    BY <1>1, <1>2, <1>6 DEF AddressesAreSound, OnlyOne, to
  <1>10. LocksAreHeld'
    <2>1. (\A s \in Requests : request[s].draft # None => rowLock = s)'
      BY <1>1, <1>2, <1>5, <1>6 DEF LocksAreHeld, OnlyOne, old
    <2>2. (rowLock # None => request[rowLock].step \in {"written", "cleared", "mailed"})'
      BY <1>1, <1>2, <1>3, <1>6 DEF LocksAreHeld, OnlyOne
    <2>3. (\A k \in OneTime!Kinds : tryLock[k] # None =>
              /\ request[tryLock[k]].kind = k
              /\ request[tryLock[k]].step \in {"counted", "cleared", "mailed"})'
      BY <1>1, <1>2, <1>3, <1>6 DEF LocksAreHeld, OnlyOne
    <2>4. QED
      BY <2>1, <2>2, <2>3 DEF LocksAreHeld
  <1>11. DraftsAreCurrent'
    <2>1. old # None => request[r].draft = old /\ request[r].step # "mailed"
      BY <1>2 DEF old
    <2>2. QED
      BY <1>1, <1>2, <1>5, <1>6, <2>1 DEF DraftsAreCurrent, OnlyOne
  <1>12. CodesAreMailed'
    BY <1>1, <1>2, <1>6 DEF CodesAreMailed, OnlyOne
  <1>13. OneTime!StoredCodeWasMailed' /\ OneTime!AddressIsProved'
    BY <1>1, <1>2 DEF OneTime!StoredCodeWasMailed, OneTime!AddressIsProved
  <1>14. QED
    BY <1>7, <1>8, <1>9, <1>10, <1>11, <1>12, <1>13 DEF CodesInv

\* Looking at the tries, and counting one.
LEMMA CheckKeeps ==
    ASSUME CodesInv, NEW r \in Requests, OneTime!Look(r) \/ OneTime!Count(r)
    PROVE  CodesInv'
  <1>1. /\ OneTime!TypeOK /\ RequestsAreSound /\ AddressesAreSound /\ LocksAreHeld
        /\ DraftsAreCurrent /\ CodesAreMailed
    BY DEF CodesInv
  <1>2. PICK step \in {"looked", "counted"} : Goes(r, step, request[r].draft)
    <2>1. CASE OneTime!Look(r)
      <3>1. Goes(r, "looked", request[r].draft)
        BY <2>1 DEF OneTime!Look, Goes
      <3>2. QED
        BY <3>1
    <2>2. CASE OneTime!Count(r)
      <3>1. Goes(r, "counted", request[r].draft)
        BY <2>2 DEF OneTime!Count, Goes
      <3>2. QED
        BY <3>1
    <2>3. QED
      BY <2>1, <2>2
  <1>3. /\ request[r].what = "check" /\ request[r].draft = None
        /\ request[r].step \in {"read", "looked"}
        /\ UNCHANGED <<now, user, tries, rowLock, cuts, mailed, astray, issuedAt, proof,
                       regained, uncounted>>
    BY <1>1 DEF OneTime!Look, OneTime!Count, OneTime!locks, OneTime!histories, RequestsAreSound
  <1>4. /\ request[r] \in OneTime!Request /\ rowLock \in Requests \cup {None}
        /\ \A k \in OneTime!Kinds : tryLock[k] \in Requests \cup {None}
    BY <1>1 DEF OneTime!TypeOK
  <1>5. /\ request' \in [Requests -> OneTime!Request]
        /\ OnlyOne(r)
        /\ request'[r].step = step /\ request'[r].draft = None
        /\ request'[r].what = request[r].what /\ request'[r].kind = request[r].kind
        /\ request'[r].to = request[r].to /\ request'[r].moves = request[r].moves
        /\ request'[r].seen = request[r].seen
    BY <1>1, <1>2, <1>3, GoingOn
  <1>6. /\ tryLock' \in [OneTime!Kinds -> Requests \cup {None}]
        /\ \A k \in OneTime!Kinds :
              \/ tryLock'[k] = tryLock[k]
              \/ tryLock'[k] = r /\ k = request[r].kind /\ step = "counted"
        /\ guessed' \in [Requests -> OneTime!Codes \cup {None}] /\ beside' \in Nat
    <2>1. /\ request[r].kind \in OneTime!Kinds
          /\ guessed \in [Requests -> OneTime!Codes \cup {None}] /\ beside \in Nat
          /\ tryLock \in [OneTime!Kinds -> Requests \cup {None}]
      BY <1>1, <1>4 DEF OneTime!Request, OneTime!TypeOK
    <2>2. CASE OneTime!Look(r)
      <3> DEFINE c == request[r].seen.code[request[r].kind].code
                 n == OneTime!Cardinality(OneTime!UnderWay(c))
      <3>1. c \in OneTime!Codes \cup {None}
        <4>1. request[r].seen \in OneTime!User
          BY <1>1, <1>3 DEF RequestsAreSound
        <4>2. QED
          BY <2>1, <4>1, UserFields
      <3>2. n \in Nat
        <4>1. OneTime!UnderWay(c) \subseteq Requests
          BY DEF OneTime!UnderWay
        <4>2. QED
          BY <4>1, CodesFacts, CodesCounts, FS_Subset, FS_CardinalityType
      <3>3. /\ UNCHANGED tryLock
            /\ IF c # None /\ user.code[request[r].kind].code = c
               THEN guessed' = [guessed EXCEPT ![r] = c] /\ beside' = IF n > beside THEN n ELSE beside
               ELSE UNCHANGED <<guessed, beside>>
        BY <2>2 DEF OneTime!Look, OneTime!locks
      <3> HIDE DEF c, n
      <3>4. QED
        BY <2>1, <3>1, <3>2, <3>3
    <2>3. CASE OneTime!Count(r)
      <3>1. step = "counted"
        <4>1. request' = [request EXCEPT ![r].step = "counted"]
          BY <2>3 DEF OneTime!Count
        <4>2. request'[r].step = "counted"
          BY <1>1, <4>1 DEF OneTime!TypeOK, OneTime!Request
        <4>3. QED
          BY <1>5, <4>2
      <3>2. /\ tryLock' = [tryLock EXCEPT ![request[r].kind] = r]
            /\ UNCHANGED <<guessed, beside>>
        BY <2>3 DEF OneTime!Count, OneTime!histories
      <3>3. QED
        BY <2>1, <3>1, <3>2
    <2>4. QED
      BY <2>2, <2>3
  <1>7. OneTime!TypeOK'
    BY <1>1, <1>3, <1>5, <1>6 DEF OneTime!TypeOK
  <1>8. RequestsAreSound'
    BY <1>1, <1>3, <1>5 DEF RequestsAreSound, OnlyOne
  <1>9. LocksAreHeld'
    <2>1. rowLock # r /\ \A k \in OneTime!Kinds : tryLock[k] # r
      BY <1>1, <1>3, <1>4, CodesFacts DEF LocksAreHeld
    <2>2. (\A s \in Requests : request[s].draft # None => rowLock = s)'
      BY <1>1, <1>3, <1>5 DEF LocksAreHeld, OnlyOne
    <2>3. (rowLock # None => request[rowLock].step \in {"written", "cleared", "mailed"})'
      BY <1>1, <1>3, <1>4, <1>5, <2>1 DEF LocksAreHeld, OnlyOne
    <2>4. ASSUME NEW k \in OneTime!Kinds, tryLock'[k] # None
          PROVE  /\ request'[tryLock'[k]].kind = k
                 /\ request'[tryLock'[k]].step \in {"counted", "cleared", "mailed"}
      <3>1. CASE tryLock'[k] = tryLock[k]
        BY <1>1, <1>4, <1>5, <2>1, <2>4, <3>1 DEF LocksAreHeld, OnlyOne
      <3>2. CASE tryLock'[k] = r /\ k = request[r].kind /\ step = "counted"
        BY <1>5, <3>2
      <3>3. QED
        BY <1>6, <3>1, <3>2
    <2>5. QED
      BY <2>2, <2>3, <2>4 DEF LocksAreHeld
  <1>10. DraftsAreCurrent'
    BY <1>1, <1>3, <1>5 DEF DraftsAreCurrent, OnlyOne
  <1>11. QED
    BY <1>3, <1>5, <1>7, <1>8, <1>9, <1>10, Undisturbed DEF CodesInv

\* A request that is over and has given its locks back holds none.
LEMMA NoLockLeft ==
    ASSUME CodesInv, NEW r \in Requests, OneTime!End(r), OneTime!Unlock(r)
    PROVE  /\ RequestsAreSound' /\ LocksAreHeld'
           /\ request' \in [Requests -> OneTime!Request]
           /\ rowLock' \in Requests \cup {None}
           /\ tryLock' \in [OneTime!Kinds -> Requests \cup {None}]
           /\ \A s \in Requests : request'[s].draft # None => s # r /\ rowLock = s
           /\ OnlyOne(r)
           /\ request'[r].step = "done" /\ request'[r].what = "none"
           /\ request'[r].kind = "reset" /\ request'[r].draft = None
  <1>1. /\ OneTime!TypeOK /\ RequestsAreSound /\ LocksAreHeld
    BY DEF CodesInv
  <1>2. /\ request' \in [Requests -> OneTime!Request]
        /\ OnlyOne(r)
        /\ request'[r].step = "done" /\ request'[r].what = "none"
        /\ request'[r].kind = "reset" /\ request'[r].draft = None /\ ~request'[r].moves
    BY <1>1, Ending
  <1>3. /\ rowLock' \in Requests \cup {None}
        /\ tryLock' \in [OneTime!Kinds -> Requests \cup {None}]
        /\ rowLock' = IF rowLock = r THEN None ELSE rowLock
        /\ \A k \in OneTime!Kinds :
              tryLock'[k] = IF tryLock[k] = r THEN None ELSE tryLock[k]
    BY <1>1, Unlocking
  <1>4. /\ rowLock \in Requests \cup {None}
        /\ \A k \in OneTime!Kinds : tryLock[k] \in Requests \cup {None}
    BY <1>1 DEF OneTime!TypeOK
  <1>5. RequestsAreSound'
    BY <1>1, <1>2, CodesFacts DEF RequestsAreSound, OnlyOne
  <1>6. LocksAreHeld'
    BY <1>1, <1>2, <1>3, <1>4 DEF LocksAreHeld, OnlyOne
  <1>7. \A s \in Requests : request'[s].draft # None => s # r /\ rowLock = s
    BY <1>1, <1>2 DEF LocksAreHeld, OnlyOne
  <1>8. QED
    BY <1>2, <1>3, <1>5, <1>6, <1>7

\* One that ends without having written anything for others to see.
LEMMA EndKeeps ==
    ASSUME CodesInv, NEW r \in Requests, OneTime!End(r), OneTime!Unlock(r),
           UNCHANGED <<now, user, mailed, astray, issuedAt, proof, regained, uncounted>>,
           tries' \in [OneTime!Kinds -> Nat], cuts' \in Nat,
           guessed' \in [Requests -> OneTime!Codes \cup {None}], beside' \in Nat
    PROVE  CodesInv'
  <1>1. /\ OneTime!TypeOK /\ AddressesAreSound /\ DraftsAreCurrent /\ CodesAreMailed
        /\ OneTime!StoredCodeWasMailed /\ OneTime!AddressIsProved
    BY DEF CodesInv
  <1>2. /\ RequestsAreSound' /\ LocksAreHeld'
        /\ request' \in [Requests -> OneTime!Request]
        /\ rowLock' \in Requests \cup {None}
        /\ tryLock' \in [OneTime!Kinds -> Requests \cup {None}]
        /\ OnlyOne(r)
        /\ request'[r].step = "done" /\ request'[r].what = "none"
        /\ request'[r].kind = "reset" /\ request'[r].draft = None
    BY NoLockLeft
  <1>3. OneTime!TypeOK'
    BY <1>1, <1>2 DEF OneTime!TypeOK
  <1>4. AddressesAreSound'
    BY <1>1, <1>2, CodesFacts DEF AddressesAreSound, OnlyOne
  <1>5. DraftsAreCurrent'
    BY <1>1, <1>2 DEF DraftsAreCurrent, OnlyOne
  <1>6. CodesAreMailed'
    BY <1>1, <1>2 DEF CodesAreMailed, OnlyOne
  <1>7. OneTime!StoredCodeWasMailed' /\ OneTime!AddressIsProved'
    BY <1>1 DEF OneTime!StoredCodeWasMailed, OneTime!AddressIsProved
  <1>8. QED
    BY <1>2, <1>3, <1>4, <1>5, <1>6, <1>7 DEF CodesInv

LEMMA RefusalKeeps ==
    ASSUME CodesInv, NEW r \in Requests, OneTime!Exhausted(r) \/ OneTime!Refuse(r)
    PROVE  CodesInv'
  <1>1. /\ OneTime!TypeOK /\ LocksAreHeld
    BY DEF CodesInv
  <1>2. request[r].kind \in OneTime!Kinds
    BY <1>1 DEF OneTime!TypeOK, OneTime!Request
  <1>3. CASE OneTime!Exhausted(r)
    <2>1. /\ request[r].step = "read" /\ OneTime!End(r)
          /\ UNCHANGED <<now, user, tries, rowLock, tryLock, cuts, mailed, astray, issuedAt,
                         guessed, beside, proof, regained, uncounted>>
      BY <1>3 DEF OneTime!Exhausted, OneTime!locks, OneTime!histories
    <2>2. rowLock # r /\ \A k \in OneTime!Kinds : tryLock[k] # r
      BY <1>1, <2>1, CodesFacts DEF LocksAreHeld
    <2>3. OneTime!Unlock(r)
      BY <1>1, <2>1, <2>2 DEF OneTime!Unlock, OneTime!TypeOK
    <2>4. QED
      BY <1>1, <2>1, <2>3, EndKeeps DEF OneTime!TypeOK
  <1>4. CASE OneTime!Refuse(r)
    <2>1. /\ OneTime!End(r) /\ OneTime!Unlock(r)
          /\ tries' = [tries EXCEPT ![request[r].kind] = tries[request[r].kind] + 1]
          /\ UNCHANGED <<now, user, cuts, mailed, astray, issuedAt, guessed, beside, proof, regained,
                         uncounted>>
      BY <1>4 DEF OneTime!Refuse, OneTime!Spent, OneTime!histories
    <2>2. tries' \in [OneTime!Kinds -> Nat]
      BY <1>1, <1>2, <2>1 DEF OneTime!TypeOK
    <2>3. QED
      BY <1>1, <2>1, <2>2, EndKeeps DEF OneTime!TypeOK
  <1>5. QED
    BY <1>3, <1>4

LEMMA RollbackKeeps ==
    ASSUME CodesInv, NEW r \in Requests, OneTime!Cut(r) \/ OneTime!Deadlock(r)
    PROVE  CodesInv'
  <1>1. OneTime!TypeOK
    BY DEF CodesInv
  <1>2. /\ OneTime!End(r) /\ OneTime!Unlock(r)
        /\ UNCHANGED <<now, user, tries, mailed, astray, issuedAt, beside, proof, regained, uncounted>>
        /\ guessed' = [guessed EXCEPT ![r] = None]
    BY DEF OneTime!Cut, OneTime!Deadlock, OneTime!Rollback
  <1>3. cuts' \in Nat
    BY <1>1 DEF OneTime!Cut, OneTime!Deadlock, OneTime!TypeOK
  <1>4. /\ guessed' \in [Requests -> OneTime!Codes \cup {None}] /\ beside' \in Nat
        /\ tries' \in [OneTime!Kinds -> Nat]
    BY <1>1, <1>2 DEF OneTime!TypeOK
  <1>5. QED
    BY <1>2, <1>3, <1>4, EndKeeps

LEMMA CommitKeeps ==
    ASSUME CodesInv, NEW r \in Requests, OneTime!CommitIssue(r)
    PROVE  CodesInv'
  <1>1. /\ OneTime!TypeOK /\ RequestsAreSound /\ AddressesAreSound /\ DraftsAreCurrent
        /\ LocksAreHeld /\ CodesAreMailed
        /\ OneTime!StoredCodeWasMailed /\ OneTime!AddressIsProved
    BY DEF CodesInv
  <1>2. /\ RequestsAreSound' /\ LocksAreHeld'
        /\ request' \in [Requests -> OneTime!Request]
        /\ rowLock' \in Requests \cup {None}
        /\ tryLock' \in [OneTime!Kinds -> Requests \cup {None}]
        /\ \A s \in Requests : request'[s].draft # None => s # r /\ rowLock = s
        /\ OnlyOne(r)
        /\ request'[r].step = "done" /\ request'[r].what = "none"
        /\ request'[r].kind = "reset" /\ request'[r].draft = None
    BY NoLockLeft DEF OneTime!CommitIssue
  <1>3. /\ request[r].step = "mailed" /\ request[r].what = "issue"
        /\ UNCHANGED <<now, cuts, mailed, guessed, beside, proof>>
    BY <1>1 DEF OneTime!CommitIssue, RequestsAreSound
  <1>4. /\ request[r] \in OneTime!Request /\ user \in OneTime!User
        /\ request[r].to \in Addresses /\ <<r, request[r].to>> \in mailed
    BY <1>1, <1>3 DEF OneTime!TypeOK, RequestsAreSound, CodesAreMailed
  <1>5. /\ request[r].kind \in OneTime!Kinds
        /\ request[r].draft \in OneTime!User \cup {None}
    BY <1>4 DEF OneTime!Request
  <1>6. tries' \in [OneTime!Kinds -> Nat]
    BY <1>1 DEF OneTime!CommitIssue, OneTime!TypeOK
  <1>7. CASE request[r].draft = None
    <2>1. /\ regained' = regained \cup {user.code[request[r].kind].code}
          /\ UNCHANGED <<user, astray, issuedAt, uncounted>>
      BY <1>7 DEF OneTime!CommitIssue
    <2>2. user.code[request[r].kind].code \in OneTime!Codes \cup {None}
      BY <1>4, <1>5, UserFields
    <2>3. OneTime!TypeOK'
      BY <1>1, <1>2, <1>3, <1>6, <2>1, <2>2 DEF OneTime!TypeOK
    <2>4. AddressesAreSound'
      BY <1>1, <1>2, <2>1, CodesFacts DEF AddressesAreSound, OnlyOne
    <2>5. DraftsAreCurrent'
      BY <1>1, <1>2, <2>1 DEF DraftsAreCurrent, OnlyOne
    <2>6. CodesAreMailed'
      BY <1>1, <1>2, <1>3, <2>1 DEF CodesAreMailed, OnlyOne
    <2>7. OneTime!StoredCodeWasMailed' /\ OneTime!AddressIsProved'
      BY <1>1, <1>3, <2>1 DEF OneTime!StoredCodeWasMailed, OneTime!AddressIsProved
    <2>8. QED
      BY <1>2, <2>3, <2>4, <2>5, <2>6, <2>7 DEF CodesInv
  <1>8. CASE request[r].draft # None
    <2> DEFINE draft == request[r].draft
               kind == request[r].kind
               to == request[r].to
    <2>1. /\ user' = draft
          /\ regained' = regained
          /\ issuedAt' = [issuedAt EXCEPT ![r] = draft.sent]
          /\ uncounted' = uncounted +
                OneTime!Excess(OneTime!Counted(user, draft.sent), draft.resends)
          /\ astray' = IF kind = "email_change" /\ draft.pending # to
                       THEN astray \cup {r} ELSE astray
      BY <1>8 DEF OneTime!CommitIssue
    <2>2. /\ draft \in OneTime!User /\ draft # None
          /\ draft.email = user.email /\ draft.verified = user.verified
          /\ draft.pending = IF request[r].moves THEN to ELSE user.pending
          /\ \A k \in OneTime!Kinds :
                draft.code[k].code = IF k = kind THEN r ELSE user.code[k].code
      BY <1>1, <1>3, <1>5, <1>8 DEF DraftsAreCurrent
    <2>3. /\ draft.sent \in Nat \cup {None} /\ draft.resends \in Nat
          /\ user.resends \in Nat /\ user.sent \in Nat \cup {None}
          /\ user.email \in Addresses
          /\ \A k \in OneTime!Kinds : user.code[k].code \in OneTime!Codes \cup {None}
      BY <1>4, <2>2, UserFields
    <2>4. rowLock = r /\ \A s \in Requests : request'[s].draft = None
      BY <1>1, <1>2, <2>2 DEF LocksAreHeld
    <2>5. uncounted' \in Nat
      <3> DEFINE n == OneTime!Counted(user, draft.sent)
      <3>1. n \in Nat
        BY <2>3 DEF OneTime!Counted
      <3> HIDE DEF n
      <3>2. OneTime!Excess(n, draft.resends) \in Nat
        BY <2>3, <3>1 DEF OneTime!Excess
      <3>3. uncounted \in Nat
        BY <1>1 DEF OneTime!TypeOK
      <3>4. QED
        BY <2>1, <3>2, <3>3 DEF n
    <2>6. issuedAt' \in [OneTime!Codes -> Nat \cup {None}]
      BY <1>1, <2>1, <2>3, CodesFacts DEF OneTime!TypeOK
    <2>7. astray' \subseteq OneTime!Codes
      BY <1>1, <2>1, CodesFacts DEF OneTime!TypeOK
    <2> HIDE DEF draft
    <2>8. OneTime!TypeOK'
      BY <1>1, <1>2, <1>3, <1>6, <2>1, <2>2, <2>5, <2>6, <2>7 DEF OneTime!TypeOK
    <2>9. AddressesAreSound'
      BY <1>1, <1>2, <2>1, <2>2, CodesFacts DEF AddressesAreSound, OnlyOne
    <2>10. DraftsAreCurrent'
      BY <2>4 DEF DraftsAreCurrent
    <2>11. CodesAreMailed'
      BY <1>1, <1>2, <1>3, <2>1 DEF CodesAreMailed, OnlyOne
    <2>12. OneTime!AddressIsProved'
      BY <1>1, <1>3, <2>1, <2>2 DEF OneTime!AddressIsProved
    <2>13. OneTime!StoredCodeWasMailed'
      <3> SUFFICES ASSUME NEW k \in OneTime!Kinds, user'.code[k].code # None
                   PROVE  LET c == user'.code[k].code
                          IN  /\ \E a \in Addresses : <<c, a>> \in mailed'
                              /\ k = "verification" /\ ~user'.verified =>
                                    <<c, user'.email>> \in mailed'
                              /\ k = "email_change" /\ user'.pending # None =>
                                    <<c, user'.pending>> \in mailed' \/ c \in astray'
        BY DEF OneTime!StoredCodeWasMailed
      <3>1. CASE k = kind
        <4>1. user'.code[k].code = r
          BY <2>1, <2>2, <3>1
        <4>2. k = "verification" /\ ~user'.verified => to = user'.email
          BY <1>1, <1>3, <2>1, <2>2, <3>1 DEF AddressesAreSound
        <4>3. k = "email_change" => user'.pending = to \/ r \in astray'
          BY <2>1, <3>1
        <4>4. QED
          BY <1>3, <1>4, <4>1, <4>2, <4>3
      <3>2. CASE k # kind
        <4>1. user'.code[k].code = user.code[k].code
          BY <2>1, <2>2, <3>2
        <4>2. k = "email_change" => user'.pending = user.pending
          BY <1>1, <2>1, <2>2, <3>2 DEF RequestsAreSound
        <4>3. user'.email = user.email /\ user'.verified = user.verified /\ astray \subseteq astray'
          BY <2>1, <2>2
        <4>4. QED
          BY <1>1, <1>3, <4>1, <4>2, <4>3 DEF OneTime!StoredCodeWasMailed
      <3>3. QED
        BY <3>1, <3>2
    <2>14. QED
      BY <1>2, <2>8, <2>9, <2>10, <2>11, <2>12, <2>13 DEF CodesInv
  <1>9. QED
    BY <1>7, <1>8

LEMMA AcceptKeeps ==
    ASSUME CodesInv, NEW r \in Requests, OneTime!Accept(r)
    PROVE  CodesInv'
  <1>1. /\ OneTime!TypeOK /\ RequestsAreSound /\ AddressesAreSound /\ DraftsAreCurrent
        /\ LocksAreHeld /\ CodesAreMailed
        /\ OneTime!StoredCodeWasMailed /\ OneTime!AddressIsProved
    BY DEF CodesInv
  <1>2. /\ RequestsAreSound' /\ LocksAreHeld'
        /\ request' \in [Requests -> OneTime!Request]
        /\ rowLock' \in Requests \cup {None}
        /\ tryLock' \in [OneTime!Kinds -> Requests \cup {None}]
        /\ \A s \in Requests : request'[s].draft # None => s # r /\ rowLock = s
        /\ OnlyOne(r)
        /\ request'[r].step = "done" /\ request'[r].what = "none"
        /\ request'[r].kind = "reset" /\ request'[r].draft = None
    BY NoLockLeft DEF OneTime!Accept
  <1> DEFINE kind == request[r].kind
             to == request[r].to
             known == request[r].seen.code[kind]
  <1>3. /\ request[r].step = "counted" /\ request[r].what = "check"
        /\ known.code # None /\ request[r].guess = known.code
        /\ OneTime!Free(rowLock, r)
        /\ user' = OneTime!Confirmed(r, user)
        /\ tries' = [tries EXCEPT ![kind] = 0]
        /\ proof' = IF kind = "email_change" THEN known.code ELSE proof
        /\ UNCHANGED <<now, cuts, mailed, astray, issuedAt, guessed, beside, regained,
                       uncounted>>
    BY <1>1 DEF OneTime!Accept, OneTime!Accepts, RequestsAreSound
  <1>4. /\ request[r] \in OneTime!Request /\ user \in OneTime!User
        /\ request[r].seen \in OneTime!User
        /\ kind \in OneTime!Kinds
        /\ kind = "email_change" => user.verified /\ to \in Addresses
    BY <1>1, <1>3 DEF OneTime!TypeOK, RequestsAreSound, AddressesAreSound, OneTime!Request
  <1>5. /\ user' \in OneTime!User
        /\ user'.email = IF kind = "email_change" THEN to ELSE user.email
        /\ user'.verified = IF kind = "verification" THEN TRUE ELSE user.verified
        /\ user'.pending = IF kind = "email_change" THEN None ELSE user.pending
        /\ \A k \in OneTime!Kinds :
              user'.code[k].code = IF k = kind THEN None ELSE user.code[k].code
    BY <1>1, <1>3, <1>4, ConfirmedFields
  <1>6. known.code \in OneTime!Codes \cup {None}
    BY <1>4, UserFields
  <1>7. tries' \in [OneTime!Kinds -> Nat]
    BY <1>1, <1>3, <1>4 DEF OneTime!TypeOK
  <1>8. kind = "email_change" => <<known.code, to>> \in mailed \/ known.code \in astray
    BY <1>1, <1>3 DEF CodesAreMailed
  <1>9. \A s \in Requests : request'[s].draft = None
    BY <1>2, <1>3, CodesFacts DEF OneTime!Free
  <1> HIDE DEF kind, to, known
  <1>10. OneTime!TypeOK'
    BY <1>1, <1>2, <1>3, <1>5, <1>6, <1>7 DEF OneTime!TypeOK
  <1>11. AddressesAreSound'
    <2>1. ~user'.verified => user'.email = Home
      BY <1>1, <1>4, <1>5 DEF AddressesAreSound
    <2>2. user.verified => user'.verified
      BY <1>5
    <2>3. QED
      BY <1>1, <1>2, <2>1, <2>2, CodesFacts DEF AddressesAreSound, OnlyOne
  <1>12. DraftsAreCurrent'
    BY <1>9 DEF DraftsAreCurrent
  <1>13. CodesAreMailed'
    BY <1>1, <1>2, <1>3 DEF CodesAreMailed, OnlyOne
  <1>14. OneTime!AddressIsProved'
    BY <1>1, <1>3, <1>5, <1>8 DEF OneTime!AddressIsProved
  <1>15. OneTime!StoredCodeWasMailed'
    <2> SUFFICES ASSUME NEW k \in OneTime!Kinds, user'.code[k].code # None
                 PROVE  LET c == user'.code[k].code
                        IN  /\ \E a \in Addresses : <<c, a>> \in mailed'
                            /\ k = "verification" /\ ~user'.verified =>
                                  <<c, user'.email>> \in mailed'
                            /\ k = "email_change" /\ user'.pending # None =>
                                  <<c, user'.pending>> \in mailed' \/ c \in astray'
      BY DEF OneTime!StoredCodeWasMailed
    <2>1. k # kind /\ user'.code[k].code = user.code[k].code
      BY <1>5
    <2>2. k = "email_change" => user'.pending = user.pending
      BY <1>5, <2>1
    <2>3. ~user'.verified => ~user.verified /\ user'.email = user.email
      BY <1>4, <1>5
    <2>4. QED
      BY <1>1, <1>3, <2>1, <2>2, <2>3 DEF OneTime!StoredCodeWasMailed
  <1>16. QED
    BY <1>2, <1>10, <1>11, <1>12, <1>13, <1>14, <1>15 DEF CodesInv

LEMMA CodesStep == CodesInv /\ [OneTime!Next]_codesVars => CodesInv'
  <1> SUFFICES ASSUME CodesInv, [OneTime!Next]_codesVars PROVE CodesInv'
    OBVIOUS
  <1>1. CASE UNCHANGED codesVars
    BY <1>1 DEF codesVars, CodesInv, OneTime!TypeOK, RequestsAreSound, AddressesAreSound,
       LocksAreHeld, DraftsAreCurrent, CodesAreMailed, OneTime!StoredCodeWasMailed,
       OneTime!AddressIsProved
  <1>2. CASE OneTime!Tick
    <2>1. /\ now' = now + 1
          /\ UNCHANGED <<user, tries, rowLock, tryLock, request, cuts, mailed, astray, issuedAt,
                         guessed, beside, proof, regained, uncounted>>
      BY <1>2 DEF OneTime!Tick, OneTime!locks, OneTime!histories
    <2>2. OneTime!TypeOK'
      BY <2>1 DEF CodesInv, OneTime!TypeOK
    <2>3. RequestsAreSound' /\ AddressesAreSound' /\ LocksAreHeld'
      BY <2>1 DEF CodesInv, RequestsAreSound, AddressesAreSound, LocksAreHeld
    <2>4. DraftsAreCurrent' /\ CodesAreMailed'
      BY <2>1 DEF CodesInv, DraftsAreCurrent, CodesAreMailed
    <2>5. OneTime!StoredCodeWasMailed' /\ OneTime!AddressIsProved'
      BY <2>1 DEF CodesInv, OneTime!StoredCodeWasMailed, OneTime!AddressIsProved
    <2>6. QED
      BY <2>2, <2>3, <2>4, <2>5 DEF CodesInv
  <1>3. ASSUME NEW r \in Requests,
               \/ OneTime!Issue(r) \/ OneTime!Write(r) \/ OneTime!Clear(r) \/ OneTime!Mail(r)
               \/ OneTime!CommitIssue(r) \/ OneTime!Present(r) \/ OneTime!Look(r)
               \/ OneTime!Exhausted(r) \/ OneTime!Count(r) \/ OneTime!Refuse(r)
               \/ OneTime!Accept(r) \/ OneTime!Cut(r) \/ OneTime!Deadlock(r)
        PROVE  CodesInv'
    BY <1>3, IssueKeeps, WriteKeeps, ClearKeeps, MailKeeps, CommitKeeps, PresentKeeps,
       CheckKeeps, RefusalKeeps, AcceptKeeps, RollbackKeeps
  <1>4. QED
    BY <1>1, <1>2, <1>3 DEF OneTime!Next

CodesPart == served = "codes" => CodesInv

LEMMA CodesPartHolds == Spec => []CodesPart
  <1>1. Init => CodesPart
    BY CodesInit DEF Init, CodesPart
  <1>2. CodesPart /\ [Next]_vars => CodesPart'
    BY CodesStep DEF Next, vars, CodesPart
  <1>3. QED
    BY <1>1, <1>2, PTL DEF Spec

\* The address only moves to the one its code was mailed to
\* (services/user_profile/user_profile.py), whatever requests come in between.
THEOREM AddressTheorem == Spec => []AddressIsProved
  <1>1. CodesPart => AddressIsProved
    BY DEF CodesPart, CodesInv, AddressIsProved
  <1>2. QED
    BY <1>1, CodesPartHolds, PTL

\* What the account holds is a code that left, for the address it stands for
\* (services/emailing/otp_service.py): the mail comes before the commit.  Only a
\* resend to a pending address that another request replaced meanwhile (astray)
\* stands for an address it was not mailed to.
THEOREM StoredCodeTheorem == Spec => []StoredCodeWasMailed
  <1>1. CodesPart => StoredCodeWasMailed
    BY DEF CodesPart, CodesInv, StoredCodeWasMailed
  <1>2. QED
    BY <1>1, CodesPartHolds, PTL

\* Two requests wait for each other only when one issues and the other confirms
\* a code of one kind (the order in which otp_service.py and its callers write).
THEOREM DeadlockTheorem == Spec => []DeadlocksAreOfAKind
  <1>1. CodesInv => OneTime!DeadlocksAreOfAKind
    <2> SUFFICES ASSUME CodesInv, NEW r \in Requests, NEW s \in Requests,
                        OneTime!Locked(r, s)
                 PROVE  /\ request[r].kind = request[s].kind
                        /\ {request[r].what, request[s].what} = {"issue", "check"}
      BY DEF OneTime!DeadlocksAreOfAKind
    <2>1. /\ RequestsAreSound /\ LocksAreHeld
          /\ request[r].kind \in OneTime!Kinds /\ request[s].kind \in OneTime!Kinds
      BY DEF CodesInv, OneTime!TypeOK, OneTime!Request
    <2>2. ASSUME NEW a \in Requests, NEW b \in Requests,
                 request[a].kind \in OneTime!Kinds, OneTime!WaitsFor(a, b)
          PROVE  \/ /\ request[a].step \in {"read", "counted"}
                    /\ request[b].step \in {"written", "cleared", "mailed"}
                    /\ request[b].what = "issue"
                 \/ /\ request[a].step \in {"looked", "written"}
                    /\ request[b].kind = request[a].kind
                    /\ request[b].step \in {"counted", "cleared", "mailed"}
      BY <2>1, <2>2, CodesFacts
         DEF OneTime!WaitsFor, OneTime!Forgiven, RequestsAreSound, LocksAreHeld
    <2>3. \/ /\ request[r].step = "counted" /\ request[s].step = "written"
             /\ request[r].kind = request[s].kind
          \/ /\ request[r].step = "written" /\ request[s].step = "counted"
             /\ request[r].kind = request[s].kind
      BY <2>1, <2>2 DEF OneTime!Locked
    <2>4. QED
      BY <2>1, <2>3 DEF RequestsAreSound
  <1>2. CodesPart => DeadlocksAreOfAKind
    BY <1>1 DEF CodesPart, DeadlocksAreOfAKind
  <1>3. QED
    BY <1>2, CodesPartHolds, PTL

-----------------------------------------------------------------------------
(* Codes: the tries.                                                       *)

Guessers(c) == {r \in Requests : guessed[r] = c}

\* Those whose try is spent.
Spenders(c) == {r \in Requests : guessed[r] = c /\ request[r].step = "done"}

\* A code is in one place, and the request that issued it is over.
CodesAreSingle ==
    /\ \A k \in OneTime!Kinds :
          user.code[k].code \in Requests => request[user.code[k].code].step = "done"
    /\ \A k, l \in OneTime!Kinds :
          k # l /\ user.code[k].code = user.code[l].code => user.code[k].code = None
    /\ \A r \in Requests : guessed[r] \in Requests => request[guessed[r]].step = "done"

\* A guess is one at a code of the kind that its request asks for.
GuessesAreSound ==
    \A r \in Requests :
        guessed[r] # None =>
            /\ request[r].step \in {"looked", "counted", "done"}
            /\ \A k \in OneTime!Kinds :
                  user.code[k].code = guessed[r] /\ request[r].step # "done" =>
                      request[r].kind = k

\* The tries that were spent on a code are in its row.
TriesAreCounted ==
    \A k \in OneTime!Kinds :
        LET c == user.code[k].code
        IN  c # None /\ c \notin regained => Cardinality(Spenders(c)) <= tries[k]

\* The others were under way when one more was let in.
GuessesAreFew ==
    \A c \in OneTime!Codes \ regained : Cardinality(Guessers(c)) <= MaxAttempts + beside

TriesInv ==
    CodesAreSingle /\ GuessesAreSound /\ TriesAreCounted /\ GuessesAreFew

LEMMA OneMore ==
    ASSUME NEW A, NEW B, NEW x, IsFiniteSet(B), A \subseteq B \cup {x}
    PROVE  /\ IsFiniteSet(A) /\ Cardinality(A) \in Nat /\ Cardinality(B) \in Nat
           /\ Cardinality(A) <= Cardinality(B) + 1
           /\ A \subseteq B => Cardinality(A) <= Cardinality(B)
  <1>1. /\ IsFiniteSet(B \cup {x})
        /\ Cardinality(B \cup {x}) = IF x \in B THEN Cardinality(B) ELSE Cardinality(B) + 1
    BY FS_AddElement
  <1>2. IsFiniteSet(A) /\ Cardinality(A) <= Cardinality(B \cup {x})
    BY <1>1, FS_Subset
  <1>3. Cardinality(A) \in Nat /\ Cardinality(B) \in Nat
    BY <1>2, FS_CardinalityType
  <1>4. A \subseteq B => Cardinality(A) <= Cardinality(B)
    BY FS_Subset
  <1>5. QED
    BY <1>1, <1>2, <1>3, <1>4

LEMMA OneLess ==
    ASSUME NEW B, NEW x \in B, IsFiniteSet(B)
    PROVE  Cardinality(B \ {x}) = Cardinality(B) - 1
  BY FS_RemoveElement

\* How the sets of a code compare, before and after a step.
LEMMA GuessersCount ==
    /\ IsFiniteSet(Requests) /\ MaxAttempts \in Nat
    /\ \A c : /\ IsFiniteSet(Guessers(c)) /\ Cardinality(Guessers(c)) \in Nat
              /\ IsFiniteSet(Spenders(c)) /\ Cardinality(Spenders(c)) \in Nat
              /\ Cardinality(OneTime!UnderWay(c)) \in Nat
    /\ \A c : Cardinality(Guessers(c)') \in Nat /\ Cardinality(Spenders(c)') \in Nat
    /\ \A c : Guessers(c)' \subseteq Guessers(c) =>
                  Cardinality(Guessers(c)') <= Cardinality(Guessers(c))
    /\ \A c : Spenders(c)' \subseteq Spenders(c) =>
                  Cardinality(Spenders(c)') <= Cardinality(Spenders(c))
  <1>1. IsFiniteSet(Requests)
    BY CodesFacts
  <1>2. \A c : /\ Guessers(c) \subseteq Requests /\ Guessers(c)' \subseteq Requests
               /\ Spenders(c) \subseteq Requests /\ Spenders(c)' \subseteq Requests
               /\ OneTime!UnderWay(c) \subseteq Requests
    BY DEF Guessers, Spenders, OneTime!UnderWay
  <1>3. \A S \in SUBSET Requests : IsFiniteSet(S) /\ Cardinality(S) \in Nat
    BY <1>1, FS_Subset, FS_CardinalityType
  <1>4. \A S, T \in SUBSET Requests : S \subseteq T => Cardinality(S) <= Cardinality(T)
    BY <1>3, FS_Subset
  <1>5. QED
    BY <1>1, <1>2, <1>3, <1>4, CodesFacts

\* What was let in is spent or under way.
LEMMA LetIn ==
    ASSUME GuessesAreSound, NEW c, c # None
    PROVE  Cardinality(Guessers(c)) <= Cardinality(Spenders(c)) + Cardinality(OneTime!UnderWay(c))
  <1>1. Guessers(c) = Spenders(c) \cup OneTime!UnderWay(c)
    BY DEF GuessesAreSound, Guessers, Spenders, OneTime!UnderWay
  <1>2. Spenders(c) \cap OneTime!UnderWay(c) = {}
    BY DEF Spenders, OneTime!UnderWay
  <1>3. IsFiniteSet(Spenders(c)) /\ IsFiniteSet(OneTime!UnderWay(c))
    <2>1. Spenders(c) \subseteq Requests /\ OneTime!UnderWay(c) \subseteq Requests
      BY DEF Spenders, OneTime!UnderWay
    <2>2. QED
      BY <2>1, CodesFacts, FS_Subset
  <1>4. Cardinality(Guessers(c)) =
            Cardinality(Spenders(c)) + Cardinality(OneTime!UnderWay(c)) - Cardinality({})
    BY <1>1, <1>2, <1>3, FS_Union
  <1>5. Cardinality({}) = 0
    BY FS_EmptySet
  <1>6. QED
    BY <1>3, <1>4, <1>5, FS_CardinalityType

\* The steps that leave the tries, the codes and what was guessed alone.
Quiet(r) ==
    /\ OnlyOne(r)
    /\ request[r].step # "done"
    /\ \/ request[r].step \notin {"looked", "counted"}
       \/ request'[r].step = "counted" /\ request'[r].kind = request[r].kind
    /\ UNCHANGED <<user, tries, guessed, beside, regained>>

LEMMA QuietStarts ==
    ASSUME OneTime!TypeOK, NEW r \in Requests,
           NEW what, NEW kind, NEW to, NEW moves, NEW guess,
           OneTime!Start(r, what, kind, to, moves, guess)
    PROVE  Quiet(r)
  <1>1. request \in [Requests -> OneTime!Request]
    BY DEF OneTime!TypeOK
  <1> DEFINE q == [request[r] EXCEPT !.step = "read", !.what = what, !.kind = kind, !.to = to,
                                     !.moves = moves, !.guess = guess, !.seen = user]
  <1>2. request' = [request EXCEPT ![r] = q]
    BY DEF OneTime!Start
  <1> HIDE DEF q
  <1>3. QED
    BY <1>1, <1>2 DEF OneTime!Start, OneTime!locks, OneTime!histories, OnlyOne, Quiet

LEMMA QuietSteps ==
    ASSUME CodesInv, NEW r \in Requests,
           \/ OneTime!Issue(r) \/ OneTime!Present(r) \/ OneTime!Write(r) \/ OneTime!Clear(r)
           \/ OneTime!Mail(r) \/ OneTime!Count(r) \/ OneTime!Exhausted(r)
    PROVE  Quiet(r)
  <1>1. OneTime!TypeOK
    BY DEF CodesInv
  <1>2. request[r] \in OneTime!Request /\ request \in [Requests -> OneTime!Request]
    BY <1>1 DEF OneTime!TypeOK
  <1>3. CASE OneTime!Issue(r)
    BY <1>1, <1>3, QuietStarts DEF OneTime!Issue
  <1>4. CASE OneTime!Present(r)
    BY <1>1, <1>4, QuietStarts DEF OneTime!Present
  <1>5. CASE OneTime!Write(r)
    <2>1. OnlyOne(r) /\ request[r].step = "read"
      BY <1>2, <1>5 DEF OneTime!Write, OnlyOne
    <2>2. QED
      BY <1>5, <2>1 DEF OneTime!Write, OneTime!histories, Quiet
  <1>6. CASE OneTime!Clear(r)
    <2>1. OnlyOne(r) /\ request[r].step = "written"
      BY <1>2, <1>6 DEF OneTime!Clear, OnlyOne
    <2>2. QED
      BY <1>6, <2>1 DEF OneTime!Clear, OneTime!histories, Quiet
  <1>7. CASE OneTime!Mail(r)
    <2>1. OnlyOne(r) /\ request[r].step = "cleared"
      BY <1>2, <1>7 DEF OneTime!Mail, OnlyOne
    <2>2. QED
      BY <1>7, <2>1 DEF OneTime!Mail, Quiet
  <1>8. CASE OneTime!Count(r)
    <2>1. /\ OnlyOne(r) /\ request[r].step = "looked"
          /\ request'[r].step = "counted" /\ request'[r].kind = request[r].kind
      BY <1>2, <1>8 DEF OneTime!Count, OneTime!Request, OnlyOne
    <2>2. QED
      BY <1>8, <2>1 DEF OneTime!Count, OneTime!histories, Quiet
  <1>9. CASE OneTime!Exhausted(r)
    <2>1. OnlyOne(r) /\ request[r].step = "read"
      BY <1>1, <1>9, Ending DEF OneTime!Exhausted
    <2>2. QED
      BY <1>9, <2>1 DEF OneTime!Exhausted, OneTime!histories, Quiet
  <1>10. QED
    BY <1>3, <1>4, <1>5, <1>6, <1>7, <1>8, <1>9

LEMMA QuietKeeps ==
    ASSUME TriesInv, NEW r \in Requests, Quiet(r)
    PROVE  TriesInv'
  <1>1. \A c : Guessers(c)' = Guessers(c)
    BY DEF Quiet, Guessers
  <1>2. guessed[r] # None => /\ request'[r].step = "counted"
                             /\ request'[r].kind = request[r].kind
    BY DEF TriesInv, GuessesAreSound, Quiet
  <1>3. \A c : c # None => Spenders(c)' = Spenders(c)
    BY <1>2 DEF Quiet, OnlyOne, Spenders
  <1>4. CodesAreSingle'
    BY DEF TriesInv, CodesAreSingle, Quiet, OnlyOne
  <1>5. GuessesAreSound'
    BY <1>2 DEF TriesInv, GuessesAreSound, Quiet, OnlyOne
  <1>6. TriesAreCounted'
    BY <1>3 DEF TriesInv, TriesAreCounted, Quiet
  <1>7. GuessesAreFew'
    BY <1>1 DEF TriesInv, GuessesAreFew, Quiet
  <1>8. QED
    BY <1>4, <1>5, <1>6, <1>7 DEF TriesInv

LEMMA LookKeepsTries ==
    ASSUME CodesInv, TriesInv, NEW r \in Requests, OneTime!Look(r)
    PROVE  TriesInv'
  <1>0. PICK k, c, n : /\ k = request[r].kind /\ c = request[r].seen.code[k].code
                       /\ n = OneTime!Cardinality(OneTime!UnderWay(c))
                       /\ n = Cardinality(OneTime!UnderWay(c))
    BY CodesCounts
  <1>1. /\ request \in [Requests -> OneTime!Request]
        /\ guessed \in [Requests -> OneTime!Codes \cup {None}]
        /\ tries \in [OneTime!Kinds -> Nat] /\ beside \in Nat
        /\ k \in OneTime!Kinds
    BY <1>0 DEF CodesInv, OneTime!TypeOK, OneTime!Request
  <1>2. /\ request[r].step = "read" /\ tries[k] < MaxAttempts
        /\ request' = [request EXCEPT ![r].step = "looked"]
        /\ UNCHANGED <<user, tries, regained>>
        /\ IF c # None /\ user.code[k].code = c
           THEN /\ guessed' = [guessed EXCEPT ![r] = c]
                /\ beside' = IF n > beside THEN n ELSE beside
           ELSE UNCHANGED <<guessed, beside>>
    BY <1>0 DEF OneTime!Look
  <1>3. /\ OnlyOne(r) /\ request'[r].step = "looked" /\ request'[r].kind = k
    BY <1>0, <1>1, <1>2 DEF OneTime!Request, OnlyOne
  <1>4. guessed[r] = None
    BY <1>2 DEF TriesInv, GuessesAreSound
  <1>5. CASE UNCHANGED <<guessed, beside>>
    BY <1>2, <1>3, <1>5, QuietKeeps DEF Quiet
  <1>6. CASE /\ c # None /\ user.code[k].code = c
             /\ guessed' = [guessed EXCEPT ![r] = c]
             /\ beside' = IF n > beside THEN n ELSE beside
    <2>1. Cardinality(Guessers(c)) <= Cardinality(Spenders(c)) + n
      BY <1>0, <1>6, LetIn DEF TriesInv
    <2>2. c \notin regained => Cardinality(Spenders(c)) <= tries[k]
      BY <1>1, <1>6 DEF TriesInv, TriesAreCounted
    <2>3. n \in Nat /\ beside' \in Nat /\ n <= beside' /\ beside <= beside'
      <3>1. n \in Nat
        BY <1>0, GuessersCount
      <3>2. QED
        BY <1>1, <1>6, <3>1
    <2>4. /\ guessed'[r] = c
          /\ \A s \in Requests \ {r} : guessed'[s] = guessed[s] /\ request'[s] = request[s]
      BY <1>1, <1>3, <1>6 DEF OnlyOne
    <2>5. \A s \in Requests : request[s].step = "done" => request'[s].step = "done"
      BY <1>2, <2>4
    <2>6. CodesAreSingle'
      BY <1>1, <1>2, <1>6, <2>4, <2>5 DEF TriesInv, CodesAreSingle
    <2>7. GuessesAreSound'
      <3>1. \A l \in OneTime!Kinds : user.code[l].code = c => l = k
        BY <1>1, <1>6 DEF TriesInv, CodesAreSingle
      <3>2. QED
        BY <1>2, <1>3, <2>4, <3>1 DEF TriesInv, GuessesAreSound
    <2>8. TriesAreCounted'
      <3>1. \A d : d # None => Spenders(d)' = Spenders(d)
        BY <1>3, <1>4, <2>4 DEF Spenders
      <3>2. QED
        BY <1>2, <3>1 DEF TriesInv, TriesAreCounted
    <2>9. GuessesAreFew'
      <3> SUFFICES ASSUME NEW d \in OneTime!Codes \ regained
                   PROVE  Cardinality(Guessers(d)') <= MaxAttempts + beside'
        BY <1>2 DEF GuessesAreFew
      <3>1. CASE d = c
        <4>1. Guessers(c)' \subseteq Guessers(c) \cup {r}
          BY <2>4 DEF Guessers
        <4> DEFINE m == Cardinality(Guessers(c))
                   o == Cardinality(Guessers(c)')
                   p == Cardinality(Spenders(c))
        <4>2. o <= m + 1
          BY <4>1, GuessersCount, OneMore
        <4>3. m \in Nat /\ o \in Nat /\ p \in Nat /\ MaxAttempts \in Nat /\ tries[k] \in Nat
          BY <1>1, GuessersCount
        <4>4. m <= p + n /\ p <= tries[k] /\ tries[k] < MaxAttempts
          BY <1>2, <2>1, <2>2, <3>1
        <4> HIDE DEF m, o, p
        <4>5. o <= MaxAttempts + beside'
          <5>1. \A a, b, e, f, g, h, i \in Nat :
                   a <= b + 1 /\ b <= e + f /\ e <= g /\ g < h /\ f <= i => a <= h + i
            OBVIOUS
          <5>2. QED
            BY <2>3, <4>2, <4>3, <4>4, <5>1
        <4>6. QED
          BY <3>1, <4>5 DEF o
      <3>2. CASE d # c
        <4>1. Guessers(d)' \subseteq Guessers(d)
          BY <2>4, <3>2 DEF Guessers
        <4> DEFINE m == Cardinality(Guessers(d))
                   o == Cardinality(Guessers(d)')
        <4>2. m \in Nat /\ o \in Nat /\ o <= m /\ MaxAttempts \in Nat
          BY <4>1, GuessersCount
        <4>3. m <= MaxAttempts + beside
          BY DEF TriesInv, GuessesAreFew
        <4> HIDE DEF m, o
        <4>4. QED
          BY <1>1, <2>3, <4>2, <4>3 DEF o
      <3>3. QED
        BY <3>1, <3>2
    <2>10. QED
      BY <2>6, <2>7, <2>8, <2>9 DEF TriesInv
  <1>7. QED
    BY <1>2, <1>5, <1>6

\* What remains of the guesses when a request is over.
LEMMA EndTries ==
    ASSUME CodesInv, TriesInv, NEW r \in Requests, OneTime!End(r),
           UNCHANGED <<guessed, beside>>
    PROVE  /\ OnlyOne(r) /\ request'[r].step = "done"
           /\ \A s \in Requests : request[s].step = "done" => request'[s].step = "done"
           /\ \A c : Guessers(c)' = Guessers(c)
           /\ \A c : Spenders(c)' \subseteq Spenders(c) \cup {r}
           /\ \A k \in OneTime!Kinds : \A c :
                 /\ c # None /\ c = user.code[k].code
                 /\ \/ request[r].step = "counted" /\ k # request[r].kind
                    \/ request[r].step \notin {"looked", "counted", "done"}
                 => Spenders(c)' \subseteq Spenders(c)
  <1>1. OnlyOne(r) /\ request'[r].step = "done"
    BY Ending DEF CodesInv
  <1>2. \A c : Guessers(c)' = Guessers(c)
    BY DEF Guessers
  <1>3. \A c : Spenders(c)' \subseteq Spenders(c) \cup {r}
    BY <1>1 DEF Spenders, OnlyOne
  <1>4. ASSUME NEW k \in OneTime!Kinds, NEW c, c # None, c = user.code[k].code,
               \/ request[r].step = "counted" /\ k # request[r].kind
               \/ request[r].step \notin {"looked", "counted", "done"}
        PROVE  Spenders(c)' \subseteq Spenders(c)
    <2>1. guessed[r] # c
      BY <1>4 DEF TriesInv, GuessesAreSound
    <2>2. QED
      BY <1>1, <2>1 DEF Spenders, OnlyOne
  <1>5. QED
    BY <1>1, <1>2, <1>3, <1>4 DEF OnlyOne

\* The guesses stand when no code is put in use that was guessed already.
LEMMA GuessesStand ==
    ASSUME TriesInv, NEW r \in Requests, OnlyOne(r), request'[r].step = "done",
           \A s \in Requests : guessed'[s] \in {guessed[s], None},
           \A s \in Requests : guessed[s] # None /\ guessed'[s] # None =>
                                 request[s].step \in {"looked", "counted", "done"},
           \A k \in OneTime!Kinds, s \in Requests :
               guessed[s] # None /\ user'.code[k].code = guessed[s] =>
                   user.code[k].code = guessed[s]
    PROVE  GuessesAreSound'
  BY DEF TriesInv, GuessesAreSound, OnlyOne

LEMMA RefuseKeepsTries ==
    ASSUME CodesInv, TriesInv, NEW r \in Requests, OneTime!Refuse(r)
    PROVE  TriesInv'
  <1>0. PICK kind : kind = request[r].kind
    OBVIOUS
  <1>1. tries \in [OneTime!Kinds -> Nat] /\ kind \in OneTime!Kinds
    BY <1>0 DEF CodesInv, OneTime!TypeOK, OneTime!Request
  <1>2. /\ tries' = [tries EXCEPT ![kind] = tries[kind] + 1]
        /\ UNCHANGED <<user, guessed, beside, regained>>
        /\ OneTime!End(r) /\ request[r].step = "counted"
    BY <1>0 DEF OneTime!Refuse, OneTime!Spent, OneTime!histories
  <1>3. /\ OnlyOne(r) /\ request'[r].step = "done"
        /\ \A s \in Requests : request[s].step = "done" => request'[s].step = "done"
        /\ \A c : Guessers(c)' = Guessers(c)
        /\ \A c : Spenders(c)' \subseteq Spenders(c) \cup {r}
        /\ \A k \in OneTime!Kinds : \A c :
              c # None /\ c = user.code[k].code /\ k # kind =>
                  Spenders(c)' \subseteq Spenders(c)
    BY <1>0, <1>2, EndTries
  <1>4. CodesAreSingle'
    BY <1>2, <1>3 DEF TriesInv, CodesAreSingle
  <1>5. GuessesAreSound'
    BY <1>2, <1>3, GuessesStand DEF TriesInv, GuessesAreSound
  <1>6. TriesAreCounted'
    <2> SUFFICES ASSUME NEW k \in OneTime!Kinds, NEW c, c = user.code[k].code,
                        c # None, c \notin regained
                 PROVE  Cardinality(Spenders(c)') <= tries'[k]
      BY <1>2 DEF TriesAreCounted
    <2> DEFINE m == Cardinality(Spenders(c))
               o == Cardinality(Spenders(c)')
    <2>1. m <= tries[k]
      BY DEF TriesInv, TriesAreCounted
    <2>2. m \in Nat /\ o \in Nat /\ tries[k] \in Nat
      BY <1>1, GuessersCount
    <2>3. o <= m + 1
      <3>1. Spenders(c)' \subseteq Spenders(c) \cup {r} /\ IsFiniteSet(Spenders(c))
        BY <1>3, GuessersCount
      <3>2. QED
        BY <3>1, OneMore
    <2>4. k # kind => o <= m
      BY <1>3, GuessersCount
    <2>5. tries'[k] = IF k = kind THEN tries[k] + 1 ELSE tries[k]
      BY <1>1, <1>2
    <2> HIDE DEF m, o
    <2>6. QED
      BY <2>1, <2>2, <2>3, <2>4, <2>5 DEF o
  <1>7. GuessesAreFew'
    BY <1>2, <1>3 DEF TriesInv, GuessesAreFew
  <1>8. QED
    BY <1>4, <1>5, <1>6, <1>7 DEF TriesInv

LEMMA AcceptKeepsTries ==
    ASSUME CodesInv, TriesInv, NEW r \in Requests, OneTime!Accept(r)
    PROVE  TriesInv'
  <1>0. PICK kind : kind = request[r].kind
    OBVIOUS
  <1>1. /\ tries \in [OneTime!Kinds -> Nat] /\ kind \in OneTime!Kinds
        /\ OneTime!TypeOK
    BY <1>0 DEF CodesInv, OneTime!TypeOK, OneTime!Request
  <1>2. /\ tries' = [tries EXCEPT ![kind] = 0]
        /\ user' = OneTime!Confirmed(r, user)
        /\ UNCHANGED <<guessed, beside, regained>>
        /\ OneTime!End(r) /\ request[r].step = "counted"
    BY <1>0 DEF OneTime!Accept
  <1>3. /\ OnlyOne(r) /\ request'[r].step = "done"
        /\ \A s \in Requests : request[s].step = "done" => request'[s].step = "done"
        /\ \A c : Guessers(c)' = Guessers(c)
        /\ \A k \in OneTime!Kinds : \A c :
              c # None /\ c = user.code[k].code /\ k # kind =>
                  Spenders(c)' \subseteq Spenders(c)
    BY <1>0, <1>2, EndTries
  <1>4. \A k \in OneTime!Kinds :
           user'.code[k].code = IF k = kind THEN None ELSE user.code[k].code
    <2>1. kind = "email_change" => request[r].to \in Addresses
      BY <1>0 DEF CodesInv, RequestsAreSound
    <2>2. QED
      BY <1>0, <1>1, <1>2, <2>1, ConfirmedFields
  <1>5. CodesAreSingle'
    BY <1>2, <1>3, <1>4, CodesFacts DEF TriesInv, CodesAreSingle
  <1>6. GuessesAreSound'
    BY <1>2, <1>3, <1>4, GuessesStand DEF TriesInv, GuessesAreSound
  <1>7. TriesAreCounted'
    <2> SUFFICES ASSUME NEW k \in OneTime!Kinds, NEW c, c = user'.code[k].code,
                        c # None, c \notin regained
                 PROVE  Cardinality(Spenders(c)') <= tries'[k]
      BY <1>2 DEF TriesAreCounted
    <2>1. k # kind /\ c = user.code[k].code
      BY <1>4
    <2> DEFINE m == Cardinality(Spenders(c))
               o == Cardinality(Spenders(c)')
    <2>2. m <= tries[k]
      BY <2>1 DEF TriesInv, TriesAreCounted
    <2>3. o <= m /\ m \in Nat /\ o \in Nat
      BY <1>3, <2>1, GuessersCount
    <2>4. tries'[k] = tries[k] /\ tries[k] \in Nat
      BY <1>1, <1>2, <2>1
    <2> HIDE DEF m, o
    <2>5. QED
      BY <2>2, <2>3, <2>4 DEF o
  <1>8. GuessesAreFew'
    BY <1>2, <1>3 DEF TriesInv, GuessesAreFew
  <1>9. QED
    BY <1>5, <1>6, <1>7, <1>8 DEF TriesInv

LEMMA RollbackKeepsTries ==
    ASSUME CodesInv, TriesInv, NEW r \in Requests, OneTime!Cut(r) \/ OneTime!Deadlock(r)
    PROVE  TriesInv'
  <1>1. /\ guessed \in [Requests -> OneTime!Codes \cup {None}]
        /\ tries \in [OneTime!Kinds -> Nat] /\ beside \in Nat
        /\ OneTime!TypeOK
    BY DEF CodesInv, OneTime!TypeOK
  <1>2. /\ guessed' = [guessed EXCEPT ![r] = None]
        /\ UNCHANGED <<user, tries, beside, regained>>
        /\ OneTime!End(r)
    BY DEF OneTime!Cut, OneTime!Deadlock, OneTime!Rollback
  <1>3. /\ OnlyOne(r) /\ request'[r].step = "done"
        /\ \A s \in Requests : request[s].step = "done" => request'[s].step = "done"
    <2>1. OnlyOne(r) /\ request'[r].step = "done"
      BY <1>1, <1>2, Ending
    <2>2. QED
      BY <2>1 DEF OnlyOne
  <1>4. /\ \A s \in Requests : guessed'[s] \in {guessed[s], None}
        /\ guessed'[r] = None
    BY <1>1, <1>2
  <1>5. \A c : c # None => /\ Guessers(c)' \subseteq Guessers(c)
                          /\ Spenders(c)' \subseteq Spenders(c)
    BY <1>3, <1>4 DEF Guessers, Spenders, OnlyOne
  <1>6. CodesAreSingle'
    BY <1>2, <1>3, <1>4, CodesFacts DEF TriesInv, CodesAreSingle
  <1>7. GuessesAreSound'
    BY <1>2, <1>3, <1>4, GuessesStand DEF TriesInv, GuessesAreSound
  <1>8. TriesAreCounted'
    <2> SUFFICES ASSUME NEW k \in OneTime!Kinds, NEW c, c = user.code[k].code,
                        c # None, c \notin regained
                 PROVE  Cardinality(Spenders(c)') <= tries[k]
      BY <1>2 DEF TriesAreCounted
    <2> DEFINE m == Cardinality(Spenders(c))
               o == Cardinality(Spenders(c)')
    <2>1. m <= tries[k]
      BY DEF TriesInv, TriesAreCounted
    <2>2. o <= m /\ m \in Nat /\ o \in Nat /\ tries[k] \in Nat
      BY <1>1, <1>5, GuessersCount
    <2> HIDE DEF m, o
    <2>3. QED
      BY <2>1, <2>2 DEF o
  <1>9. GuessesAreFew'
    <2> SUFFICES ASSUME NEW c \in OneTime!Codes \ regained
                 PROVE  Cardinality(Guessers(c)') <= MaxAttempts + beside
      BY <1>2 DEF GuessesAreFew
    <2> DEFINE m == Cardinality(Guessers(c))
               o == Cardinality(Guessers(c)')
    <2>1. m <= MaxAttempts + beside
      BY DEF TriesInv, GuessesAreFew
    <2>2. c # None
      BY CodesFacts
    <2>3. o <= m /\ m \in Nat /\ o \in Nat /\ MaxAttempts \in Nat
      BY <1>5, <2>2, GuessersCount
    <2> HIDE DEF m, o
    <2>4. QED
      BY <1>1, <2>1, <2>3 DEF o
  <1>10. QED
    BY <1>6, <1>7, <1>8, <1>9 DEF TriesInv

LEMMA CommitKeepsTries ==
    ASSUME CodesInv, TriesInv, NEW r \in Requests, OneTime!CommitIssue(r)
    PROVE  TriesInv'
  <1>0. PICK kind, draft : kind = request[r].kind /\ draft = request[r].draft
    OBVIOUS
  <1>1. tries \in [OneTime!Kinds -> Nat] /\ kind \in OneTime!Kinds
    BY <1>0 DEF CodesInv, OneTime!TypeOK, OneTime!Request
  <1>2. /\ tries' = [k \in OneTime!Kinds |-> IF tryLock[k] = r THEN 0 ELSE tries[k]]
        /\ UNCHANGED <<guessed, beside>>
        /\ OneTime!End(r)
        /\ request[r].step = "mailed"
        /\ \/ /\ draft = None
              /\ regained' = regained \cup {user.code[kind].code} /\ UNCHANGED user
           \/ /\ draft # None
              /\ UNCHANGED regained /\ user' = draft
    BY <1>0 DEF OneTime!CommitIssue
  <1>3. /\ OnlyOne(r) /\ request'[r].step = "done"
        /\ \A s \in Requests : request[s].step = "done" => request'[s].step = "done"
        /\ \A c : Guessers(c)' = Guessers(c)
        /\ \A k \in OneTime!Kinds : \A c :
              c # None /\ c = user.code[k].code => Spenders(c)' \subseteq Spenders(c)
    BY <1>2, EndTries
  <1>4. \A k \in OneTime!Kinds : tryLock[k] = r => k = kind
    BY <1>0, CodesFacts DEF CodesInv, LocksAreHeld
  <1>5. draft # None =>
           \A k \in OneTime!Kinds :
              user'.code[k].code = IF k = kind THEN r ELSE user.code[k].code
    BY <1>0, <1>2 DEF CodesInv, DraftsAreCurrent
  <1>6. /\ \A s \in Requests : guessed[s] # r
        /\ \A k \in OneTime!Kinds : user.code[k].code # r
    BY <1>2 DEF TriesInv, CodesAreSingle
  <1>7. Cardinality(Spenders(r)') = 0
    <2>1. Spenders(r)' = {}
      BY <1>2, <1>6 DEF Spenders
    <2>2. QED
      BY <2>1, FS_EmptySet
  <1>8. CodesAreSingle'
    <2>1. CASE draft = None
      BY <1>2, <1>3, <2>1 DEF TriesInv, CodesAreSingle
    <2>2. CASE draft # None
      BY <1>2, <1>3, <1>5, <1>6, <2>2 DEF TriesInv, CodesAreSingle
    <2>3. QED
      BY <2>1, <2>2
  <1>9. GuessesAreSound'
    <2>1. \A k \in OneTime!Kinds, s \in Requests :
             user'.code[k].code = guessed[s] => user.code[k].code = guessed[s]
      BY <1>2, <1>5, <1>6
    <2>2. QED
      BY <1>2, <1>3, <2>1, GuessesStand DEF TriesInv, GuessesAreSound
  <1>10. TriesAreCounted'
    <2> SUFFICES ASSUME NEW k \in OneTime!Kinds, NEW c, c = user'.code[k].code,
                        c # None, c \notin regained'
                 PROVE  Cardinality(Spenders(c)') <= tries'[k]
      BY DEF TriesAreCounted
    <2>1. tries'[k] \in Nat /\ (k # kind => tries'[k] = tries[k])
      BY <1>1, <1>2, <1>4
    <2>2. CASE k = kind
      <3>1. c = r
        BY <1>2, <1>5, <2>2
      <3>2. QED
        BY <1>7, <2>1, <3>1
    <2>3. CASE k # kind
      <3> DEFINE m == Cardinality(Spenders(c))
                 o == Cardinality(Spenders(c)')
      <3>1. c = user.code[k].code /\ c \notin regained
        BY <1>2, <1>5, <2>3
      <3>2. m <= tries[k] /\ tries[k] \in Nat
        BY <1>1, <3>1 DEF TriesInv, TriesAreCounted
      <3>3. o <= m /\ m \in Nat /\ o \in Nat
        BY <1>3, <3>1, GuessersCount
      <3> HIDE DEF m, o
      <3>4. QED
        BY <2>1, <2>3, <3>2, <3>3 DEF o
    <2>4. QED
      BY <2>2, <2>3
  <1>11. GuessesAreFew'
    <2>1. regained \subseteq regained'
      BY <1>2
    <2>2. QED
      BY <1>2, <1>3, <2>1 DEF TriesInv, GuessesAreFew
  <1>12. QED
    BY <1>8, <1>9, <1>10, <1>11 DEF TriesInv

LEMMA TriesInit == OneTime!Init => TriesInv
  <1> SUFFICES ASSUME OneTime!Init PROVE TriesInv
    OBVIOUS
  <1>1. /\ tries = [k \in OneTime!Kinds |-> 0]
        /\ guessed = [r \in Requests |-> None] /\ beside = 0 /\ regained = {}
    BY DEF OneTime!Init
  <1>2. \A k \in OneTime!Kinds :
           user.code[k].code \in {None} \cup (IF k = "verification" THEN {Opening} ELSE {})
    BY CodesFacts DEF OneTime!Init, OneTime!Absent
  <1>3. CodesAreSingle
    BY <1>1, <1>2, CodesFacts DEF CodesAreSingle
  <1>4. GuessesAreSound
    BY <1>1 DEF GuessesAreSound
  <1>5. \A c : c # None => Cardinality(Guessers(c)) = 0 /\ Cardinality(Spenders(c)) = 0
    <2>1. \A c : c # None => Guessers(c) = {} /\ Spenders(c) = {}
      BY <1>1 DEF Guessers, Spenders
    <2>2. QED
      BY <2>1, FS_EmptySet
  <1>6. TriesAreCounted
    BY <1>1, <1>5 DEF TriesAreCounted
  <1>7. GuessesAreFew
    BY <1>1, <1>5, CodesFacts DEF GuessesAreFew
  <1>8. QED
    BY <1>3, <1>4, <1>6, <1>7 DEF TriesInv

LEMMA TriesStep == CodesInv /\ TriesInv /\ [OneTime!Next]_codesVars => TriesInv'
  <1> SUFFICES ASSUME CodesInv, TriesInv, [OneTime!Next]_codesVars PROVE TriesInv'
    OBVIOUS
  <1>1. CASE OneTime!Tick \/ UNCHANGED codesVars
    <2>1. UNCHANGED <<user, tries, request, guessed, beside, regained>>
      BY <1>1 DEF OneTime!Tick, OneTime!locks, OneTime!histories, codesVars
    <2>2. \A c : Guessers(c)' = Guessers(c) /\ Spenders(c)' = Spenders(c)
      BY <2>1 DEF Guessers, Spenders
    <2>3. QED
      BY <2>1, <2>2
         DEF TriesInv, CodesAreSingle, GuessesAreSound, TriesAreCounted, GuessesAreFew
  <1>2. ASSUME NEW r \in Requests,
               \/ OneTime!Issue(r) \/ OneTime!Write(r) \/ OneTime!Clear(r) \/ OneTime!Mail(r)
               \/ OneTime!Present(r) \/ OneTime!Count(r) \/ OneTime!Exhausted(r)
        PROVE  TriesInv'
    BY <1>2, QuietSteps, QuietKeeps
  <1>3. ASSUME NEW r \in Requests,
               \/ OneTime!CommitIssue(r) \/ OneTime!Look(r) \/ OneTime!Refuse(r)
               \/ OneTime!Accept(r) \/ OneTime!Cut(r) \/ OneTime!Deadlock(r)
        PROVE  TriesInv'
    BY <1>3, CommitKeepsTries, LookKeepsTries, RefuseKeepsTries, AcceptKeepsTries,
       RollbackKeepsTries
  <1>4. QED
    BY <1>1, <1>2, <1>3 DEF OneTime!Next

\* A code in use is compared with no more guesses than its tries allow, and than
\* were under way at once when one more was let in
\* (services/emailing/otp_service.py): the count is read before it is locked, and
\* added to the committed row under its lock.  What a rolled-back check compared
\* is not counted, nor what is compared with a code that was replaced before.
THEOREM TriesTheorem == Spec => []TriesAreSpent
  <1> DEFINE Inv == served = "codes" => CodesInv /\ TriesInv
  <1>1. Init => Inv
    BY CodesInit, TriesInit DEF Init
  <1>2. Inv /\ [Next]_vars => Inv'
    <2>1. CASE UNCHANGED vars
      <3>1. UNCHANGED served /\ UNCHANGED codesVars
        BY <2>1 DEF vars
      <3>2. QED
        BY <3>1, CodesStep, TriesStep
    <2>2. CASE Next /\ served = "codes"
      BY <2>2, CodesStep, TriesStep DEF Next
    <2>3. CASE Next /\ served # "codes"
      BY <2>3 DEF Next
    <2>4. QED
      BY <2>1, <2>2, <2>3
  <1>3. Inv => TriesAreSpent
    BY CodesCounts DEF TriesAreSpent, OneTime!TriesAreSpent, TriesInv, GuessesAreFew, Guessers
  <1>4. QED
    BY <1>1, <1>2, <1>3, PTL DEF Spec

-----------------------------------------------------------------------------
(* Codes: the resends.                                                     *)

Since(t) == {c \in OneTime!Codes : issuedAt[c] # None /\ issuedAt[c] > t - Hour}
Window(t) == {c \in OneTime!Codes : issuedAt[c] # None /\ issuedAt[c] \in t - Hour + 1 .. t}

\* What a request has read allows the code it issues, and its row counts it.
ResendIsSound(q) ==
    /\ q.step = "read" /\ q.what = "issue" /\ OneTime!RecentlySent(q.seen, now) =>
          q.seen.resends < MaxResends
    /\ q.draft # None =>
          /\ q.draft.sent \in Nat /\ q.draft.sent <= now
          /\ user.sent # None => user.sent <= q.draft.sent
          /\ q.draft.resends \in Nat /\ q.draft.resends <= MaxResends

\* The count of the row is that of the hour before its last code.
ResendsInv ==
    /\ user.sent # None => user.sent <= now
    /\ user.resends <= MaxResends
    /\ \A c \in OneTime!Codes : issuedAt[c] # None => user.sent # None /\ issuedAt[c] <= user.sent
    /\ user.sent # None => Cardinality(Since(user.sent)) <= user.resends + uncounted
    /\ \A r \in Requests : ResendIsSound(request[r])
    /\ \A t \in Nat : Cardinality(Window(t)) <= MaxResends + uncounted

LEMMA SinceCount ==
    ASSUME NEW t \in Nat
    PROVE  /\ IsFiniteSet(Since(t)) /\ IsFiniteSet(Window(t))
           /\ Cardinality(Since(t)) \in Nat /\ Cardinality(Window(t)) \in Nat
  <1>1. IsFiniteSet(OneTime!Codes)
    BY CodesFacts, FS_AddElement
  <1>2. Since(t) \subseteq OneTime!Codes /\ Window(t) \subseteq OneTime!Codes
    BY DEF Since, Window
  <1>3. QED
    BY <1>1, <1>2, FS_Subset, FS_CardinalityType

LEMMA ResendsInit == OneTime!Init => CodesInv /\ ResendsInv
  <1> SUFFICES ASSUME OneTime!Init PROVE ResendsInv
    BY CodesInit
  <1>1. /\ now = 0 /\ uncounted = 0
        /\ request = [r \in Requests |-> OneTime!New]
        /\ OneTime!New.step = "new" /\ OneTime!New.draft = None
    BY DEF OneTime!Init, OneTime!New
  <1>2. \/ /\ user.sent = None /\ user.resends = 0
           /\ issuedAt = [c \in OneTime!Codes |-> None]
        \/ /\ user.sent = 0 /\ user.resends = 1
           /\ issuedAt = [c \in OneTime!Codes |-> IF c = Opening THEN 0 ELSE None]
    BY DEF OneTime!Init
  <1>3. ASSUME NEW t \in Nat
        PROVE  /\ Since(t) \subseteq {Opening} /\ Window(t) \subseteq {Opening}
               /\ Cardinality(Since(t)) <= 1 /\ Cardinality(Window(t)) <= 1
    <2>1. Since(t) \subseteq {Opening} /\ Window(t) \subseteq {Opening}
      BY <1>2 DEF Since, Window
    <2>2. IsFiniteSet({Opening}) /\ Cardinality({Opening}) = 1
      BY FS_Singleton
    <2>3. QED
      BY <2>1, <2>2, FS_Subset
  <1>4. \A r \in Requests : ResendIsSound(request[r])
    BY <1>1 DEF ResendIsSound
  <1>5. user.sent # None => Cardinality(Since(user.sent)) <= user.resends + uncounted
    BY <1>1, <1>2, <1>3
  <1>6. \A t \in Nat : Cardinality(Window(t)) <= MaxResends + uncounted
    <2> SUFFICES ASSUME NEW t \in Nat PROVE Cardinality(Window(t)) <= MaxResends + uncounted
      OBVIOUS
    <2>1. Cardinality(Window(t)) \in Nat /\ Cardinality(Window(t)) <= 1
      BY <1>3, SinceCount
    <2>2. QED
      BY <1>1, <2>1, CodesFacts
  <1>7. QED
    BY <1>1, <1>2, <1>4, <1>5, <1>6, CodesFacts DEF ResendsInv

\* The steps that issue nothing.
LEMMA NothingIssued ==
    ASSUME CodesInv, ResendsInv, NEW r \in Requests, OnlyOne(r),
           UNCHANGED <<now, issuedAt, uncounted>>,
           user'.sent = user.sent, user'.resends = user.resends,
           ResendIsSound(request'[r])
    PROVE  ResendsInv'
  <1>1. \A t : Since(t)' = Since(t) /\ Window(t)' = Window(t)
    BY DEF Since, Window
  <1>2. \A q : ResendIsSound(q)' <=> ResendIsSound(q)
    BY DEF ResendIsSound, OneTime!RecentlySent
  <1>3. (\A s \in Requests : ResendIsSound(request[s]))'
    BY <1>2 DEF ResendsInv, OnlyOne
  <1>4. QED
    BY <1>1, <1>3 DEF ResendsInv

LEMMA StartKeepsResends ==
    ASSUME CodesInv, ResendsInv, NEW r \in Requests,
           NEW what \in {"issue", "check"}, NEW kind, NEW to, NEW moves, NEW guess,
           OneTime!Start(r, what, kind, to, moves, guess),
           what = "issue" => OneTime!MayResend(user)
    PROVE  ResendsInv'
  <1>1. /\ request[r] \in OneTime!Request /\ request \in [Requests -> OneTime!Request]
        /\ user \in OneTime!User /\ request[r].draft = None
    BY DEF CodesInv, OneTime!TypeOK, RequestsAreSound, OneTime!Start
  <1> DEFINE q == [request[r] EXCEPT !.step = "read", !.what = what, !.kind = kind, !.to = to,
                                     !.moves = moves, !.guess = guess, !.seen = user]
  <1>2. q.what = what /\ q.seen = user /\ q.draft = None
    BY <1>1 DEF OneTime!Request
  <1>3. request' = [request EXCEPT ![r] = q]
        /\ UNCHANGED <<now, user, issuedAt, uncounted>>
    BY DEF OneTime!Start, OneTime!histories
  <1> HIDE DEF q
  <1>4. OnlyOne(r) /\ request'[r] = q
    BY <1>1, <1>3 DEF OnlyOne
  <1>5. ResendIsSound(request'[r])
    <2>1. user.resends \in Nat
      BY <1>1, UserFields
    <2>2. QED
      BY <1>2, <1>4, <2>1, CodesFacts DEF ResendIsSound, OneTime!MayResend
  <1>6. QED
    BY <1>3, <1>4, <1>5, NothingIssued

LEMMA WriteKeepsResends ==
    ASSUME CodesInv, ResendsInv, NEW r \in Requests, OneTime!Write(r)
    PROVE  ResendsInv'
  <1>1. /\ request[r] \in OneTime!Request /\ request \in [Requests -> OneTime!Request]
        /\ OneTime!TypeOK /\ now \in Nat
    BY DEF CodesInv, OneTime!TypeOK
  <1>2. /\ request[r].step = "read" /\ request[r].what = "issue"
        /\ UNCHANGED <<now, user, issuedAt, uncounted>>
        /\ \/ request' = [request EXCEPT ![r].step = "written",
                                         ![r].draft = OneTime!Renewed(r, user)]
           \/ request' = [request EXCEPT ![r].step = "written"]
    BY DEF OneTime!Write, OneTime!histories
  <1>3. request[r].seen \in OneTime!User /\ request[r].draft = None
    BY <1>2 DEF CodesInv, RequestsAreSound
  <1> DEFINE u == OneTime!Renewed(r, user)
  <1>4. u.sent = now /\ u.resends = OneTime!Counted(request[r].seen, now)
    BY <1>1, <1>3, RenewedFields
  <1>5. u.resends \in Nat /\ u.resends <= MaxResends
    <2>1. request[r].seen.resends \in Nat
      BY <1>3, UserFields
    <2>2. OneTime!RecentlySent(request[r].seen, now) => request[r].seen.resends < MaxResends
      BY <1>2 DEF ResendsInv, ResendIsSound
    <2>3. QED
      BY <1>4, <2>1, <2>2, CodesFacts DEF OneTime!Counted
  <1> HIDE DEF u
  <1>6. /\ OnlyOne(r) /\ request'[r].step = "written"
        /\ request'[r].draft \in {u, None}
    <2>1. CASE request' = [request EXCEPT ![r].step = "written", ![r].draft = u]
      BY <1>1, <2>1 DEF OnlyOne, OneTime!Request
    <2>2. CASE request' = [request EXCEPT ![r].step = "written"]
      BY <1>1, <1>3, <2>2 DEF OnlyOne, OneTime!Request
    <2>3. QED
      BY <1>2, <2>1, <2>2 DEF u
  <1>7. ResendIsSound(request'[r])
    BY <1>1, <1>4, <1>5, <1>6 DEF ResendsInv, ResendIsSound
  <1>8. QED
    BY <1>2, <1>6, <1>7, NothingIssued

\* The steps that go on or are over, and touch no row of users.
LEMMA OthersKeepResends ==
    ASSUME CodesInv, ResendsInv, NEW r \in Requests,
           \/ OneTime!Clear(r) \/ OneTime!Mail(r) \/ OneTime!Look(r) \/ OneTime!Count(r)
           \/ OneTime!Exhausted(r) \/ OneTime!Refuse(r) \/ OneTime!Cut(r) \/ OneTime!Deadlock(r)
    PROVE  ResendsInv'
  <1>1. /\ request[r] \in OneTime!Request /\ request \in [Requests -> OneTime!Request]
        /\ OneTime!TypeOK /\ request[r].draft \in OneTime!User \cup {None}
    BY DEF CodesInv, OneTime!TypeOK, OneTime!Request
  <1>2. UNCHANGED <<now, user, issuedAt, uncounted>>
    BY DEF OneTime!Clear, OneTime!Mail, OneTime!Look, OneTime!Count, OneTime!Exhausted,
           OneTime!Refuse, OneTime!Cut, OneTime!Deadlock, OneTime!Rollback, OneTime!histories
  <1>3. CASE OneTime!Clear(r) \/ OneTime!Look(r) \/ OneTime!Count(r)
    <2>1. OnlyOne(r) /\ request'[r].draft = request[r].draft /\ request'[r].step # "read"
      BY <1>1, <1>3 DEF OneTime!Clear, OneTime!Look, OneTime!Count, OneTime!Request, OnlyOne
    <2>2. ResendIsSound(request'[r])
      BY <2>1 DEF ResendsInv, ResendIsSound
    <2>3. QED
      BY <1>2, <2>1, <2>2, NothingIssued
  <1>4. CASE OneTime!Mail(r)
    <2> DEFINE old == request[r].draft
               draft == IF request[r].moves THEN [old EXCEPT !.pending = request[r].to]
                                            ELSE old
    <2>1. request[r].moves => old \in OneTime!User
      <3>1. request[r].step = "cleared" /\ (request[r].moves => request[r].kind # "reset")
        BY <1>4 DEF OneTime!Mail, CodesInv, RequestsAreSound
      <3>2. request[r].moves => old # None
        BY <3>1 DEF CodesInv, RequestsAreSound
      <3>3. QED
        BY <1>1, <3>2
    <2>2. /\ draft # None => old # None
          /\ old # None => draft.sent = old.sent /\ draft.resends = old.resends
      <3>1. CASE request[r].moves
        BY <2>1, <3>1, CodesFacts DEF OneTime!User
      <3>2. CASE ~request[r].moves
        BY <3>2
      <3>3. QED
        BY <3>1, <3>2
    <2>3. request' = [request EXCEPT ![r].step = "mailed", ![r].draft = draft]
      BY <1>4 DEF OneTime!Mail
    <2> HIDE DEF draft
    <2>4. OnlyOne(r) /\ request'[r].step = "mailed" /\ request'[r].draft = draft
      BY <1>1, <2>3 DEF OneTime!Request, OnlyOne
    <2>5. ResendIsSound(request'[r])
      BY <2>2, <2>4 DEF ResendsInv, ResendIsSound
    <2>6. QED
      BY <1>2, <2>4, <2>5, NothingIssued
  <1>5. CASE OneTime!Exhausted(r) \/ OneTime!Refuse(r) \/ OneTime!Cut(r) \/ OneTime!Deadlock(r)
    <2>1. OneTime!End(r)
      BY <1>5 DEF OneTime!Exhausted, OneTime!Refuse, OneTime!Cut, OneTime!Deadlock,
                  OneTime!Rollback
    <2>2. OnlyOne(r) /\ request'[r].step = "done" /\ request'[r].draft = None
      BY <1>1, <2>1, Ending
    <2>3. ResendIsSound(request'[r])
      BY <2>2 DEF ResendIsSound
    <2>4. QED
      BY <1>2, <2>2, <2>3, NothingIssued
  <1>6. QED
    BY <1>3, <1>4, <1>5

LEMMA AcceptKeepsResends ==
    ASSUME CodesInv, ResendsInv, NEW r \in Requests, OneTime!Accept(r)
    PROVE  ResendsInv'
  <1>1. OneTime!TypeOK /\ (request[r].kind = "email_change" => request[r].to \in Addresses)
    BY DEF CodesInv, RequestsAreSound
  <1>2. /\ OneTime!End(r) /\ user' = OneTime!Confirmed(r, user)
        /\ UNCHANGED <<now, issuedAt, uncounted>>
    BY DEF OneTime!Accept
  <1>3. user'.sent = user.sent /\ user'.resends = user.resends
    BY <1>1, <1>2, ConfirmedFields
  <1>4. OnlyOne(r) /\ request'[r].step = "done" /\ request'[r].draft = None
    BY <1>1, <1>2, Ending
  <1>5. ResendIsSound(request'[r])
    BY <1>4 DEF ResendIsSound
  <1>6. QED
    BY <1>2, <1>3, <1>4, <1>5, NothingIssued

LEMMA CommitKeepsResends ==
    ASSUME CodesInv, ResendsInv, NEW r \in Requests, OneTime!CommitIssue(r)
    PROVE  ResendsInv'
  <1>1. /\ OneTime!TypeOK /\ now \in Nat /\ uncounted \in Nat /\ user \in OneTime!User
        /\ issuedAt \in [OneTime!Codes -> Nat \cup {None}]
    BY DEF CodesInv, OneTime!TypeOK
  <1>2. OneTime!End(r) /\ now' = now
    BY DEF OneTime!CommitIssue
  <1>3. OnlyOne(r) /\ request'[r].step = "done" /\ request'[r].draft = None
    BY <1>1, <1>2, Ending
  <1>4. CASE request[r].draft = None
    <2>1. UNCHANGED <<user, issuedAt, uncounted>>
      BY <1>4 DEF OneTime!CommitIssue
    <2>2. ResendIsSound(request'[r])
      BY <1>3 DEF ResendIsSound
    <2>3. QED
      BY <1>2, <1>3, <2>1, <2>2, NothingIssued
  <1>5. CASE request[r].draft # None
    <2>1. PICK draft : draft = request[r].draft
      OBVIOUS
    <2>2. PICK d : d = draft.sent
      OBVIOUS
    <2>3. /\ d \in Nat /\ d <= now /\ draft.resends \in Nat /\ draft.resends <= MaxResends
          /\ user.sent # None => user.sent <= d
      BY <1>5, <2>1, <2>2 DEF ResendsInv, ResendIsSound
    <2> DEFINE n == OneTime!Counted(user, d)
    <2>4. /\ user' = draft
          /\ issuedAt' = [issuedAt EXCEPT ![r] = d]
          /\ uncounted' = uncounted + OneTime!Excess(n, draft.resends)
      BY <1>5, <2>1, <2>2 DEF OneTime!CommitIssue
    <2>5. user.sent \in Nat \cup {None} /\ user.resends \in Nat
      BY <1>1, UserFields
    <2>6. /\ n \in Nat
          /\ OneTime!RecentlySent(user, d) => n = user.resends + 1
          /\ ~OneTime!RecentlySent(user, d) => n = 1
      BY <2>5 DEF OneTime!Counted, OneTime!RecentlySent
    <2>7. /\ uncounted' \in Nat /\ uncounted <= uncounted'
          /\ uncounted + n <= draft.resends + uncounted'
      <3> HIDE DEF n
      <3>1. QED
        BY <1>1, <2>3, <2>4, <2>6 DEF OneTime!Excess
    <2> HIDE DEF n
    <2>8. \A s \in Requests : request'[s].draft = None
      BY <1>3, <1>5 DEF CodesInv, LocksAreHeld, OnlyOne
    <2>9. (\A s \in Requests : ResendIsSound(request[s]))'
      <3>1. \A s \in Requests : s # r =>
               (request[s].step = "read" /\ request[s].what = "issue"
                  /\ OneTime!RecentlySent(request[s].seen, now) =>
                request[s].seen.resends < MaxResends)'
        BY <1>2, <1>3 DEF ResendsInv, ResendIsSound, OnlyOne, OneTime!RecentlySent
      <3>2. QED
        BY <1>3, <2>8, <3>1 DEF ResendIsSound
    <2>10. user'.sent = d /\ user'.resends = draft.resends
      BY <2>2, <2>4
    <2>11. \A c \in OneTime!Codes : issuedAt[c] # None => issuedAt[c] \in Nat /\ issuedAt[c] <= d
      BY <1>1, <2>3, <2>5 DEF ResendsInv
    <2>12. /\ \A c \in OneTime!Codes : issuedAt'[c] # None => issuedAt'[c] <= d
           /\ r \in OneTime!Codes
           /\ \A c \in OneTime!Codes : issuedAt'[c] = IF c = r THEN d ELSE issuedAt[c]
      BY <1>1, <2>3, <2>4, <2>11, CodesFacts
    <2>13. IsFiniteSet(Since(d)') /\ Cardinality(Since(d)') \in Nat
           /\ Cardinality(Since(d)') <= uncounted + n
      <3>1. CASE OneTime!RecentlySent(user, d)
        <4>1. PICK old : old = user.sent
          OBVIOUS
        <4>2. old \in Nat /\ old <= d /\ Cardinality(Since(old)) <= user.resends + uncounted
          BY <2>3, <2>5, <3>1, <4>1 DEF ResendsInv, OneTime!RecentlySent
        <4>3. Since(d)' \subseteq Since(old) \cup {r}
          BY <2>3, <2>11, <2>12, <4>2, CodesFacts DEF Since
        <4>4. IsFiniteSet(Since(old)) /\ Cardinality(Since(old)) \in Nat
          BY <4>2, SinceCount
        <4>5. /\ IsFiniteSet(Since(d)') /\ Cardinality(Since(d)') \in Nat
              /\ Cardinality(Since(d)') <= Cardinality(Since(old)) + 1
          BY <4>3, <4>4, OneMore
        <4>6. QED
          BY <1>1, <2>5, <2>6, <3>1, <4>2, <4>4, <4>5
      <3>2. CASE ~OneTime!RecentlySent(user, d)
        <4>1. Since(d)' \subseteq {} \cup {r}
          BY <1>1, <2>3, <2>5, <2>12, <3>2, CodesFacts
             DEF Since, ResendsInv, OneTime!RecentlySent
        <4>2. IsFiniteSet({}) /\ Cardinality({}) = 0
          BY FS_EmptySet
        <4>3. /\ IsFiniteSet(Since(d)') /\ Cardinality(Since(d)') \in Nat
              /\ Cardinality(Since(d)') <= Cardinality({}) + 1
          BY <4>1, <4>2, OneMore
        <4>4. QED
          BY <1>1, <2>6, <3>2, <4>2, <4>3
      <3>3. QED
        BY <3>1, <3>2
    <2>14. (\A t \in Nat : Cardinality(Window(t)) <= MaxResends + uncounted)'
      <3> SUFFICES ASSUME NEW t \in Nat
                   PROVE  Cardinality(Window(t)') <= MaxResends + uncounted'
        OBVIOUS
      <3>1. CASE d <= t
        <4>1. Window(t)' \subseteq Since(d)'
          BY <1>1, <2>3, <2>11, <2>12, <3>1, CodesFacts DEF Window, Since
        <4>2. Cardinality(Window(t)') <= Cardinality(Since(d)')
          BY <2>13, <4>1, FS_Subset
        <4>3. Cardinality(Window(t)') \in Nat
          BY <2>13, <4>1, FS_Subset, FS_CardinalityType
        <4>4. QED
          BY <1>1, <2>3, <2>6, <2>7, <2>13, <4>2, <4>3, CodesFacts
      <3>2. CASE t < d
        <4>1. Window(t)' \subseteq Window(t)
          BY <2>3, <2>12, <3>2, CodesFacts DEF Window
        <4>2. IsFiniteSet(Window(t)) /\ Cardinality(Window(t)) \in Nat
          BY SinceCount
        <4>3. Cardinality(Window(t)') <= Cardinality(Window(t)) /\ Cardinality(Window(t)') \in Nat
          BY <4>1, <4>2, FS_Subset, FS_CardinalityType
        <4>4. Cardinality(Window(t)) <= MaxResends + uncounted
          BY DEF ResendsInv
        <4>5. QED
          BY <1>1, <2>7, <4>2, <4>3, <4>4, CodesFacts
      <3>3. QED
        BY <2>3, <3>1, <3>2
    <2>15. (user.sent # None => Cardinality(Since(user.sent)) <= user.resends + uncounted)'
      <3>1. Cardinality(Since(d)') <= draft.resends + uncounted'
        BY <1>1, <2>3, <2>6, <2>7, <2>13
      <3>2. Since(user.sent)' = Since(d)'
        BY <2>10
      <3>3. QED
        BY <2>10, <3>1, <3>2
    <2>16. (\A c \in OneTime!Codes :
               issuedAt[c] # None => user.sent # None /\ issuedAt[c] <= user.sent)'
      BY <2>3, <2>10, <2>12, CodesFacts
    <2>17. QED
      BY <1>2, <2>3, <2>9, <2>10, <2>14, <2>15, <2>16 DEF ResendsInv
  <1>6. QED
    BY <1>4, <1>5

LEMMA ResendsStep == CodesInv /\ ResendsInv /\ [OneTime!Next]_codesVars => ResendsInv'
  <1> SUFFICES ASSUME CodesInv, ResendsInv, [OneTime!Next]_codesVars PROVE ResendsInv'
    OBVIOUS
  <1>1. CASE OneTime!Tick \/ UNCHANGED codesVars
    <2>1. /\ UNCHANGED <<user, request, issuedAt, uncounted>>
          /\ now' \in {now, now + 1}
      BY <1>1 DEF OneTime!Tick, OneTime!locks, OneTime!histories, codesVars
    <2>2. \A t : Since(t)' = Since(t) /\ Window(t)' = Window(t)
      BY <2>1 DEF Since, Window
    <2>3. ASSUME NEW r \in Requests PROVE ResendIsSound(request[r])'
      <3>1. /\ ResendIsSound(request[r]) /\ now \in Nat
            /\ request[r].what = "issue" => request[r].seen \in OneTime!User
        BY DEF ResendsInv, CodesInv, OneTime!TypeOK, RequestsAreSound
      <3>2. request[r].what = "issue" => request[r].seen.sent \in Nat \cup {None}
        BY <3>1, UserFields
      <3>3. QED
        BY <2>1, <3>1, <3>2, CodesFacts DEF ResendIsSound, OneTime!RecentlySent
    <2>4. user.sent \in Nat \cup {None} /\ now \in Nat
      <3>1. user \in OneTime!User /\ now \in Nat
        BY DEF CodesInv, OneTime!TypeOK
      <3>2. QED
        BY <3>1, UserFields
    <2>5. QED
      BY <2>1, <2>2, <2>3, <2>4 DEF ResendsInv
  <1>2. ASSUME NEW r \in Requests, OneTime!Issue(r) PROVE ResendsInv'
    BY <1>2, StartKeepsResends DEF OneTime!Issue
  <1>3. ASSUME NEW r \in Requests, OneTime!Present(r) PROVE ResendsInv'
    BY <1>3, StartKeepsResends DEF OneTime!Present
  <1>4. ASSUME NEW r \in Requests,
               \/ OneTime!Write(r) \/ OneTime!Clear(r) \/ OneTime!Mail(r)
               \/ OneTime!CommitIssue(r) \/ OneTime!Look(r) \/ OneTime!Exhausted(r)
               \/ OneTime!Count(r) \/ OneTime!Refuse(r) \/ OneTime!Accept(r)
               \/ OneTime!Cut(r) \/ OneTime!Deadlock(r)
        PROVE  ResendsInv'
    BY <1>4, WriteKeepsResends, CommitKeepsResends, AcceptKeepsResends, OthersKeepResends
  <1>5. QED
    BY <1>1, <1>2, <1>3, <1>4 DEF OneTime!Next

\* No hour of an account sees more codes than the limit, but for those that
\* overlapping requests wrote over (_compute_resend_count of
\* services/emailing/otp_service.py): the row counts the hour before its last one.
THEOREM ResendsTheorem == Spec => []ResendsAreCapped
  <1> DEFINE Inv == served = "codes" => CodesInv /\ ResendsInv
  <1>1. Init => Inv
    BY ResendsInit DEF Init
  <1>2. Inv /\ [Next]_vars => Inv'
    <2>1. CASE UNCHANGED vars
      <3>1. UNCHANGED served /\ UNCHANGED codesVars
        BY <2>1 DEF vars
      <3>2. QED
        BY <3>1, CodesStep, ResendsStep
    <2>2. CASE Next /\ served = "codes"
      BY <2>2, CodesStep, ResendsStep DEF Next
    <2>3. CASE Next /\ served # "codes"
      BY <2>3 DEF Next
    <2>4. QED
      BY <2>1, <2>2, <2>3
  <1>3. Inv => ResendsAreCapped
    <2> SUFFICES ASSUME served = "codes", ResendsInv, now \in Nat, NEW t \in 0 .. now
                 PROVE  OneTime!Cardinality(Window(t)) <= MaxResends + uncounted
      BY DEF ResendsAreCapped, OneTime!ResendsAreCapped, CodesInv, OneTime!TypeOK, Window
    <2>1. QED
      BY CodesCounts DEF ResendsInv
  <1>4. QED
    BY <1>1, <1>2, <1>3, PTL DEF Spec

-----------------------------------------------------------------------------
(* The lockout of logins.                                                  *)

LEMMA LoginsFacts ==
    /\ IsFiniteSet(Requests)
    /\ MaxLoginAttempts \in Nat /\ 1 <= MaxLoginAttempts
    /\ LoginWindow \in Nat /\ 1 <= LoginWindow
    /\ None \notin Nat
    /\ \A S : Lockout!Cardinality(S) = Cardinality(S)
  <1>1. \A S : Lockout!IsFiniteSet(S) = IsFiniteSet(S)
    BY DEF Lockout!IsFiniteSet, IsFiniteSet
  <1>2. \A S : Lockout!Cardinality(S) = Cardinality(S)
    BY DEF Lockout!Cardinality, Cardinality
  <1>3. QED
    BY <1>1, <1>2, ServicesAssumption DEF Lockout!LoginsConstants

FailedSince(t) == {f \in failed : f[2] > t - LoginWindow}
FailedWindow(t) == {f \in failed : f[2] \in t - LoginWindow + 1 .. t}

\* What a count and the time of its last failure say of the failures since t.
Tally(count, last, t) == IF last # None /\ last > t - LoginWindow THEN count ELSE 0

\* What a login has read counts all but those that it did not see.
LoginIsSound(q) ==
    q.step = "comparing" =>
        /\ q.at <= clock
        /\ q.last # None => q.last <= q.at
        /\ Lockout!Recent(q.last, q.at) => q.count < MaxLoginAttempts
        /\ \A t \in Nat : q.at <= t =>
              Cardinality(FailedSince(t)) <= Tally(q.count, q.last, t) + missed + q.unseen

LoginsInv ==
    /\ Lockout!TypeOK
    /\ IsFiniteSet(failed)
    /\ account.last # None => account.last <= clock
    /\ \A t \in Nat : account.last = None \/ account.last <= t =>
          Cardinality(FailedSince(t)) <= Tally(account.count, account.last, t) + missed
    /\ \A r \in Requests : LoginIsSound(login[r])
    /\ \A t \in Nat : Cardinality(FailedWindow(t)) <= MaxLoginAttempts + missed

\* The row of an account, and what a login keeps of it.
AccountRow == [count : Nat, last : Nat \cup {None}]
Attempt == [step : {"new", "comparing", "done"}, at : Nat, count : Nat,
            last : Nat \cup {None}, unseen : Nat]

LEMMA LoginsTypes ==
    Lockout!TypeOK <=> /\ clock \in Nat /\ account \in AccountRow
                       /\ login \in [Requests -> Attempt]
                       /\ failed \subseteq Requests \X Nat /\ missed \in Nat
  BY DEF Lockout!TypeOK, AccountRow, Attempt

LEMMA FailedCount ==
    ASSUME IsFiniteSet(failed), NEW t \in Nat
    PROVE  /\ IsFiniteSet(FailedSince(t)) /\ IsFiniteSet(FailedWindow(t))
           /\ Cardinality(FailedSince(t)) \in Nat /\ Cardinality(FailedWindow(t)) \in Nat
  <1>1. FailedSince(t) \subseteq failed /\ FailedWindow(t) \subseteq failed
    BY DEF FailedSince, FailedWindow
  <1>2. QED
    BY <1>1, FS_Subset, FS_CardinalityType

LEMMA LoginsInit == Lockout!Init => LoginsInv
  <1> SUFFICES ASSUME Lockout!Init PROVE LoginsInv
    OBVIOUS
  <1>1. /\ clock = 0 /\ account = [count |-> 0, last |-> None] /\ failed = {} /\ missed = 0
        /\ login = [r \in Requests |-> [step |-> "new", at |-> 0, count |-> 0, last |-> None,
                                        unseen |-> 0]]
    BY DEF Lockout!Init
  <1>2. Lockout!TypeOK
    BY <1>1 DEF Lockout!TypeOK
  <1>3. IsFiniteSet(failed)
    BY <1>1, FS_EmptySet
  <1>4. \A t \in Nat : Cardinality(FailedSince(t)) = 0 /\ Cardinality(FailedWindow(t)) = 0
    <2>1. \A t \in Nat : FailedSince(t) = {} /\ FailedWindow(t) = {}
      BY <1>1 DEF FailedSince, FailedWindow
    <2>2. QED
      BY <2>1, FS_EmptySet
  <1>5. \A r \in Requests : LoginIsSound(login[r])
    BY <1>1 DEF LoginIsSound
  <1>6. \A t \in Nat : Tally(account.count, account.last, t) = 0
    BY <1>1 DEF Tally
  <1>7. \A t \in Nat : account.last = None \/ account.last <= t =>
          Cardinality(FailedSince(t)) <= Tally(account.count, account.last, t) + missed
    BY <1>1, <1>4, <1>6
  <1>8. \A t \in Nat : Cardinality(FailedWindow(t)) <= MaxLoginAttempts + missed
    BY <1>1, <1>4, LoginsFacts
  <1>9. QED
    BY <1>1, <1>2, <1>3, <1>5, <1>7, <1>8 DEF LoginsInv

\* The steps that add no failure.
LEMMA NoFailure ==
    ASSUME LoginsInv, NEW r \in Requests, login' \in [Requests -> Attempt],
           \A s \in Requests \ {r} : login'[s] = login[s],
           UNCHANGED <<clock, account, failed, missed>>,
           LoginIsSound(login'[r])
    PROVE  LoginsInv'
  <1>1. \A t : FailedSince(t)' = FailedSince(t) /\ FailedWindow(t)' = FailedWindow(t)
    BY DEF FailedSince, FailedWindow
  <1>2. \A q : LoginIsSound(q) => LoginIsSound(q)'
    BY <1>1 DEF LoginIsSound
  <1>3. Lockout!TypeOK'
    BY LoginsTypes DEF LoginsInv, Lockout!TypeOK, AccountRow, Attempt
  <1>4. (\A s \in Requests : LoginIsSound(login[s]))'
    BY <1>2 DEF LoginsInv
  <1>5. QED
    BY <1>1, <1>3, <1>4 DEF LoginsInv

LEMMA BeginKeeps ==
    ASSUME LoginsInv, NEW r \in Requests, Lockout!Begin(r) \/ Lockout!TurnedAway(r)
    PROVE  LoginsInv'
  <1>1. /\ login \in [Requests -> Attempt] /\ login[r] \in Attempt
        /\ clock \in Nat /\ account \in AccountRow /\ missed \in Nat
        /\ account.count \in Nat /\ account.last \in Nat \cup {None}
    BY LoginsTypes DEF LoginsInv, AccountRow
  <1>2. UNCHANGED <<clock, account, failed, missed>> /\ login[r].step = "new"
    BY DEF Lockout!Begin, Lockout!TurnedAway
  <1>3. CASE Lockout!TurnedAway(r)
    <2>1. login' = [login EXCEPT ![r].step = "done"]
      BY <1>3 DEF Lockout!TurnedAway
    <2>2. /\ login' \in [Requests -> Attempt] /\ login'[r].step = "done"
          /\ \A s \in Requests \ {r} : login'[s] = login[s]
      BY <1>1, <2>1 DEF Attempt
    <2>3. LoginIsSound(login'[r])
      BY <2>2 DEF LoginIsSound
    <2>4. QED
      BY <1>2, <2>2, <2>3, NoFailure
  <1>4. CASE Lockout!Begin(r)
    <2> DEFINE q0 == login[r]
               q1 == [q0 EXCEPT !.step = "comparing"]
               q2 == [q1 EXCEPT !.at = clock]
               q3 == [q2 EXCEPT !.count = account.count]
               q4 == [q3 EXCEPT !.last = account.last]
    <2>1. q1 \in Attempt /\ q1.step = "comparing" /\ q1.unseen = q0.unseen
      BY <1>1 DEF Attempt
    <2>2. q2 \in Attempt /\ q2.step = "comparing" /\ q2.unseen = q0.unseen /\ q2.at = clock
      <3> HIDE DEF q1
      <3>1. QED
        BY <1>1, <2>1 DEF Attempt
    <2>3. /\ q3 \in Attempt /\ q3.step = "comparing" /\ q3.unseen = q0.unseen /\ q3.at = clock
          /\ q3.count = account.count
      <3> HIDE DEF q2
      <3>1. QED
        BY <1>1, <2>2 DEF Attempt
    <2>4. /\ q4 \in Attempt /\ q4.step = "comparing" /\ q4.unseen = q0.unseen /\ q4.at = clock
          /\ q4.count = account.count /\ q4.last = account.last
      <3> HIDE DEF q3
      <3>1. QED
        BY <1>1, <2>3 DEF Attempt
    <2>5. login' = [login EXCEPT ![r] = q4]
      BY <1>4 DEF Lockout!Begin
    <2> HIDE DEF q4
    <2>6. /\ login' \in [Requests -> Attempt] /\ login'[r] = q4
          /\ \A s \in Requests \ {r} : login'[s] = login[s]
      BY <1>1, <2>4, <2>5
    <2>7. LoginIsSound(login'[r])
      <3>1. /\ clock <= clock
            /\ account.last # None => account.last <= clock
            /\ Lockout!Recent(account.last, clock) => account.count < MaxLoginAttempts
        BY <1>1, <1>4, LoginsFacts DEF Lockout!Begin, Lockout!LoginLocked, LoginsInv
      <3>2. ASSUME NEW t \in Nat, clock <= t
            PROVE  Cardinality(FailedSince(t)) <=
                      Tally(account.count, account.last, t) + missed + q4.unseen
        <4> DEFINE n == Cardinality(FailedSince(t))
                   m == Tally(account.count, account.last, t)
        <4>1. n <= m + missed
          BY <1>1, <3>2, LoginsFacts DEF LoginsInv
        <4>2. n \in Nat /\ m \in Nat /\ q4.unseen \in Nat
          BY <1>1, <2>4, FailedCount DEF Tally, LoginsInv, Attempt
        <4> HIDE DEF n, m
        <4>3. QED
          BY <1>1, <4>1, <4>2 DEF n, m
      <3>3. QED
        BY <2>4, <2>6, <3>1, <3>2 DEF LoginIsSound
    <2>8. QED
      BY <1>2, <2>6, <2>7, NoFailure
  <1>5. QED
    BY <1>3, <1>4

LEMMA PassKeeps ==
    ASSUME LoginsInv, NEW r \in Requests, Lockout!PassLogin(r)
    PROVE  LoginsInv'
  <1>1. /\ login \in [Requests -> Attempt] /\ login[r] \in Attempt
        /\ clock \in Nat /\ missed \in Nat
    BY LoginsTypes DEF LoginsInv
  <1>2. login' = [login EXCEPT ![r].step = "done"] /\ UNCHANGED <<clock, missed>>
    BY DEF Lockout!PassLogin
  <1>3. /\ login' \in [Requests -> Attempt] /\ login'[r].step = "done"
        /\ \A s \in Requests \ {r} : login'[s] = login[s]
    BY <1>1, <1>2 DEF Attempt
  <1>4. CASE UNCHANGED <<account, failed>>
    <2>1. LoginIsSound(login'[r])
      BY <1>3 DEF LoginIsSound
    <2>2. QED
      BY <1>2, <1>3, <1>4, <2>1, NoFailure
  <1>5. CASE account' = [count |-> 0, last |-> None] /\ failed' = {}
    <2>1. account' \in AccountRow /\ account'.last = None
      BY <1>5 DEF AccountRow
    <2>2. Lockout!TypeOK'
      BY <1>1, <1>2, <1>3, <1>5, <2>1 DEF Lockout!TypeOK, AccountRow, Attempt
    <2>3. IsFiniteSet(failed')
      BY <1>5, FS_EmptySet
    <2>4. \A t \in Nat : Cardinality(FailedSince(t)') = 0 /\ Cardinality(FailedWindow(t)') = 0
      <3>1. \A t \in Nat : FailedSince(t)' = {} /\ FailedWindow(t)' = {}
        BY <1>5 DEF FailedSince, FailedWindow
      <3>2. QED
        BY <3>1, FS_EmptySet
    <2>5. ASSUME NEW s \in Requests PROVE LoginIsSound(login[s])'
      <3>1. CASE s = r
        BY <1>3, <3>1 DEF LoginIsSound
      <3>2. CASE s # r
        <4>1. login'[s] = login[s] /\ LoginIsSound(login[s]) /\ login[s] \in Attempt
          BY <1>1, <1>3, <3>2 DEF LoginsInv
        <4>2. login[s].count \in Nat /\ login[s].unseen \in Nat
          BY <4>1 DEF Attempt
        <4>3. \A t \in Nat : Tally(login[s].count, login[s].last, t) \in Nat
          BY <4>2 DEF Tally
        <4>4. \A t \in Nat :
                 0 <= Tally(login[s].count, login[s].last, t) + missed + login[s].unseen
          BY <1>1, <4>2, <4>3
        <4>5. \A t \in Nat : Cardinality(FailedSince(t)') <=
                 Tally(login'[s].count, login'[s].last, t) + missed' + login'[s].unseen
          BY <1>2, <2>4, <4>1, <4>4
        <4>6. QED
          BY <1>2, <4>1, <4>5 DEF LoginIsSound
      <3>3. QED
        BY <3>1, <3>2
    <2>6. \A t \in Nat : Cardinality(FailedSince(t)') <= Tally(account.count, account.last, t)' + missed'
      <3>1. \A t \in Nat : Tally(account.count, account.last, t)' = 0
        BY <1>5, <2>1 DEF Tally
      <3>2. QED
        BY <1>1, <1>2, <2>4, <3>1
    <2>7. \A t \in Nat : Cardinality(FailedWindow(t)') <= MaxLoginAttempts + missed'
      BY <1>1, <1>2, <2>4, LoginsFacts
    <2>8. QED
      BY <2>1, <2>2, <2>3, <2>5, <2>6, <2>7 DEF LoginsInv
  <1>6. QED
    BY <1>4, <1>5 DEF Lockout!PassLogin

\* A failure that is counted by what was read counts for every time after it.
LEMMA Tallied ==
    ASSUME NEW count \in Nat, NEW last \in Nat \cup {None}, NEW at \in Nat, NEW t \in Nat,
           last # None => last <= at, at <= t,
           NEW g \in Nat, NEW h \in Nat, NEW total \in Nat,
           g <= Tally(count, last, t) + total,
           h <= g + 1, ~(at > t - LoginWindow) => h <= g
    PROVE  h <= Tally(Lockout!NextFailureCount(count, last, at), at, t) + total
  <1>1. LoginWindow \in Nat /\ None \notin Nat
    BY LoginsFacts
  <1>2. CASE last # None /\ last > at - LoginWindow
    BY <1>1, <1>2 DEF Tally, Lockout!NextFailureCount, Lockout!Recent
  <1>3. CASE ~(last # None /\ last > at - LoginWindow)
    BY <1>1, <1>3 DEF Tally, Lockout!NextFailureCount, Lockout!Recent
  <1>4. QED
    BY <1>2, <1>3

LEMMA FailKeeps ==
    ASSUME LoginsInv, NEW r \in Requests, Lockout!FailLogin(r)
    PROVE  LoginsInv'
  <1>1. /\ login \in [Requests -> Attempt] /\ login[r] \in Attempt
        /\ clock \in Nat /\ missed \in Nat /\ failed \subseteq Requests \X Nat
        /\ IsFiniteSet(failed)
    BY LoginsTypes DEF LoginsInv
  <1>2. PICK q \in Attempt : q = login[r]
    BY <1>1
  <1>3. PICK a \in Nat : a = q.at
    BY <1>2 DEF Attempt
  <1>4. PICK n : n = Lockout!NextFailureCount(q.count, q.last, a)
    OBVIOUS
  <1>5. /\ q.step = "comparing"
        /\ account' = [count |-> n, last |-> a]
        /\ failed' = failed \cup {<<r, a>>}
        /\ missed' = missed + q.unseen
        /\ login' = [Lockout!Overtake(r) EXCEPT ![r].step = "done"]
        /\ clock' = clock
    BY <1>2, <1>3, <1>4 DEF Lockout!FailLogin
  <1>6. /\ q.count \in Nat /\ q.last \in Nat \cup {None} /\ q.unseen \in Nat
        /\ a <= clock /\ (q.last # None => q.last <= a)
        /\ Lockout!Recent(q.last, a) => q.count < MaxLoginAttempts
        /\ \A t \in Nat : a <= t =>
              Cardinality(FailedSince(t)) <= Tally(q.count, q.last, t) + missed + q.unseen
    BY <1>2, <1>3, <1>5 DEF LoginsInv, LoginIsSound, Attempt
  <1>7. n \in Nat /\ n <= MaxLoginAttempts
    BY <1>4, <1>6, LoginsFacts DEF Lockout!NextFailureCount, Lockout!Recent
  <1>8. missed' \in Nat /\ missed <= missed'
    BY <1>1, <1>5, <1>6
  <1>9. /\ login' \in [Requests -> Attempt] /\ login'[r].step = "done"
        /\ \A s \in Requests \ {r} :
              /\ login'[s].step = login[s].step /\ login'[s].at = login[s].at
              /\ login'[s].count = login[s].count /\ login'[s].last = login[s].last
              /\ login[s].step = "comparing" => login'[s].unseen = login[s].unseen + 1
    <2>1. \A w \in Attempt :
             LET e == [w EXCEPT !.unseen = @ + 1]
             IN  /\ e \in Attempt /\ e.step = w.step /\ e.at = w.at /\ e.count = w.count
                 /\ e.last = w.last /\ e.unseen = w.unseen + 1
      BY DEF Attempt
    <2> DEFINE f == Lockout!Overtake(r)
    <2>2. /\ f \in [Requests -> Attempt] /\ f[r] = login[r]
          /\ \A s \in Requests \ {r} :
                /\ f[s].step = login[s].step /\ f[s].at = login[s].at
                /\ f[s].count = login[s].count /\ f[s].last = login[s].last
                /\ login[s].step = "comparing" => f[s].unseen = login[s].unseen + 1
      BY <1>1, <2>1 DEF Lockout!Overtake
    <2> HIDE DEF f
    <2>3. login' = [f EXCEPT ![r].step = "done"]
      BY <1>5 DEF f
    <2>4. QED
      BY <1>1, <2>2, <2>3 DEF Attempt
  <1>10. account' \in AccountRow /\ account'.last = a /\ account'.count = n
    BY <1>5, <1>7 DEF AccountRow
  <1>11. Lockout!TypeOK'
    BY <1>1, <1>5, <1>8, <1>9, <1>10 DEF Lockout!TypeOK, AccountRow, Attempt
  <1>12. IsFiniteSet(failed')
    BY <1>1, <1>5, FS_AddElement
  <1>13. ASSUME NEW t \in Nat
         PROVE  /\ Cardinality(FailedSince(t)) \in Nat /\ Cardinality(FailedSince(t)') \in Nat
                /\ Cardinality(FailedWindow(t)') \in Nat
                /\ Cardinality(FailedSince(t)') <= Cardinality(FailedSince(t)) + 1
                /\ ~(a > t - LoginWindow) =>
                      Cardinality(FailedSince(t)') <= Cardinality(FailedSince(t))
                /\ a <= t => Cardinality(FailedWindow(t)') <= Cardinality(FailedSince(t)')
                /\ t < a => Cardinality(FailedWindow(t)') <= Cardinality(FailedWindow(t))
    <2>1. /\ IsFiniteSet(FailedSince(t)) /\ IsFiniteSet(FailedWindow(t))
          /\ Cardinality(FailedSince(t)) \in Nat
      BY <1>1, FailedCount
    <2>2. FailedSince(t)' \subseteq FailedSince(t) \cup {<<r, a>>}
      BY <1>5 DEF FailedSince
    <2>3. /\ IsFiniteSet(FailedSince(t)') /\ Cardinality(FailedSince(t)') \in Nat
          /\ Cardinality(FailedSince(t)') <= Cardinality(FailedSince(t)) + 1
          /\ FailedSince(t)' \subseteq FailedSince(t) =>
                Cardinality(FailedSince(t)') <= Cardinality(FailedSince(t))
      BY <2>1, <2>2, OneMore
    <2>4. ~(a > t - LoginWindow) => FailedSince(t)' \subseteq FailedSince(t)
      BY <1>5 DEF FailedSince
    <2>5. FailedWindow(t)' \subseteq FailedSince(t)'
      BY <1>1, <1>5, LoginsFacts DEF FailedSince, FailedWindow
    <2>6. t < a => FailedWindow(t)' \subseteq FailedWindow(t)
      BY <1>5, LoginsFacts DEF FailedWindow
    <2>7. /\ Cardinality(FailedWindow(t)') <= Cardinality(FailedSince(t)')
          /\ Cardinality(FailedWindow(t)') \in Nat
      BY <2>3, <2>5, FS_Subset, FS_CardinalityType
    <2>8. t < a => Cardinality(FailedWindow(t)') <= Cardinality(FailedWindow(t))
      BY <2>1, <2>6, FS_Subset
    <2>9. QED
      BY <2>1, <2>3, <2>4, <2>7, <2>8
  <1>14. ASSUME NEW t \in Nat, a <= t
         PROVE  Cardinality(FailedSince(t)') <= Tally(n, a, t) + missed'
    <2>1. missed' = missed + q.unseen
      BY <1>5
    <2> DEFINE g == Cardinality(FailedSince(t))
               h == Cardinality(FailedSince(t)')
    <2>2. g \in Nat /\ h \in Nat /\ h <= g + 1 /\ (~(a > t - LoginWindow) => h <= g)
      BY <1>13
    <2>3. Tally(q.count, q.last, t) \in Nat
      BY <1>6 DEF Tally
    <2>4. g <= Tally(q.count, q.last, t) + missed + q.unseen
      BY <1>6, <1>14
    <2> HIDE DEF g, h
    <2>5. g <= Tally(q.count, q.last, t) + missed'
      BY <1>1, <1>6, <2>1, <2>2, <2>3, <2>4
    <2>6. h <= Tally(n, a, t) + missed'
      BY <1>4, <1>6, <1>8, <1>14, <2>2, <2>5, Tallied
    <2>7. QED
      BY <2>6 DEF h
  <1>15. (\A t \in Nat : account.last = None \/ account.last <= t =>
            Cardinality(FailedSince(t)) <= Tally(account.count, account.last, t) + missed)'
    <2>1. \A t \in Nat : Tally(account.count, account.last, t)' = Tally(n, a, t)
      BY <1>10 DEF Tally
    <2>2. a # None
      BY LoginsFacts
    <2>3. QED
      BY <1>10, <1>14, <2>1, <2>2
  <1>16. ASSUME NEW s \in Requests PROVE LoginIsSound(login[s])'
    <2>1. CASE s = r
      BY <1>9, <2>1 DEF LoginIsSound
    <2>2. CASE s # r /\ login[s].step = "comparing"
      <3>1. PICK p \in Attempt : p = login[s]
        BY <1>1
      <3>2. /\ p.count \in Nat /\ p.last \in Nat \cup {None} /\ p.unseen \in Nat
            /\ p.at \in Nat /\ LoginIsSound(p) /\ p.step = "comparing"
        BY <2>2, <3>1 DEF LoginsInv, Attempt
      <3>3. /\ login'[s].step = "comparing" /\ login'[s].at = p.at /\ login'[s].count = p.count
            /\ login'[s].last = p.last /\ login'[s].unseen = p.unseen + 1
        BY <1>9, <2>2, <3>1
      <3>4. ASSUME NEW t \in Nat, p.at <= t
            PROVE  Cardinality(FailedSince(t)') <=
                      Tally(p.count, p.last, t) + missed' + (p.unseen + 1)
        <4> DEFINE g == Cardinality(FailedSince(t))
                   h == Cardinality(FailedSince(t)')
                   m == Tally(p.count, p.last, t)
        <4>1. g <= m + missed + p.unseen
          BY <3>2, <3>4 DEF LoginIsSound
        <4>2. g \in Nat /\ h \in Nat /\ h <= g + 1
          BY <1>13
        <4>3. m \in Nat
          BY <3>2 DEF Tally
        <4> HIDE DEF g, h, m
        <4>4. h <= m + missed' + (p.unseen + 1)
          BY <1>1, <1>8, <3>2, <4>1, <4>2, <4>3
        <4>5. QED
          BY <4>4 DEF h, m
      <3>5. QED
        BY <1>5, <3>2, <3>3, <3>4 DEF LoginIsSound
    <2>3. CASE s # r /\ login[s].step # "comparing"
      BY <1>9, <2>3 DEF LoginIsSound
    <2>4. QED
      BY <2>1, <2>2, <2>3
  <1>17. (\A t \in Nat : Cardinality(FailedWindow(t)) <= MaxLoginAttempts + missed)'
    <2> SUFFICES ASSUME NEW t \in Nat
                 PROVE  Cardinality(FailedWindow(t)') <= MaxLoginAttempts + missed'
      OBVIOUS
    <2>1. CASE a <= t
      <3>1. Tally(n, a, t) <= MaxLoginAttempts /\ Tally(n, a, t) \in Nat
        BY <1>7, LoginsFacts DEF Tally
      <3>2. Cardinality(FailedSince(t)') <= Tally(n, a, t) + missed'
        BY <1>14, <2>1
      <3>3. QED
        BY <1>8, <1>13, <2>1, <3>1, <3>2, LoginsFacts
    <2>2. CASE t < a
      <3>1. Cardinality(FailedWindow(t)) <= MaxLoginAttempts + missed
        BY DEF LoginsInv
      <3>2. Cardinality(FailedWindow(t)) \in Nat
        BY <1>1, FailedCount
      <3>3. QED
        BY <1>1, <1>8, <1>13, <2>2, <3>1, <3>2, LoginsFacts
    <2>3. QED
      BY <2>1, <2>2
  <1>18. QED
    BY <1>5, <1>6, <1>10, <1>11, <1>12, <1>15, <1>16, <1>17 DEF LoginsInv

LEMMA LoginsStep == LoginsInv /\ [Lockout!Next]_loginVars => LoginsInv'
  <1> SUFFICES ASSUME LoginsInv, [Lockout!Next]_loginVars PROVE LoginsInv'
    OBVIOUS
  <1>1. CASE Lockout!LoginTick \/ UNCHANGED loginVars
    <2>1. /\ UNCHANGED <<account, login, failed, missed>>
          /\ clock' \in {clock, clock + 1}
      BY <1>1 DEF Lockout!LoginTick, loginVars
    <2>2. \A t : FailedSince(t)' = FailedSince(t) /\ FailedWindow(t)' = FailedWindow(t)
      BY <2>1 DEF FailedSince, FailedWindow
    <2>3. clock \in Nat /\ account.last \in Nat \cup {None} /\ \A r \in Requests : login[r].at \in Nat
      BY DEF LoginsInv, Lockout!TypeOK
    <2>4. Lockout!TypeOK'
      BY <2>1 DEF LoginsInv, Lockout!TypeOK
    <2>5. (\A r \in Requests : LoginIsSound(login[r]))'
      BY <2>1, <2>2, <2>3 DEF LoginsInv, LoginIsSound
    <2>6. \A t \in Nat : Tally(account.count, account.last, t)' = Tally(account.count, account.last, t)
      BY <2>1
    <2>7. QED
      BY <2>1, <2>2, <2>3, <2>4, <2>5, <2>6 DEF LoginsInv
  <1>2. ASSUME NEW r \in Requests,
               \/ Lockout!TurnedAway(r) \/ Lockout!Begin(r)
               \/ Lockout!FailLogin(r) \/ Lockout!PassLogin(r)
        PROVE  LoginsInv'
    BY <1>2, BeginKeeps, FailKeeps, PassKeeps
  <1>3. QED
    BY <1>1, <1>2 DEF Lockout!Next

\* No window of time holds more failures of an account than lock it
\* (login_user of services/authentication/email_password.py), but for those that
\* overlapping logins did not see and wrote over.
THEOREM LockoutTheorem == Spec => []LockoutHolds
  <1> DEFINE Inv == served = "logins" => LoginsInv
  <1>1. Init => Inv
    BY LoginsInit DEF Init
  <1>2. Inv /\ [Next]_vars => Inv'
    BY LoginsStep DEF Next, vars
  <1>3. Inv => LockoutHolds
    <2> SUFFICES ASSUME LoginsInv, NEW t \in 0 .. clock
                 PROVE  Lockout!Cardinality(FailedWindow(t)) <= MaxLoginAttempts + missed
      BY DEF LockoutHolds, Lockout!LockoutHolds, FailedWindow
    <2>1. t \in Nat
      BY DEF LoginsInv, Lockout!TypeOK
    <2>2. QED
      BY <2>1, LoginsFacts DEF LoginsInv
  <1>4. QED
    BY <1>1, <1>2, <1>3, PTL DEF Spec

-----------------------------------------------------------------------------
(* The ceiling, when requests overlap.                                     *)

Most == IF MaxBatch > MaxPerType THEN MaxBatch ELSE MaxPerType
Roof == RestoreFactor * MaxPerType
Allowed == IF MaxBatch = 0 THEN MaxPerType ELSE Roof
Spare == (Cardinality(Overlapping) - 1) * Most

LEMMA Times == ASSUME NEW a \in Nat, NEW b \in Nat
               PROVE  a * b \in Nat /\ (1 <= a => b <= a * b)
  <1>1. CASE a = 0
    BY <1>1
  <1>2. CASE 1 <= a
    <2>1. PICK c \in Nat : a = c + 1
      BY <1>2
    <2>2. a * b = c * b + b
      BY <2>1
    <2>3. c * b \in Nat
      OBVIOUS
    <2>4. QED
      BY <2>2, <2>3
  <1>3. QED
    BY <1>1, <1>2

LEMMA RaceFacts ==
    /\ IsFiniteSet(Ids) /\ IsFiniteSet(Overlapping) /\ Overlapping # {}
    /\ MaxPerType \in Nat /\ MaxBatch \in Nat /\ Most \in Nat /\ MaxPerType <= Most /\ MaxBatch <= Most
    /\ Roof \in Nat /\ MaxPerType <= Roof /\ Spare \in Nat
    /\ Allowed \in Nat /\ MaxPerType <= Allowed /\ Allowed <= Roof
    /\ Cardinality(Overlapping) \in Nat /\ 1 <= Cardinality(Overlapping)
    /\ \A S : Race!Cardinality(S) = Cardinality(S)
  <1>1. \A S : Race!IsFiniteSet(S) = IsFiniteSet(S)
    BY DEF Race!IsFiniteSet, IsFiniteSet
  <1>2. \A S : Race!Cardinality(S) = Cardinality(S)
    BY DEF Race!Cardinality, Cardinality
  <1>3. /\ IsFiniteSet(Ids) /\ IsFiniteSet(Overlapping) /\ Overlapping # {}
        /\ MaxPerType \in Nat /\ MaxBatch \in Nat
        /\ RestoreFactor \in Nat /\ 1 <= RestoreFactor
    BY <1>1, ServicesAssumption DEF Race!RaceConstants
  <1>4. Most \in Nat /\ MaxPerType <= Most /\ MaxBatch <= Most
    BY <1>3 DEF Most
  <1>5. Cardinality(Overlapping) \in Nat /\ 1 <= Cardinality(Overlapping)
    BY <1>3, FS_CardinalityType, FS_EmptySet
  <1>6. Roof \in Nat /\ MaxPerType <= Roof
    BY <1>3, Times DEF Roof
  <1>7. Spare \in Nat
    <2>1. PICK n \in Nat : n = Cardinality(Overlapping) - 1
      BY <1>5
    <2>2. QED
      BY <1>4, <2>1, Times DEF Spare
  <1>8. Allowed \in Nat /\ MaxPerType <= Allowed /\ Allowed <= Roof
    BY <1>3, <1>6 DEF Allowed
  <1>9. QED
    BY <1>2, <1>3, <1>4, <1>5, <1>6, <1>7, <1>8

\* So many sets of so many elements have no more than the product.
LEMMA FewOfFew ==
    ASSUME NEW R, IsFiniteSet(R), NEW most \in Nat, NEW F,
           \A r \in R : IsFiniteSet(F[r]) /\ Cardinality(F[r]) <= most,
           NEW X, IsFiniteSet(X), \A x \in X : \E r \in R : x \in F[r]
    PROVE  Cardinality(X) <= Cardinality(R) * most
  <1> DEFINE Numbers(r, b) ==
                /\ b \in [1 .. Cardinality(F[r]) -> F[r]]
                /\ \A x \in F[r] : \E k \in 1 .. Cardinality(F[r]) : b[k] = x
             number == [r \in R |-> CHOOSE b : Numbers(r, b)]
             place_of == [x \in X |-> CHOOSE p \in R \X (1 .. most) :
                                         x \in F[p[1]] /\ number[p[1]][p[2]] = x]
             T == R \X (1 .. most)
  <1>1. ASSUME NEW r \in R PROVE Numbers(r, number[r])
    <2>1. PICK b : b \in Bijection(1 .. Cardinality(F[r]), F[r])
      BY FS_CardinalityType DEF ExistsBijection
    <2>2. Numbers(r, b)
      BY <2>1 DEF Bijection, Injection, Surjection
    <2>3. QED
      BY <2>2
  <1>2. ASSUME NEW x \in X
        PROVE  /\ place_of[x] \in T
               /\ number[place_of[x][1]][place_of[x][2]] = x
    <2>1. PICK r \in R : x \in F[r]
      OBVIOUS
    <2>2. PICK k \in 1 .. Cardinality(F[r]) : number[r][k] = x
      BY <1>1, <2>1
    <2>3. Cardinality(F[r]) \in Nat /\ Cardinality(F[r]) <= most
      BY FS_CardinalityType
    <2>4. k \in 1 .. most
      BY <2>2, <2>3
    <2> HIDE DEF number
    <2>5. <<r, k>> \in T /\ x \in F[<<r, k>>[1]] /\ number[<<r, k>>[1]][<<r, k>>[2]] = x
      BY <2>1, <2>2, <2>4
    <2>6. QED
      BY <2>5
  <1>3. IsFiniteSet(T) /\ Cardinality(T) = Cardinality(R) * most
    <2>1. IsFiniteSet(1 .. most) /\ Cardinality(1 .. most) = most
      BY FS_Interval
    <2>2. QED
      BY <2>1, FS_Product
  <1>4. place_of \in [X -> T]
    BY <1>2
  <1> HIDE DEF T, place_of, number
  <1>5. \A x, y \in X : place_of[x] = place_of[y] => x = y
    BY <1>2
  <1>6. ~(Cardinality(T) < Cardinality(X))
    BY <1>3, <1>4, <1>5, FS_PigeonHole
  <1>7. Cardinality(T) \in Nat /\ Cardinality(X) \in Nat
    BY <1>3, FS_CardinalityType
  <1>8. QED
    BY <1>3, <1>6, <1>7

Tracked == Race!Tracked
Trash == Race!At("trash")

\* What a request will add to the population.
Adds(r) ==
    IF entry[r].kind = "entry" THEN entry[r].ids \cap (Race!At("absent") \cup Race!At("archived"))
                               ELSE entry[r].ids \cap Trash

Coming == {i \in Ids : \E r \in Overlapping : i \in Adds(r)}

Errand == [kind : {"none", "entry", "restoration"}, ids : SUBSET Ids]

ErrandIsSound(q) ==
    \/ q = Race!Nothing
    \/ q.kind = "entry" /\ Cardinality(q.ids) <= MaxPerType
    \/ q.kind = "restoration" /\ Cardinality(q.ids) <= MaxBatch

\* What it adds still fits: nothing has come since it was guarded.
Alone(r) ==
    /\ entry[r].kind = "entry" => Cardinality(Tracked) + Cardinality(Adds(r)) <= MaxPerType
    /\ entry[r].kind = "restoration" /\ entry[r].ids \cap Trash # {} =>
          Cardinality(Tracked) + Cardinality(entry[r].ids \cap Trash) <= Roof

RaceInv ==
    /\ place \in [Ids -> {"absent", "tracked", "archived", "trash"}]
    /\ entry \in [Overlapping -> Errand]
    /\ overlapped \subseteq Race!UnderWay
    /\ \A r \in Overlapping : ErrandIsSound(entry[r])
    /\ \A r \in Overlapping \ overlapped : Alone(r)
    /\ Cardinality(Tracked) + Cardinality(Coming) <= Allowed + Spare

LEMMA RaceCounts ==
    /\ IsFiniteSet(Tracked) /\ IsFiniteSet(Coming) /\ IsFiniteSet(Trash)
    /\ IsFiniteSet(Tracked') /\ IsFiniteSet(Coming') /\ IsFiniteSet(Trash')
    /\ Cardinality(Tracked) \in Nat /\ Cardinality(Coming) \in Nat
    /\ Cardinality(Tracked') \in Nat /\ Cardinality(Coming') \in Nat
  <1>1. /\ Tracked \subseteq Ids /\ Coming \subseteq Ids /\ Trash \subseteq Ids
        /\ Tracked' \subseteq Ids /\ Coming' \subseteq Ids /\ Trash' \subseteq Ids
    BY DEF Tracked, Coming, Trash, Race!Tracked, Race!At
  <1>2. QED
    BY <1>1, RaceFacts, FS_Subset, FS_CardinalityType

LEMMA RaceInit == Race!Init => RaceInv
  <1> SUFFICES ASSUME Race!Init PROVE RaceInv
    OBVIOUS
  <1>1. /\ place = [i \in Ids |-> "absent"]
        /\ entry = [r \in Overlapping |-> Race!Nothing] /\ overlapped = {}
    BY DEF Race!Init
  <1>2. Race!Nothing \in Errand /\ Race!Nothing.kind = "none" /\ Race!Nothing.ids = {}
    BY DEF Race!Nothing, Errand
  <1>3. Tracked = {} /\ Coming = {}
    BY <1>1, <1>2 DEF Tracked, Coming, Adds, Race!Tracked, Race!At
  <1>4. Cardinality(Tracked) + Cardinality(Coming) <= Allowed + Spare
    BY <1>3, FS_EmptySet, RaceFacts
  <1>5. QED
    BY <1>1, <1>2, <1>4 DEF RaceInv, ErrandIsSound, Alone

\* A request that passes its guard: what it adds fits, or it adds nothing.
LEMMA Guarded ==
    ASSUME RaceInv, NEW r \in Overlapping,
           NEW q \in Errand, ErrandIsSound(q), q # Race!Nothing,
           entry' = [entry EXCEPT ![r] = q], UNCHANGED <<place, overlapped>>,
           Alone(r)',
           Adds(r)' # {} => Cardinality(Tracked) + Cardinality(Adds(r)') <= Allowed
    PROVE  RaceInv'
  <1>1. /\ entry \in [Overlapping -> Errand] /\ entry' \in [Overlapping -> Errand]
        /\ entry'[r] = q /\ \A s \in Overlapping \ {r} : entry'[s] = entry[s]
    BY DEF RaceInv
  <1>2. Tracked' = Tracked /\ Trash' = Trash
    BY DEF Tracked, Trash, Race!Tracked, Race!At
  <1>3. overlapped' \subseteq Race!UnderWay'
    BY <1>1 DEF RaceInv, Race!UnderWay
  <1>4. (\A s \in Overlapping : ErrandIsSound(entry[s]))'
    BY <1>1 DEF RaceInv, ErrandIsSound
  <1>5. \A s \in Overlapping \ {r} : Adds(s)' = Adds(s)
    BY <1>1, <1>2 DEF Adds, Race!At
  <1>6. (\A s \in Overlapping \ overlapped : Alone(s))'
    BY <1>1, <1>2, <1>5 DEF RaceInv, Alone
  <1>7. Adds(r)' \subseteq Ids
    BY <1>1 DEF Adds, Errand
  <1>8. IsFiniteSet(Adds(r)')
    BY <1>7, RaceFacts, FS_Subset
  <1> DEFINE others == Overlapping \ {r}
             theirs == {i \in Ids : \E s \in others : i \in Adds(s)}
  <1>9. /\ IsFiniteSet(theirs) /\ Cardinality(theirs) \in Nat
        /\ Cardinality(theirs) <= Spare
    <2>1. IsFiniteSet(theirs)
      BY RaceFacts, FS_Subset
    <2>2. IsFiniteSet(others) /\ Cardinality(others) = Cardinality(Overlapping) - 1
      BY RaceFacts, FS_RemoveElement
    <2> DEFINE F == [s \in others |-> Adds(s)]
    <2>3. ASSUME NEW s \in others PROVE IsFiniteSet(F[s]) /\ Cardinality(F[s]) <= Most
      <3>1. entry[s].ids \subseteq Ids /\ ErrandIsSound(entry[s])
        BY <1>1 DEF RaceInv, Errand
      <3>2. F[s] \subseteq entry[s].ids /\ IsFiniteSet(entry[s].ids)
        BY <3>1, RaceFacts, FS_Subset DEF Adds
      <3>3. Cardinality(entry[s].ids) <= Most /\ Cardinality(entry[s].ids) \in Nat
        <4>1. Cardinality(entry[s].ids) \in Nat
          BY <3>2, FS_CardinalityType
        <4>2. CASE entry[s] = Race!Nothing
          BY <4>1, <4>2, RaceFacts, FS_EmptySet DEF Race!Nothing
        <4>3. CASE Cardinality(entry[s].ids) <= MaxPerType
          BY <4>1, <4>3, RaceFacts
        <4>4. CASE Cardinality(entry[s].ids) <= MaxBatch
          BY <4>1, <4>4, RaceFacts
        <4>5. QED
          BY <3>1, <4>1, <4>2, <4>3, <4>4 DEF ErrandIsSound
      <3>4. IsFiniteSet(F[s]) /\ Cardinality(F[s]) <= Cardinality(entry[s].ids)
            /\ Cardinality(F[s]) \in Nat
        BY <3>2, FS_Subset, FS_CardinalityType
      <3>5. QED
        BY <3>3, <3>4, RaceFacts
    <2>4. \A i \in theirs : \E s \in others : i \in F[s]
      OBVIOUS
    <2> HIDE DEF F, theirs, others
    <2>5. Cardinality(theirs) <= Cardinality(others) * Most
      BY <2>1, <2>2, <2>3, <2>4, RaceFacts, FewOfFew
    <2>6. QED
      BY <2>1, <2>2, <2>5, FS_CardinalityType DEF Spare
  <1>10. (Cardinality(Tracked) + Cardinality(Coming) <= Allowed + Spare)'
    <2>1. CASE Adds(r)' = {}
      <3>1. Coming' \subseteq Coming
        BY <1>5, <2>1 DEF Coming
      <3>2. Cardinality(Coming') <= Cardinality(Coming)
        BY <3>1, RaceCounts, FS_Subset
      <3>3. QED
        BY <1>2, <3>2, RaceCounts, RaceFacts DEF RaceInv
    <2>2. CASE Adds(r)' # {}
      <3>1. Coming' \subseteq theirs \cup Adds(r)'
        BY <1>5 DEF Coming
      <3> HIDE DEF theirs
      <3>2. /\ IsFiniteSet(theirs \cup Adds(r)')
            /\ Cardinality(theirs \cup Adds(r)') =
                  Cardinality(theirs) + Cardinality(Adds(r)') - Cardinality(theirs \cap Adds(r)')
        BY <1>8, <1>9, FS_Union
      <3>3. Cardinality(theirs \cap Adds(r)') \in Nat /\ Cardinality(Adds(r)') \in Nat
        BY <1>8, <1>9, FS_Intersection, FS_CardinalityType
      <3>4. Cardinality(Coming') <= Cardinality(theirs \cup Adds(r)')
        BY <3>1, <3>2, FS_Subset
      <3>5. Cardinality(Coming') <= Cardinality(theirs) + Cardinality(Adds(r)')
        BY <1>9, <3>2, <3>3, <3>4, RaceCounts
      <3>6. QED
        BY <1>2, <1>9, <2>2, <3>3, <3>5, RaceCounts, RaceFacts
    <2>3. QED
      BY <2>1, <2>2
  <1>11. place' \in [Ids -> {"absent", "tracked", "archived", "trash"}]
    BY DEF RaceInv
  <1>12. QED
    BY <1>1, <1>3, <1>4, <1>6, <1>10, <1>11 DEF RaceInv

LEMMA GuardKeeps ==
    ASSUME RaceInv, NEW r \in Overlapping, NEW i \in Ids,
           Race!GuardEntry(r, i) \/ Race!GuardNext(r, i)
    PROVE  RaceInv'
  <1>1. entry \in [Overlapping -> Errand] /\ entry[r] \in Errand
    BY DEF RaceInv
  <1>2. PICK ids \in SUBSET Ids :
          /\ entry' = [entry EXCEPT ![r] = [kind |-> "entry", ids |-> ids \cup {i}]]
          /\ Cardinality(Tracked \cup ids) < MaxPerType
    <2>1. CASE Race!GuardEntry(r, i)
      <3>1. /\ entry' = [entry EXCEPT ![r] = [kind |-> "entry", ids |-> {i}]]
            /\ Cardinality(Tracked) < MaxPerType
        BY <2>1, RaceFacts DEF Race!GuardEntry, Race!Population, Tracked
      <3>2. {} \cup {i} = {i} /\ Tracked \cup {} = Tracked
        OBVIOUS
      <3>3. QED
        BY <3>1, <3>2
    <2>2. CASE Race!GuardNext(r, i)
      <3>1. /\ entry[r].kind = "entry" /\ entry[r].ids \in SUBSET Ids
            /\ entry' = [entry EXCEPT ![r].ids = @ \cup {i}]
            /\ Cardinality(Tracked \cup entry[r].ids) < MaxPerType
        BY <1>1, <2>2, RaceFacts DEF Race!GuardNext, Tracked, Errand
      <3>2. [entry[r] EXCEPT !.ids = @ \cup {i}]
               = [kind |-> "entry", ids |-> entry[r].ids \cup {i}]
        <4>1. entry[r] = [kind |-> "entry", ids |-> entry[r].ids]
          BY <1>1, <3>1 DEF Errand
        <4>2. \A k, old : [[kind |-> k, ids |-> old] EXCEPT !.ids = @ \cup {i}]
                          = [kind |-> k, ids |-> old \cup {i}]
          OBVIOUS
        <4>3. QED
          BY <4>1, <4>2
      <3>3. entry' = [entry EXCEPT ![r] = [kind |-> "entry", ids |-> entry[r].ids \cup {i}]]
        BY <1>1, <3>1, <3>2
      <3>4. QED
        BY <3>1, <3>3
    <2>3. QED
      BY <2>1, <2>2
  <1>3. UNCHANGED <<place, overlapped>>
    BY DEF Race!GuardEntry, Race!GuardNext
  <1> DEFINE all == ids \cup {i}
             q == [kind |-> "entry", ids |-> all]
  <1>4. /\ IsFiniteSet(Tracked \cup all) /\ Cardinality(Tracked \cup all) \in Nat
        /\ Cardinality(Tracked \cup all) <= MaxPerType
    <2>1. IsFiniteSet(Tracked \cup ids) /\ Cardinality(Tracked \cup ids) \in Nat
      BY RaceFacts, RaceCounts, FS_Subset, FS_Union, FS_CardinalityType
    <2>2. Tracked \cup all \subseteq (Tracked \cup ids) \cup {i}
      OBVIOUS
    <2>3. /\ IsFiniteSet(Tracked \cup all) /\ Cardinality(Tracked \cup all) \in Nat
          /\ Cardinality(Tracked \cup all) <= Cardinality(Tracked \cup ids) + 1
      BY <2>1, <2>2, OneMore
    <2>4. QED
      BY <1>2, <2>1, <2>3, RaceFacts
  <1>5. all \subseteq Ids /\ Cardinality(all) <= MaxPerType
    <2>1. all \subseteq Tracked \cup all
      OBVIOUS
    <2>2. Cardinality(all) <= Cardinality(Tracked \cup all) /\ Cardinality(all) \in Nat
      BY <1>4, <2>1, FS_Subset, FS_CardinalityType
    <2>3. QED
      BY <1>2, <1>4, <2>2, RaceFacts
  <1>6. q \in Errand /\ ErrandIsSound(q) /\ q.kind = "entry" /\ q.ids = all
    BY <1>5 DEF Errand, ErrandIsSound
  <1>7. entry' = [entry EXCEPT ![r] = q]
    BY <1>2
  <1> HIDE DEF q, all
  <1>8. q # Race!Nothing
    BY <1>6 DEF Race!Nothing
  <1>9. Tracked' = Tracked /\ entry'[r] = q
    BY <1>1, <1>3, <1>7 DEF Tracked, Race!Tracked, Race!At
  <1>10. Adds(r)' \subseteq all /\ Adds(r)' \cap Tracked = {}
    BY <1>3, <1>6, <1>9 DEF Adds, Race!At, Tracked, Race!Tracked
  <1>11. Cardinality(Tracked) + Cardinality(Adds(r)') <= MaxPerType
    <2> DEFINE new == Adds(r)'
    <2>1. new \subseteq all /\ new \cap Tracked = {}
      BY <1>10
    <2> HIDE DEF new
    <2>2. IsFiniteSet(new) /\ Cardinality(new) \in Nat
      BY <1>5, <2>1, RaceFacts, FS_Subset, FS_CardinalityType
    <2>3. Cardinality(Tracked \cup new) = Cardinality(Tracked) + Cardinality(new)
      <3>1. Cardinality(Tracked \cup new) =
               Cardinality(Tracked) + Cardinality(new) - Cardinality(Tracked \cap new)
        BY <2>2, RaceCounts, FS_Union
      <3>2. Tracked \cap new = {}
        BY <2>1
      <3>3. Cardinality(Tracked \cap new) = 0
        BY <3>2, FS_EmptySet
      <3>4. QED
        BY <2>2, <3>1, <3>3, RaceCounts
    <2>4. Tracked \cup new \subseteq Tracked \cup all
      BY <2>1
    <2>5. Cardinality(Tracked \cup new) <= Cardinality(Tracked \cup all)
      BY <1>4, <2>4, FS_Subset
    <2>6. Cardinality(Tracked) + Cardinality(new) <= MaxPerType
      BY <1>4, <2>2, <2>3, <2>5, RaceCounts, RaceFacts
    <2>7. QED
      BY <2>6 DEF new
  <1>12. Alone(r)'
    BY <1>6, <1>9, <1>11 DEF Alone
  <1>13. Cardinality(Tracked) + Cardinality(Adds(r)') <= Allowed
    <2>1. IsFiniteSet(Adds(r)')
      BY <1>5, <1>10, RaceFacts, FS_Subset
    <2>2. Cardinality(Adds(r)') \in Nat
      BY <2>1, FS_CardinalityType
    <2>3. QED
      BY <1>11, <2>2, RaceCounts, RaceFacts
  <1>14. QED
    BY <1>3, <1>6, <1>7, <1>8, <1>12, <1>13, Guarded

LEMMA GuardRestoreKeeps ==
    ASSUME RaceInv, NEW r \in Overlapping, NEW n \in 1 .. MaxBatch,
           NEW ids \in Race!kSubset(n, Race!Tracked \cup Race!At("trash")),
           Race!GuardRestore(r, ids)
    PROVE  RaceInv'
  <1> DEFINE q == [kind |-> "restoration", ids |-> ids]
  <1>1. ids \subseteq Ids /\ Cardinality(ids) <= MaxBatch
    BY RaceFacts DEF Race!kSubset, Race!Tracked, Race!At
  <1>2. q \in Errand /\ ErrandIsSound(q) /\ q.kind = "restoration" /\ q.ids = ids
    BY <1>1 DEF Errand, ErrandIsSound
  <1>3. /\ r \notin Race!UnderWay /\ entry' = [entry EXCEPT ![r] = q]
        /\ UNCHANGED <<place, overlapped>>
        /\ ids \cap Trash # {} => Cardinality(Tracked) + Cardinality(ids \cap Trash) <= Roof
    BY RaceFacts DEF Race!GuardRestore, Race!Population, Tracked, Trash, Roof
  <1> HIDE DEF q
  <1>4. Tracked' = Tracked /\ Trash' = Trash /\ entry'[r] = q
    BY <1>3 DEF Tracked, Trash, Race!Tracked, Race!At, RaceInv
  <1>5. Alone(r)'
    BY <1>2, <1>3, <1>4 DEF Alone
  <1>6. Adds(r)' = ids \cap Trash
    BY <1>2, <1>4 DEF Adds
  <1>7. Allowed = Roof
    BY RaceFacts DEF Allowed
  <1>8. q # Race!Nothing
    BY <1>2 DEF Race!Nothing
  <1>9. QED
    BY <1>2, <1>3, <1>5, <1>6, <1>7, <1>8, Guarded

\* A request that writes: what it adds was coming.
LEMMA CommitEntry ==
    ASSUME RaceInv, NEW r \in Overlapping,
           \/ Race!Enter(r) \/ Race!Restore(r)
    PROVE  /\ RaceInv'
           /\ Tracked' = Tracked \cup Adds(r)
           /\ entry[r].kind = "entry" <=> Race!Enter(r)
           /\ r \in Race!UnderWay
  <1>1. /\ entry \in [Overlapping -> Errand] /\ place \in [Ids -> {"absent", "tracked", "archived", "trash"}]
        /\ entry[r].ids \subseteq Ids
    BY DEF RaceInv, Errand
  <1>2. PICK D : D = Adds(r)
    OBVIOUS
  <1>3. D \subseteq Ids /\ D \cap Tracked = {}
    BY <1>1, <1>2 DEF Adds, Tracked, Trash, Race!Tracked, Race!At
  <1>4. /\ entry[r].kind \in {"entry", "restoration"}
        /\ entry[r].kind = "entry" <=> Race!Enter(r)
        /\ Race!Commit(r, D)
    BY <1>2 DEF Race!Enter, Race!Restore, Adds, Trash
  <1>5. /\ place' = [i \in Ids |-> IF i \in D THEN "tracked" ELSE place[i]]
        /\ entry' = [entry EXCEPT ![r] = Race!Nothing]
        /\ overlapped' = (IF D = {} THEN overlapped ELSE overlapped \cup Race!UnderWay) \ {r}
    BY <1>4 DEF Race!Commit
  <1>6. /\ Race!Nothing \in Errand /\ Race!Nothing.kind = "none" /\ Race!Nothing.ids = {}
    BY DEF Race!Nothing, Errand
  <1>7. /\ entry' \in [Overlapping -> Errand] /\ entry'[r] = Race!Nothing
        /\ \A s \in Overlapping \ {r} : entry'[s] = entry[s]
    BY <1>1, <1>5, <1>6
  <1>8. r \in Race!UnderWay
    BY <1>4, <1>6 DEF Race!UnderWay
  <1>9. Tracked' = Tracked \cup D
    BY <1>1, <1>3, <1>5 DEF Tracked, Race!Tracked, Race!At
  <1>10. place' \in [Ids -> {"absent", "tracked", "archived", "trash"}]
    BY <1>1, <1>5
  <1>11. overlapped' \subseteq Race!UnderWay'
    BY <1>5, <1>7 DEF RaceInv, Race!UnderWay
  <1>12. (\A s \in Overlapping : ErrandIsSound(entry[s]))'
    BY <1>7 DEF RaceInv, ErrandIsSound
  <1>13. (\A s \in Overlapping \ overlapped : Alone(s))'
    <2> SUFFICES ASSUME NEW s \in Overlapping \ overlapped' PROVE Alone(s)'
      OBVIOUS
    <2>1. CASE entry'[s] = Race!Nothing
      BY <1>6, <2>1 DEF Alone
    <2>2. CASE entry'[s] # Race!Nothing
      <3>1. s # r /\ entry'[s] = entry[s] /\ s \in Race!UnderWay
        BY <1>7, <2>2 DEF Race!UnderWay
      <3>2. D = {} /\ s \notin overlapped
        BY <1>5, <3>1
      <3>3. place' = place
        BY <1>1, <1>5, <3>2
      <3>4. Tracked' = Tracked /\ Trash' = Trash
        BY <3>3 DEF Tracked, Trash, Race!Tracked, Race!At
      <3>5. QED
        BY <3>1, <3>2, <3>3, <3>4 DEF RaceInv, Alone, Adds, Race!At
    <2>3. QED
      BY <2>1, <2>2
  <1>14. (Cardinality(Tracked) + Cardinality(Coming) <= Allowed + Spare)'
    <2>1. Coming' \subseteq Coming \ D
      <3> SUFFICES ASSUME NEW i \in Ids, NEW s \in Overlapping, i \in Adds(s)'
                   PROVE  i \in Coming \ D
        BY DEF Coming
      <3>1. s # r
        BY <1>6, <1>7 DEF Adds
      <3>2. i \notin D /\ place'[i] = place[i]
        BY <1>5 DEF Adds, Trash, Race!At
      <3>3. i \in Adds(s)
        BY <1>7, <3>1, <3>2 DEF Adds, Trash, Race!At
      <3>4. QED
        BY <3>2, <3>3 DEF Coming
    <2>2. D \subseteq Coming
      BY <1>2, <1>3 DEF Coming
    <2>3. IsFiniteSet(D) /\ Cardinality(D) \in Nat
      BY <2>2, RaceCounts, FS_Subset, FS_CardinalityType
    <2>4. /\ IsFiniteSet(Coming \ D)
          /\ Cardinality(Coming \ D) = Cardinality(Coming) - Cardinality(D)
      <3>1. Coming \cap D = D
        BY <2>2
      <3>2. QED
        BY <3>1, RaceCounts, FS_Difference
    <2>5. Cardinality(Coming') <= Cardinality(Coming \ D)
      BY <2>1, <2>4, FS_Subset
    <2>6. Cardinality(Tracked') = Cardinality(Tracked) + Cardinality(D)
      <3>1. Cardinality(Tracked \cap D) = 0
        BY <1>3, FS_EmptySet
      <3>2. Cardinality(Tracked \cup D) =
               Cardinality(Tracked) + Cardinality(D) - Cardinality(Tracked \cap D)
        BY <2>3, RaceCounts, FS_Union
      <3>3. QED
        BY <1>9, <2>3, <3>1, <3>2, RaceCounts
    <2>7. Cardinality(Tracked) + Cardinality(Coming) <= Allowed + Spare
      BY DEF RaceInv
    <2>8. QED
      BY <2>3, <2>4, <2>5, <2>6, <2>7, RaceCounts, RaceFacts
  <1>15. QED
    BY <1>2, <1>4, <1>7, <1>8, <1>9, <1>10, <1>11, <1>12, <1>13, <1>14 DEF RaceInv

\* An archive or a deletion: one that leaves may come back.
LEMMA MoveKeeps ==
    ASSUME RaceInv, NEW i \in Ids, Race!Archive(i) \/ Race!Delete(i)
    PROVE  RaceInv'
  <1>1. PICK to \in {"archived", "trash"} :
            /\ place[i] = "tracked" /\ place' = [place EXCEPT ![i] = to] /\ entry' = entry
            /\ \/ to = "archived" /\ overlapped' = overlapped
               \/ overlapped' = Race!UnderWay
    BY DEF Race!Archive, Race!Delete, Race!Move
  <1>2. place \in [Ids -> {"absent", "tracked", "archived", "trash"}]
    BY DEF RaceInv
  <1>3. Tracked' = Tracked \ {i} /\ i \in Tracked
    BY <1>1, <1>2 DEF Tracked, Race!Tracked, Race!At
  <1>4. Cardinality(Tracked') = Cardinality(Tracked) - 1
    BY <1>3, RaceCounts, OneLess
  <1>5. place' \in [Ids -> {"absent", "tracked", "archived", "trash"}]
    BY <1>1, <1>2
  <1>6. overlapped' \subseteq Race!UnderWay'
    BY <1>1 DEF RaceInv, Race!UnderWay
  <1>7. (\A s \in Overlapping \ overlapped : Alone(s))'
    <2> SUFFICES ASSUME NEW s \in Overlapping \ overlapped' PROVE Alone(s)'
      OBVIOUS
    <2>1. CASE to = "archived" /\ overlapped' = overlapped
      <3>1. Trash' = Trash
        BY <1>1, <1>2, <2>1 DEF Trash, Race!At
      <3>2. IsFiniteSet(entry[s].ids \cap Trash) /\ Cardinality(entry[s].ids \cap Trash) \in Nat
        BY RaceCounts, FS_Intersection, FS_CardinalityType
      <3>3. Alone(s)
        BY <2>1 DEF RaceInv
      <3>4. CASE entry[s].kind = "entry"
        <4>1. Adds(s)' \subseteq Adds(s) \cup {i} /\ Adds(s) \subseteq Ids
          BY <1>1, <1>2, <3>4 DEF Adds, Race!At
        <4>2. IsFiniteSet(Adds(s)) /\ Cardinality(Adds(s)) \in Nat
          BY <4>1, RaceFacts, FS_Subset, FS_CardinalityType
        <4> DEFINE new == Adds(s)'
        <4>3. new \subseteq Adds(s) \cup {i}
          BY <4>1
        <4> HIDE DEF new
        <4>4. Cardinality(new) <= Cardinality(Adds(s)) + 1 /\ Cardinality(new) \in Nat
          BY <4>2, <4>3, OneMore
        <4>5. Cardinality(Tracked') + Cardinality(new) <= MaxPerType
          BY <1>4, <3>3, <3>4, <4>2, <4>4, RaceCounts, RaceFacts DEF Alone
        <4>6. QED
          BY <1>1, <3>4, <4>5 DEF Alone, new
      <3>5. CASE entry[s].kind # "entry"
        BY <1>1, <1>4, <3>1, <3>2, <3>3, <3>5, RaceCounts, RaceFacts DEF Alone
      <3>6. QED
        BY <3>4, <3>5
    <2>2. CASE overlapped' = Race!UnderWay
      <3>1. entry'[s] = Race!Nothing
        BY <1>1, <2>2 DEF Race!UnderWay
      <3>2. QED
        BY <3>1 DEF Alone, Race!Nothing
    <2>3. QED
      BY <1>1, <2>1, <2>2
  <1>8. (Cardinality(Tracked) + Cardinality(Coming) <= Allowed + Spare)'
    <2>1. Coming' \subseteq Coming \cup {i}
      BY <1>1, <1>2 DEF Coming, Adds, Trash, Race!At
    <2>2. Cardinality(Coming') <= Cardinality(Coming) + 1
      BY <2>1, RaceCounts, OneMore
    <2>3. Cardinality(Tracked) + Cardinality(Coming) <= Allowed + Spare
      BY DEF RaceInv
    <2>4. QED
      BY <1>4, <2>2, <2>3, RaceCounts, RaceFacts
  <1>9. QED
    BY <1>1, <1>5, <1>6, <1>7, <1>8 DEF RaceInv

LEMMA RaceStep == RaceInv /\ [Race!Next]_raceVars => RaceInv'
  <1> SUFFICES ASSUME RaceInv, [Race!Next]_raceVars PROVE RaceInv'
    OBVIOUS
  <1>1. CASE UNCHANGED raceVars
    <2>1. place' = place /\ entry' = entry /\ overlapped' = overlapped
      BY <1>1 DEF raceVars
    <2>2. Tracked' = Tracked /\ Trash' = Trash /\ Coming' = Coming
      BY <2>1 DEF Tracked, Trash, Coming, Adds, Race!Tracked, Race!At
    <2>3. \A r \in Overlapping : Adds(r)' = Adds(r)
      BY <2>1 DEF Adds, Trash, Race!At
    <2>4. QED
      BY <2>1, <2>2, <2>3 DEF RaceInv, Alone, Race!UnderWay
  <1>2. ASSUME NEW r \in Overlapping, NEW i \in Ids,
               Race!GuardEntry(r, i) \/ Race!GuardNext(r, i)
        PROVE  RaceInv'
    BY <1>2, GuardKeeps
  <1>3. ASSUME NEW r \in Overlapping, NEW n \in 1 .. MaxBatch,
               NEW ids \in Race!kSubset(n, Race!Tracked \cup Race!At("trash")),
               Race!GuardRestore(r, ids)
        PROVE  RaceInv'
    BY <1>3, GuardRestoreKeeps
  <1>4. ASSUME NEW r \in Overlapping, Race!Enter(r) \/ Race!Restore(r) PROVE RaceInv'
    BY <1>4, CommitEntry
  <1>5. ASSUME NEW i \in Ids, Race!Archive(i) \/ Race!Delete(i) PROVE RaceInv'
    BY <1>5, MoveKeeps
  <1>6. QED
    BY <1>1, <1>2, <1>3, <1>4, <1>5 DEF Race!Next

RacePart == served = "ceiling" => RaceInv

LEMMA RacePartHolds == Spec => []RacePart
  <1>1. Init => RacePart
    BY RaceInit DEF Init, RacePart
  <1>2. RacePart /\ [Next]_vars => RacePart'
    BY RaceStep DEF Next, vars, RacePart
  <1>3. QED
    BY <1>1, <1>2, PTL DEF Spec

\* Requests that overlap (the guards of services/commitments/commitment_service.py
\* read before they write) take a population over the roof by no more than what
\* all but one of them may add.
THEOREM OvershootTheorem == Spec => []OvershootIsBounded
  <1>1. RaceInv => Race!OvershootIsBounded
    <2> SUFFICES ASSUME RaceInv
                 PROVE  Race!Cardinality(Race!Tracked) <=
                           Roof + (Race!Cardinality(Overlapping) - 1) * Most
      BY DEF Race!OvershootIsBounded, Race!Population, Roof, Most
    <2>1. Cardinality(Tracked) <= Roof + Spare
      BY RaceCounts, RaceFacts DEF RaceInv
    <2>2. QED
      BY <2>1, RaceFacts DEF Spare, Tracked
  <1>2. RacePart => OvershootIsBounded
    BY <1>1 DEF RacePart, OvershootIsBounded
  <1>3. QED
    BY <1>2, RacePartHolds, PTL

\* Where nothing is restored, as many populations under the ceiling may come
\* together as requests are served at once, each the batch that one of them brings
\* out of the archives (set_status_many), and no more.
THEOREM EntriesTheorem == Spec => [](served = "ceiling" => Race!EntriesOvershoot)
  <1>1. ASSUME RaceInv, MaxBatch = 0
        PROVE  Race!Cardinality(Race!Tracked) <= Race!Cardinality(Overlapping) * MaxPerType
    <2>1. Cardinality(Tracked) <= Allowed + Spare
      BY RaceCounts, RaceFacts, <1>1 DEF RaceInv
    <2>2. Allowed = MaxPerType /\ Most = MaxPerType
      BY <1>1, RaceFacts DEF Allowed, Most
    <2>3. PICK n \in Nat : Cardinality(Overlapping) = n + 1
      BY RaceFacts
    <2>4. Spare = n * MaxPerType
      BY <2>2, <2>3, RaceFacts DEF Spare
    <2>5. Cardinality(Overlapping) * MaxPerType = n * MaxPerType + MaxPerType
      BY <2>3, RaceFacts
    <2>6. QED
      BY <2>1, <2>2, <2>4, <2>5, RaceFacts DEF Tracked
  <1>2. RacePart => (served = "ceiling" => Race!EntriesOvershoot)
    BY <1>1 DEF RacePart, Race!EntriesOvershoot, Race!Population
  <1>3. QED
    BY <1>2, RacePartHolds, PTL

\* A request that no other one overlaps keeps to the ceiling, or to the roof when
\* it restores (_guard_entry and _guard_restore of
\* services/commitments/commitment_service.py).
THEOREM OnlyOverlapTheorem == Spec => OnlyOverlapExceeds
  <1>1. ASSUME RacePart, [Next]_vars, served = "ceiling"
        PROVE  Race!AloneKeepsToItsLimit
    <2> SUFFICES ASSUME NEW r \in Overlapping \ overlapped,
                        Race!Enter(r) \/ Race!Restore(r)
                 PROVE  LET m == Race!Cardinality(Race!Tracked)
                            n == Race!Cardinality(Race!Tracked')
                        IN  n > m => /\ Race!Enter(r) => n <= MaxPerType
                                     /\ Race!Restore(r) => n <= Roof
      BY DEF Race!AloneKeepsToItsLimit, Race!KeepsToItsLimit, Race!Population, Roof
    <2>1. RaceInv
      BY <1>1 DEF RacePart
    <2>2. /\ Tracked' = Tracked \cup Adds(r)
          /\ entry[r].kind = "entry" <=> Race!Enter(r)
          /\ r \in Race!UnderWay
      BY <2>1, CommitEntry
    <2>3. Alone(r) /\ ErrandIsSound(entry[r])
      BY <2>1 DEF RaceInv
    <2>4. CASE Race!Enter(r)
      <3> DEFINE D == Adds(r)
      <3>1. ~Race!Restore(r) /\ Cardinality(Tracked) + Cardinality(D) <= MaxPerType
        BY <2>2, <2>3, <2>4 DEF Race!Restore, Alone
      <3>2. IsFiniteSet(D) /\ Cardinality(D) \in Nat
        <4>1. D \subseteq Ids
          BY <2>1 DEF Adds, RaceInv, Errand
        <4>2. QED
          BY <4>1, RaceFacts, FS_Subset, FS_CardinalityType
      <3>3. Tracked' = Tracked \cup D
        BY <2>2
      <3> HIDE DEF D
      <3>4. /\ Cardinality(Tracked \cup D) =
                  Cardinality(Tracked) + Cardinality(D) - Cardinality(Tracked \cap D)
            /\ Cardinality(Tracked \cap D) \in Nat
        BY <3>2, RaceCounts, FS_Union, FS_Intersection, FS_CardinalityType
      <3>5. Cardinality(Tracked') <= MaxPerType
        BY <3>1, <3>2, <3>3, <3>4, RaceCounts, RaceFacts
      <3>6. QED
        BY <3>1, <3>5, RaceFacts DEF Tracked
    <2>5. CASE Race!Restore(r)
      <3>1. entry[r].kind = "restoration"
        BY <2>5 DEF Race!Restore
      <3> DEFINE D == entry[r].ids \cap Trash
      <3>2. Tracked' = Tracked \cup D
        BY <2>2, <3>1 DEF Adds
      <3>3. CASE D = {}
        <4>1. Tracked' = Tracked
          BY <3>2, <3>3
        <4>2. Cardinality(Tracked) \in Nat
          BY RaceCounts
        <4>3. QED
          BY <4>1, <4>2, RaceFacts DEF Tracked
      <3>4. CASE D # {}
        <4>1. Cardinality(Tracked) + Cardinality(D) <= Roof
          BY <2>3, <3>1, <3>4 DEF Alone
        <4>2. IsFiniteSet(D) /\ Cardinality(D) \in Nat
          BY RaceCounts, FS_Intersection, FS_CardinalityType
        <4>3. /\ Cardinality(Tracked \cup D) =
                    Cardinality(Tracked) + Cardinality(D) - Cardinality(Tracked \cap D)
              /\ Cardinality(Tracked \cap D) \in Nat
          BY <4>2, RaceCounts, FS_Union, FS_Intersection, FS_CardinalityType
        <4> HIDE DEF D
        <4>4. Cardinality(Tracked') <= Roof
          BY <3>2, <4>1, <4>2, <4>3, RaceCounts, RaceFacts
        <4>5. ~Race!Enter(r)
          BY <2>2, <3>1
        <4>6. QED
          BY <4>4, <4>5, RaceFacts DEF Tracked
      <3>5. QED
        BY <3>3, <3>4
    <2>6. QED
      BY <2>4, <2>5
  <1>2. RacePart /\ [Next]_vars => (served = "ceiling" => Race!AloneKeepsToItsLimit)
    BY <1>1
  <1>3. QED
    BY <1>2, RacePartHolds, PTL DEF Spec, OnlyOverlapExceeds

\* Nothing fills a population but the write of a request.
LEMMA OnlyRequestsFill ==
    ASSUME RaceInv, [Race!Next]_raceVars, Cardinality(Tracked') > Cardinality(Tracked)
    PROVE  \E r \in Overlapping :
              \/ Race!Enter(r)
              \/ Race!Restore(r) /\ MaxBatch # 0
  <1>1. Tracked' # Tracked
    BY RaceCounts
  <1>2. ASSUME place' = place
        PROVE  Tracked' = Tracked
    BY <1>2 DEF Tracked, Race!Tracked, Race!At
  <1>3. ~UNCHANGED raceVars
    BY <1>1, <1>2 DEF raceVars
  <1>4. ASSUME NEW r \in Overlapping, NEW i \in Ids,
               Race!GuardEntry(r, i) \/ Race!GuardNext(r, i)
        PROVE  FALSE
    BY <1>1, <1>2, <1>4 DEF Race!GuardEntry, Race!GuardNext
  <1>5. ASSUME NEW r \in Overlapping, NEW ids, Race!GuardRestore(r, ids)
        PROVE  FALSE
    BY <1>1, <1>2, <1>5 DEF Race!GuardRestore
  <1>6. ASSUME NEW i \in Ids, Race!Archive(i) \/ Race!Delete(i)
        PROVE  FALSE
    <2>1. Tracked' \subseteq Tracked
      BY <1>6 DEF Race!Archive, Race!Delete, Race!Move, Tracked, Race!Tracked, Race!At, RaceInv
    <2>2. QED
      BY <2>1, RaceCounts, FS_Subset
  <1>7. ASSUME NEW r \in Overlapping, Race!Restore(r), MaxBatch = 0
        PROVE  FALSE
    <2>1. /\ entry[r].kind = "restoration" /\ entry[r] \in Errand
          /\ ErrandIsSound(entry[r])
      BY <1>7 DEF Race!Restore, RaceInv
    <2>2. entry[r].ids \subseteq Ids /\ Cardinality(entry[r].ids) <= 0
      BY <1>7, <2>1 DEF ErrandIsSound, Errand, Race!Nothing
    <2>3. entry[r].ids = {}
      BY <2>2, RaceFacts, FS_Subset, FS_CardinalityType, FS_EmptySet
    <2>4. Tracked' = Tracked
      BY <1>7, <2>1, <2>3, CommitEntry DEF Adds
    <2>5. QED
      BY <1>1, <2>4
  <1>8. QED
    BY <1>3, <1>4, <1>5, <1>6, <1>7 DEF Race!Next

\* While no request is under way when another one fills the population or the
\* trash, the README's sentence holds: the ceiling, and the roof to restore.
THEOREM ApartTheorem ==
    Spec /\ [](served = "ceiling" => Race!Apart)
        => [](served = "ceiling" => Race!LimitHolds)
  <1> DEFINE Within == served = "ceiling" => Cardinality(Tracked) <= Allowed
  <1>1. Init => Within
    <2>1. ASSUME Race!Init PROVE Cardinality(Tracked) <= Allowed
      <3>1. Tracked = {}
        BY <2>1 DEF Race!Init, Tracked, Race!Tracked, Race!At
      <3>2. QED
        BY <3>1, FS_EmptySet, RaceFacts
    <2>2. QED
      BY <2>1 DEF Init
  <1>2. /\ RacePart /\ (served = "ceiling" => Race!Apart)
        /\ [served = "ceiling" => Race!AloneKeepsToItsLimit]_vars
        /\ Within /\ [Next]_vars
        => Within'
    <2> SUFFICES ASSUME RaceInv, Race!Apart, served = "ceiling",
                        Race!AloneKeepsToItsLimit \/ UNCHANGED raceVars,
                        Cardinality(Tracked) <= Allowed, [Race!Next]_raceVars
                 PROVE  Cardinality(Tracked') <= Allowed
      BY DEF RacePart, Next, vars
    <2>1. CASE Cardinality(Tracked') > Cardinality(Tracked)
      <3>1. PICK r \in Overlapping :
               Race!Enter(r) \/ (Race!Restore(r) /\ MaxBatch # 0)
        BY <2>1, OnlyRequestsFill
      <3>2. Tracked' # Tracked
        BY <2>1, RaceCounts
      <3>3. ~UNCHANGED raceVars
        BY <3>2 DEF raceVars, Tracked, Race!Tracked, Race!At
      <3>4. Race!KeepsToItsLimit(r)
        BY <3>3 DEF Race!Apart, Race!AloneKeepsToItsLimit
      <3>5. \/ Cardinality(Tracked') <= MaxPerType
            \/ Cardinality(Tracked') <= Roof /\ MaxBatch # 0
        BY <2>1, <3>1, <3>4, RaceFacts DEF Race!KeepsToItsLimit, Race!Population, Tracked, Roof
      <3>6. QED
        BY <3>5, RaceCounts, RaceFacts DEF Allowed
    <2>2. CASE ~(Cardinality(Tracked') > Cardinality(Tracked))
      BY <2>2, RaceCounts, RaceFacts
    <2>3. QED
      BY <2>1, <2>2
  <1>3. Within => (served = "ceiling" => Race!LimitHolds)
    BY RaceFacts DEF Race!LimitHolds, Race!Population, Tracked, Allowed, Roof
  <1>4. QED
    BY <1>1, <1>2, <1>3, RacePartHolds, OnlyOverlapTheorem, PTL DEF Spec, OnlyOverlapExceeds

-----------------------------------------------------------------------------
(* Devices that change hands.                                              *)

Calls == [step : {"new", "asked", "upserted", "pruning", "testing", "done"},
          owner : Owners \cup {None}, endpoint : Endpoints \cup {None},
          at : Nat, pruned : SUBSET (Endpoints \X Pushes!Rows), unseen : Nat]

Subscribing(r) == call[r].step \in {"asked", "upserted", "pruning"}

CallsAreSound ==
    \A r \in Requests :
        /\ Subscribing(r) => /\ call[r].owner \in Owners /\ call[r].endpoint \in Endpoints
                             /\ call[r].at < tick
        /\ call[r].step = "testing" => call[r].endpoint \in Endpoints

\* No two subscriptions came at one time.
TimesDiffer ==
    /\ \A e \in Endpoints : rows[e] # None => rows[e].seen < tick
    /\ \A u \in Owners, e \in Endpoints, t \in Nat : <<u, e, t>> \in arrivals => t < tick
    /\ \A e, f \in Endpoints :
          e # f /\ rows[e] # None /\ rows[f] # None /\ rows[e].owner = rows[f].owner
              => rows[e].seen # rows[f].seen
    /\ \A r \in Requests : Subscribing(r) =>
          /\ \A e \in Endpoints : rows[e] # None => rows[e].seen # call[r].at
          /\ \A s \in Requests \ {r} : Subscribing(s) => call[s].at # call[r].at

WritersHold ==
    /\ \A r \in Requests : call[r].step \in {"upserted", "pruning"} =>
           locked[call[r].endpoint] = r
    /\ \A e \in job.forgotten : locked[e] = Job

BatchHasOwner == job.step = "posting" => job.owner \in Owners

\* A row is the subscription that was wanted last.
RowsAreWanted ==
    \A e \in Endpoints : rows[e] # None =>
        /\ wanted[e] = [owner |-> rows[e].owner, at |-> rows[e].seen]
        /\ <<rows[e].owner, e, rows[e].seen>> \in arrivals

\* Devices of an account that subscribed after that time.
CameAfter(came, u, e, t) ==
    {f \in Endpoints \ {e} : \E x \in Nat : x > t /\ <<u, f, x>> \in came}

\* The same, with the subscription that is under way.
ComeAfter(r, p) ==
    {f \in Endpoints \ {p[1]} : \E x \in Nat :
        /\ x > p[2].seen
        /\ <<call[r].owner, f, x>> \in arrivals \/ (f = call[r].endpoint /\ x = call[r].at)}

\* The account's devices that a prune will spare.
Spared(r) ==
    {e \in Pushes!OwnedIn(Pushes!Seen(r), call[r].owner) :
        \A p \in call[r].pruned : p[1] = e => p[2].id # Pushes!Seen(r)[e].id}

\* What is to be pruned has as many devices after it as the limit; what is not is
\* within the limit, unless the account subscribed others meanwhile.
PruneIsRight(r) ==
    /\ \A p \in call[r].pruned : /\ p[2].owner = call[r].owner
                                 /\ Cardinality(ComeAfter(r, p)) >= Limit
    /\ call[r].unseen = 0 => Cardinality(Spared(r)) <= Limit

PrunesAreRight == \A r \in Requests : call[r].step = "pruning" => PruneIsRight(r)

WithinLimit == \A u \in Owners : Cardinality(Pushes!OwnedIn(rows, u)) <= Limit + slack[u]

LastOnesStay ==
    \A e \in Endpoints :
        \/ wanted[e] = None
        \/ rows[e] # None /\ rows[e].owner = wanted[e].owner
        \/ Cardinality(CameAfter(arrivals, wanted[e].owner, e, wanted[e].at)) >= Limit
        \/ e \in crossed

TableIsRight == RowsAreWanted /\ PrunesAreRight /\ WithinLimit /\ LastOnesStay

DevicesInv ==
    /\ Pushes!TypeOK
    /\ CallsAreSound /\ TimesDiffer /\ WritersHold /\ BatchHasOwner
    /\ TableIsRight

LEMMA DevicesFacts ==
    /\ \A S : Pushes!Cardinality(S) = Cardinality(S)
    /\ \A S : S \subseteq Endpoints => IsFiniteSet(S) /\ Cardinality(S) \in Nat
    /\ \A S, T : S \subseteq T /\ T \subseteq Endpoints => Cardinality(S) <= Cardinality(T)
    /\ Limit \in Nat /\ 1 <= Limit
    /\ Requests \cap Endpoints = {}
    /\ Job \notin Requests /\ Job # None /\ None \notin Requests /\ None \notin Owners
    /\ None \notin Pushes!Rows
  <1>1. \A S : Pushes!IsFiniteSet(S) = IsFiniteSet(S)
    BY DEF Pushes!IsFiniteSet, IsFiniteSet
  <1>2. \A S : Pushes!Cardinality(S) = Cardinality(S)
    BY DEF Pushes!Cardinality, Cardinality
  <1>3. IsFiniteSet(Endpoints)
    BY <1>1, ServicesAssumption DEF Pushes!DevicesConstants
  <1>4. \A S : S \subseteq Endpoints => IsFiniteSet(S) /\ Cardinality(S) \in Nat
    BY <1>3, FS_Subset, FS_CardinalityType
  <1>5. \A S, T : S \subseteq T /\ T \subseteq Endpoints => Cardinality(S) <= Cardinality(T)
    BY <1>4, FS_Subset
  <1>6. QED
    BY <1>2, <1>4, <1>5, ServicesAssumption DEF Pushes!DevicesConstants, Pushes!Rows

\* The rank of a row among those of its account tells it from the others.
LEMMA KeptFew ==
    ASSUME NEW table \in [Endpoints -> Pushes!Rows \cup {None}], NEW u \in Owners,
           \A e, f \in Endpoints :
              e # f /\ table[e] # None /\ table[f] # None /\ table[e].owner = table[f].owner
                  => table[e].seen # table[f].seen
    PROVE  Cardinality(Pushes!Kept(table, u)) <= Limit
  <1> DEFINE K == Pushes!Kept(table, u)
             After(e) == {f \in Endpoints : /\ table[f] # None /\ table[f].owner = u
                                            /\ table[f].seen > table[e].seen}
             rank == [e \in K |-> Cardinality(After(e))]
  <1>1. \A e \in K : /\ e \in Endpoints /\ table[e] # None /\ table[e].owner = u
                     /\ table[e].seen \in Nat /\ Cardinality(After(e)) < Limit
    <2> TAKE e \in K
    <2>1. e \in Endpoints /\ table[e] # None /\ table[e].owner = u
      BY DEF Pushes!Kept, Pushes!OwnedIn
    <2>2. Pushes!SeenAfter(table, e) = After(e)
      BY <2>1 DEF Pushes!SeenAfter, Pushes!OwnedIn
    <2>3. Cardinality(Pushes!SeenAfter(table, e)) < Limit
      BY DevicesFacts DEF Pushes!Kept
    <2>4. table[e].seen \in Nat
      BY <2>1 DEF Pushes!Rows
    <2>5. QED
      BY <2>1, <2>2, <2>3, <2>4
  <1>2. \A e \in K : After(e) \subseteq Endpoints
    OBVIOUS
  <1>3. rank \in [K -> 0 .. Limit - 1]
    <2>1. \A e \in K : Cardinality(After(e)) \in Nat
      BY <1>2, DevicesFacts
    <2> HIDE DEF K, After
    <2>2. \A e \in K : Cardinality(After(e)) \in 0 .. Limit - 1
      BY <1>1, <2>1, DevicesFacts
    <2>3. QED
      BY <2>2
  <1>4. ASSUME NEW e \in K, NEW f \in K, table[e].seen > table[f].seen
        PROVE  Cardinality(After(e)) < Cardinality(After(f))
    <2>1. /\ After(e) \subseteq After(f) /\ e \in After(f) /\ e \notin After(e)
      <3>1. /\ table[e].seen \in Nat /\ table[f].seen \in Nat
            /\ e \in Endpoints /\ table[e] # None /\ table[e].owner = u
        BY <1>1
      <3>2. \A x \in Endpoints : table[x] # None => table[x].seen \in Nat
        BY DEF Pushes!Rows
      <3>3. e \in After(f) /\ e \notin After(e)
        BY <1>4, <3>1
      <3>4. After(e) \subseteq After(f)
        BY <1>4, <3>1, <3>2
      <3>5. QED
        BY <3>3, <3>4
    <2>2. IsFiniteSet(After(f)) /\ IsFiniteSet(After(e))
      BY <1>2, DevicesFacts
    <2> HIDE DEF After
    <2>3. Cardinality(After(e)) <= Cardinality(After(f)) /\ Cardinality(After(e)) # Cardinality(After(f))
      BY <2>1, <2>2, FS_Subset
    <2>4. Cardinality(After(e)) \in Nat /\ Cardinality(After(f)) \in Nat
      BY <2>2, FS_CardinalityType
    <2>5. QED
      BY <2>3, <2>4
  <1>5. \A e, f \in K : rank[e] = rank[f] => e = f
    <2> SUFFICES ASSUME NEW e \in K, NEW f \in K, rank[e] = rank[f], e # f PROVE FALSE
      OBVIOUS
    <2>1. Cardinality(After(e)) = Cardinality(After(f))
      OBVIOUS
    <2>2. Cardinality(After(e)) \in Nat
      BY <1>2, DevicesFacts
    <2> HIDE DEF After, rank
    <2>3. ~(table[e].seen > table[f].seen) /\ ~(table[f].seen > table[e].seen)
      BY <1>4, <2>1, <2>2
    <2>4. table[e].seen # table[f].seen
      BY <1>1
    <2>5. QED
      BY <1>1, <2>3, <2>4
  <1>6. IsFiniteSet(K)
    BY <1>1, DevicesFacts
  <1> DEFINE N == 0 .. Limit - 1
  <1>7. IsFiniteSet(N) /\ Cardinality(N) = Limit /\ rank \in [K -> N]
    <2>1. IsFiniteSet(N) /\ Cardinality(N) = Limit
      BY FS_Interval, DevicesFacts
    <2>2. QED
      BY <1>3, <2>1
  <1> HIDE DEF rank, K, N
  <1>8. ~(Cardinality(N) < Cardinality(K))
    BY <1>5, <1>6, <1>7, FS_PigeonHole
  <1>9. Cardinality(K) \in Nat
    BY <1>6, FS_CardinalityType
  <1>10. QED
    BY <1>7, <1>8, <1>9, DevicesFacts DEF K

LEMMA SeenIsTyped ==
    ASSUME Pushes!TypeOK, NEW r \in Requests,
           call[r].owner \in Owners, call[r].endpoint \in Endpoints
    PROVE  /\ Pushes!Row(r) \in Pushes!Rows
           /\ Pushes!Row(r).owner = call[r].owner /\ Pushes!Row(r).seen = call[r].at
           /\ Pushes!Seen(r) \in [Endpoints -> Pushes!Rows \cup {None}]
           /\ Pushes!Seen(r)[call[r].endpoint] = Pushes!Row(r)
           /\ \A e \in Endpoints \ {call[r].endpoint} : Pushes!Seen(r)[e] = rows[e]
  <1>1. call[r].at \in Nat
    BY DEF Pushes!TypeOK
  <1>2. rows[call[r].endpoint] # None => rows[call[r].endpoint].id \in Requests \cup Endpoints
    BY DEF Pushes!TypeOK, Pushes!Rows
  <1>3. /\ Pushes!Row(r) \in Pushes!Rows
        /\ Pushes!Row(r).owner = call[r].owner /\ Pushes!Row(r).seen = call[r].at
    BY <1>1, <1>2 DEF Pushes!Row, Pushes!Rows
  <1>4. QED
    BY <1>3 DEF Pushes!Seen, Pushes!TypeOK

LEMMA LaterIsAfter ==
    ASSUME Pushes!TypeOK, TimesDiffer, NEW e \in Endpoints, wanted[e] # None
    PROVE  Pushes!Later(e) = CameAfter(arrivals, wanted[e].owner, e, wanted[e].at)
  <1>1. /\ wanted[e].owner \in Owners /\ wanted[e].at \in Nat /\ tick \in Nat
    BY DEF Pushes!TypeOK
  <1>2. ASSUME NEW f \in Endpoints
        PROVE  (\E t \in wanted[e].at + 1 .. tick : <<wanted[e].owner, f, t>> \in arrivals)
                  <=> (\E x \in Nat : x > wanted[e].at /\ <<wanted[e].owner, f, x>> \in arrivals)
    <2>1. ASSUME NEW x \in Nat, x > wanted[e].at, <<wanted[e].owner, f, x>> \in arrivals
          PROVE  x \in wanted[e].at + 1 .. tick
      <3>1. x < tick
        BY <1>1, <2>1 DEF TimesDiffer
      <3>2. QED
        BY <1>1, <2>1, <3>1
    <2>2. ASSUME NEW x \in wanted[e].at + 1 .. tick
          PROVE  x \in Nat /\ x > wanted[e].at
      BY <1>1
    <2>3. QED
      BY <2>1, <2>2
  <1>3. QED
    BY <1>2 DEF Pushes!Later, CameAfter

LEMMA DevicesInit == Pushes!Init => DevicesInv
  <1> SUFFICES ASSUME Pushes!Init PROVE DevicesInv
    OBVIOUS
  <1> DEFINE E == Pushes!Earlier
  <1>1. E \subseteq Pushes!Rows /\ \A w \in E : w.seen \in Nat /\ w.seen < Limit /\ w.owner \in Owners
    BY DevicesFacts DEF Pushes!Earlier, Pushes!Rows
  <1>2. \A e \in Endpoints : rows[e] \in E /\ rows[e] # None
    BY <1>1, DevicesFacts DEF Pushes!Init
  <1>3. rows \in [Endpoints -> Pushes!Rows \cup {None}]
    <2>1. rows \in [Endpoints -> E]
      BY DEF Pushes!Init
    <2>2. QED
      BY <1>1, <2>1
  <1> HIDE DEF E
  <1>4. arrivals \subseteq Owners \X Endpoints \X Nat
    BY <1>1, <1>2 DEF Pushes!Init
  <1>5. wanted \in [Endpoints -> [owner : Owners, at : Nat] \cup {None}]
    BY <1>1, <1>2 DEF Pushes!Init
  <1>6. call \in [Requests -> Calls]
    BY DEF Pushes!Init, Pushes!New, Calls
  <1>7. job \in [step : {"idle", "posting"}, owner : Owners \cup {None},
                 left : SUBSET Endpoints, forgotten : SUBSET Endpoints]
    BY DEF Pushes!Init, Pushes!NoBatch
  <1>8. Pushes!TypeOK
    BY <1>3, <1>4, <1>5, <1>6, <1>7, DevicesFacts DEF Pushes!Init, Pushes!TypeOK, Calls
  <1>9. \A r \in Requests : call[r].step = "new"
    BY DEF Pushes!Init, Pushes!New
  <1>10. CallsAreSound /\ WritersHold /\ PrunesAreRight /\ BatchHasOwner
    BY <1>9 DEF Pushes!Init, Pushes!NoBatch, CallsAreSound, Subscribing, WritersHold,
                PrunesAreRight, BatchHasOwner
  <1>11. TimesDiffer
    <2>1. \A e \in Endpoints : rows[e].seen < tick
      BY <1>1, <1>2 DEF Pushes!Init
    <2>2. \A u \in Owners, e \in Endpoints, t \in Nat : <<u, e, t>> \in arrivals => t < tick
      BY <2>1 DEF Pushes!Init
    <2>3. \A e, f \in Endpoints : e # f /\ rows[e].owner = rows[f].owner
                                      => rows[e].seen # rows[f].seen
      BY DEF Pushes!Init
    <2>4. QED
      BY <1>9, <2>1, <2>2, <2>3 DEF TimesDiffer, Subscribing
  <1>12. RowsAreWanted /\ LastOnesStay
    BY <1>2 DEF Pushes!Init, RowsAreWanted, LastOnesStay
  <1>13. WithinLimit
    <2>1. \A u \in Owners : Cardinality(Pushes!OwnedIn(rows, u)) <= Limit
      BY DevicesFacts DEF Pushes!Init
    <2>2. \A u \in Owners : Pushes!OwnedIn(rows, u) \subseteq Endpoints
      BY DEF Pushes!OwnedIn
    <2>3. \A u \in Owners : slack[u] = 0
      BY DEF Pushes!Init
    <2>4. \A u \in Owners : Cardinality(Pushes!OwnedIn(rows, u)) \in Nat
      BY <2>2, DevicesFacts
    <2>5. QED
      BY <2>1, <2>3, <2>4, DevicesFacts DEF WithinLimit
  <1>14. QED
    BY <1>8, <1>10, <1>11, <1>12, <1>13 DEF DevicesInv, TableIsRight

\* What every step but a subscription's commit does to the table: rows go, with
\* nobody to want them, and no row that a transaction holds.
LEMMA TableStands ==
    ASSUME DevicesInv, rows' \in [Endpoints -> Pushes!Rows \cup {None}],
           UNCHANGED <<arrivals, crossed, slack>>,
           \A e \in Endpoints : \/ rows'[e] = rows[e] /\ wanted'[e] = wanted[e]
                                \/ rows'[e] = None /\ wanted'[e] = None,
           \A r \in Requests : call'[r].step = "pruning" =>
               \/ PruneIsRight(r)'
               \/ /\ call'[r] = call[r]
                  /\ rows'[call[r].endpoint] = rows[call[r].endpoint]
    PROVE  TableIsRight'
  <1>1. RowsAreWanted'
    BY DEF RowsAreWanted, DevicesInv, TableIsRight
  <1>2. \A u : Pushes!OwnedIn(rows, u)' \subseteq Pushes!OwnedIn(rows, u)
    BY DEF Pushes!OwnedIn
  <1>3. \A u : Pushes!OwnedIn(rows, u) \subseteq Endpoints
    BY DEF Pushes!OwnedIn
  <1>4. WithinLimit'
    <2> SUFFICES ASSUME NEW u \in Owners
                 PROVE  Cardinality(Pushes!OwnedIn(rows, u))' <= Limit + slack'[u]
      BY DEF WithinLimit
    <2>1. Cardinality(Pushes!OwnedIn(rows, u)) <= Limit + slack[u] /\ slack[u] \in Nat
      BY DEF DevicesInv, TableIsRight, WithinLimit, Pushes!TypeOK
    <2>2. /\ Cardinality(Pushes!OwnedIn(rows, u)') <= Cardinality(Pushes!OwnedIn(rows, u))
          /\ Cardinality(Pushes!OwnedIn(rows, u)) \in Nat
          /\ Cardinality(Pushes!OwnedIn(rows, u)') \in Nat
      BY <1>2, <1>3, DevicesFacts
    <2>3. QED
      BY <2>1, <2>2, DevicesFacts
  <1>5. LastOnesStay'
    <2> SUFFICES ASSUME NEW e \in Endpoints
                 PROVE  \/ wanted'[e] = None
                        \/ rows'[e] # None /\ rows'[e].owner = wanted'[e].owner
                        \/ Cardinality(CameAfter(arrivals, wanted[e].owner, e, wanted[e].at))' >= Limit
                        \/ e \in crossed'
      BY DEF LastOnesStay
    <2>1. CASE rows'[e] = rows[e] /\ wanted'[e] = wanted[e]
      <3>1. CameAfter(arrivals, wanted[e].owner, e, wanted[e].at)'
                = CameAfter(arrivals, wanted[e].owner, e, wanted[e].at)
        BY <2>1 DEF CameAfter
      <3>2. QED
        BY <2>1, <3>1 DEF DevicesInv, TableIsRight, LastOnesStay
    <2>2. QED
      BY <2>1
  <1>6. PrunesAreRight'
    <2> SUFFICES ASSUME NEW r \in Requests, call'[r].step = "pruning", call'[r] = call[r],
                        rows'[call[r].endpoint] = rows[call[r].endpoint]
                 PROVE  PruneIsRight(r)'
      BY DEF PrunesAreRight
    <2>1. PruneIsRight(r)
      BY DEF DevicesInv, TableIsRight, PrunesAreRight
    <2>2. \A p : ComeAfter(r, p)' = ComeAfter(r, p)
      BY DEF ComeAfter
    <2>3. Pushes!Row(r)' = Pushes!Row(r)
      BY DEF Pushes!Row
    <2>4. \A e \in Endpoints : Pushes!Seen(r)'[e] = Pushes!Seen(r)[e] \/ Pushes!Seen(r)'[e] = None
      <3>1. rows \in [Endpoints -> Pushes!Rows \cup {None}]
        BY DEF DevicesInv, Pushes!TypeOK
      <3>2. QED
        BY <2>3, <3>1 DEF Pushes!Seen
    <2>5. Spared(r)' \subseteq Spared(r)
      BY <2>4 DEF Spared, Pushes!OwnedIn
    <2>6. Spared(r) \subseteq Endpoints
      BY DEF Spared, Pushes!OwnedIn
    <2>7. Cardinality(Spared(r)') <= Cardinality(Spared(r)) /\ Cardinality(Spared(r)) \in Nat
          /\ Cardinality(Spared(r)') \in Nat
      BY <2>5, <2>6, DevicesFacts
    <2>8. QED
      BY <2>1, <2>2, <2>7, DevicesFacts DEF PruneIsRight
  <1>7. QED
    BY <1>1, <1>4, <1>5, <1>6 DEF TableIsRight

Batches == [step : {"idle", "posting"}, owner : Owners \cup {None},
            left : SUBSET Endpoints, forgotten : SUBSET Endpoints]

Others(r) == \A s \in Requests \ {r} : call'[s] = call[s]

\* A call that begins, or that ends.
LEMMA Calling ==
    ASSUME Pushes!TypeOK, NEW r \in Requests, NEW u \in Owners, NEW e \in Endpoints,
           Pushes!Subscribe(r, u, e)
    PROVE  /\ call' \in [Requests -> Calls] /\ Others(r)
           /\ call'[r].step = "asked" /\ call'[r].owner = u /\ call'[r].endpoint = e
           /\ call'[r].at = tick
  <1>1. Pushes!New \in Calls /\ tick \in Nat
    BY DEF Pushes!New, Calls, Pushes!TypeOK
  <1> DEFINE q == [Pushes!New EXCEPT !.step = "asked", !.owner = u, !.endpoint = e, !.at = tick]
  <1>2. q \in Calls /\ q.step = "asked" /\ q.owner = u /\ q.endpoint = e /\ q.at = tick
    BY <1>1 DEF Calls
  <1>3. call' = [call EXCEPT ![r] = q] /\ call \in [Requests -> Calls]
    BY DEF Pushes!Subscribe, Pushes!TypeOK, Calls
  <1> HIDE DEF q
  <1>4. QED
    BY <1>2, <1>3 DEF Others

LEMMA Testing ==
    ASSUME Pushes!TypeOK, NEW r \in Requests, NEW u \in Owners, NEW e \in Endpoints,
           Pushes!Test(r, u, e)
    PROVE  /\ call' \in [Requests -> Calls] /\ Others(r)
           /\ call'[r].step = "testing" /\ call'[r].endpoint = e
  <1>1. Pushes!New \in Calls
    BY DEF Pushes!New, Calls
  <1> DEFINE q == [Pushes!New EXCEPT !.step = "testing", !.owner = u, !.endpoint = e]
  <1>2. q \in Calls /\ q.step = "testing" /\ q.endpoint = e
    BY <1>1 DEF Calls
  <1>3. call' = [call EXCEPT ![r] = q] /\ call \in [Requests -> Calls]
    BY DEF Pushes!Test, Pushes!TypeOK, Calls
  <1> HIDE DEF q
  <1>4. QED
    BY <1>2, <1>3 DEF Others

LEMMA DoneEnds ==
    ASSUME Pushes!TypeOK, NEW r \in Requests, Pushes!Done(r)
    PROVE  /\ call' \in [Requests -> Calls] /\ Others(r)
           /\ call'[r].step = "done"
  <1>1. Pushes!New \in Calls
    BY DEF Pushes!New, Calls
  <1> DEFINE q == [Pushes!New EXCEPT !.step = "done"]
  <1>2. q \in Calls /\ q.step = "done"
    BY <1>1 DEF Calls
  <1>3. call' = [call EXCEPT ![r] = q] /\ call \in [Requests -> Calls]
    BY DEF Pushes!Done, Pushes!TypeOK, Calls
  <1> HIDE DEF q
  <1>4. QED
    BY <1>2, <1>3 DEF Others

\* One that goes on.
LEMMA Writing ==
    ASSUME Pushes!TypeOK, NEW r \in Requests, call' = [call EXCEPT ![r].step = "upserted"]
    PROVE  /\ call' \in [Requests -> Calls] /\ Others(r)
           /\ call'[r].step = "upserted" /\ call'[r].owner = call[r].owner
           /\ call'[r].endpoint = call[r].endpoint /\ call'[r].at = call[r].at
  BY DEF Pushes!TypeOK, Calls, Others

LEMMA Choosing ==
    ASSUME Pushes!TypeOK, NEW r \in Requests, NEW x \in SUBSET (Endpoints \X Pushes!Rows),
           call' = [call EXCEPT ![r].step = "pruning", ![r].pruned = x]
    PROVE  /\ call' \in [Requests -> Calls] /\ Others(r)
           /\ call'[r].step = "pruning" /\ call'[r].owner = call[r].owner
           /\ call'[r].endpoint = call[r].endpoint /\ call'[r].at = call[r].at
           /\ call'[r].pruned = x
  <1>1. call \in [Requests -> Calls]
    BY DEF Pushes!TypeOK, Calls
  <1> DEFINE first == [call EXCEPT ![r].step = "pruning"]
  <1>2. /\ first \in [Requests -> Calls] /\ \A s \in Requests \ {r} : first[s] = call[s]
        /\ first[r].step = "pruning" /\ first[r].owner = call[r].owner
        /\ first[r].endpoint = call[r].endpoint /\ first[r].at = call[r].at
    BY <1>1 DEF Calls
  <1> DEFINE q == [first[r] EXCEPT !.pruned = x]
  <1>3. call' = [first EXCEPT ![r] = q]
    BY <1>1
  <1> HIDE DEF first
  <1>4. /\ q \in Calls /\ q.pruned = x /\ q.step = first[r].step /\ q.owner = first[r].owner
        /\ q.endpoint = first[r].endpoint /\ q.at = first[r].at
    BY <1>2 DEF Calls
  <1> HIDE DEF q
  <1>5. QED
    BY <1>2, <1>3, <1>4 DEF Others

\* What every step but a subscription's beginning and commit does to the calls.
LEMMA CallsStand ==
    ASSUME DevicesInv, UNCHANGED <<tick, arrivals>>,
           \A e \in Endpoints : rows'[e] = rows[e] \/ rows'[e] = None,
           \A r \in Requests :
              \/ call'[r] = call[r]
              \/ /\ Subscribing(r)
                 /\ call'[r].step \in {"upserted", "pruning"}
                 /\ call'[r].owner = call[r].owner /\ call'[r].endpoint = call[r].endpoint
                 /\ call'[r].at = call[r].at
              \/ call'[r].step = "done"
              \/ call'[r].step = "testing" /\ call'[r].endpoint \in Endpoints
    PROVE  CallsAreSound' /\ TimesDiffer'
  <1>1. CallsAreSound'
    BY DEF DevicesInv, CallsAreSound, Subscribing
  <1>2. \A r \in Requests : Subscribing(r)' => Subscribing(r) /\ call'[r].at = call[r].at
    BY DEF Subscribing
  <1>3. TimesDiffer'
    BY <1>2 DEF DevicesInv, TimesDiffer
  <1>4. QED
    BY <1>1, <1>3

\* Who holds a row keeps it but by its own commit or its own rollback.
LEMMA HeldRowStays ==
    ASSUME DevicesInv, NEW r \in Requests, call[r].step \in {"upserted", "pruning"}
    PROVE  /\ call[r].endpoint \in Endpoints /\ locked[call[r].endpoint] = r
           /\ call[r].endpoint \notin job.forgotten
           /\ \A h : h # r => ~Pushes!Free(call[r].endpoint, h)
  BY DevicesFacts DEF DevicesInv, CallsAreSound, Subscribing, WritersHold, Pushes!Free

LEMMA UnsubscribeKeeps ==
    ASSUME DevicesInv, NEW r \in Requests, NEW u \in Owners, NEW e \in Endpoints,
           Pushes!Unsubscribe(r, u, e)
    PROVE  DevicesInv'
  <1>1. /\ call' \in [Requests -> Calls] /\ call'[r].step = "done"
        /\ \A s \in Requests \ {r} : call'[s] = call[s]
        /\ call[r].step = "new"
    BY DoneEnds DEF DevicesInv, Pushes!Unsubscribe, Pushes!Fresh, Others
  <1>2. /\ UNCHANGED <<tick, locked, job, dead, stamped, faults, arrivals, crossed, slack>>
        /\ \/ UNCHANGED <<rows, wanted>>
           \/ /\ Pushes!Free(e, r)
              /\ rows' = [rows EXCEPT ![e] = None] /\ wanted' = [wanted EXCEPT ![e] = None]
    BY DEF Pushes!Unsubscribe, Pushes!Withdraw
  <1>3. Pushes!TypeOK'
    BY <1>1, <1>2 DEF DevicesInv, Pushes!TypeOK, Calls
  <1>4. \A d \in Endpoints : \/ rows'[d] = rows[d] /\ wanted'[d] = wanted[d]
                             \/ rows'[d] = None /\ wanted'[d] = None
    BY <1>2 DEF DevicesInv, Pushes!TypeOK
  <1>5. CallsAreSound' /\ TimesDiffer'
    BY <1>1, <1>2, <1>4, CallsStand
  <1>6. WritersHold'
    BY <1>1, <1>2 DEF DevicesInv, WritersHold
  <1>7. TableIsRight'
    <2>1. \A s \in Requests : call'[s].step = "pruning" =>
              call'[s] = call[s] /\ rows'[call[s].endpoint] = rows[call[s].endpoint]
      <3> SUFFICES ASSUME NEW s \in Requests, call'[s].step = "pruning"
                   PROVE  call'[s] = call[s] /\ rows'[call[s].endpoint] = rows[call[s].endpoint]
        OBVIOUS
      <3>1. s # r /\ call'[s] = call[s] /\ call[s].step = "pruning"
        BY <1>1
      <3>2. call[s].endpoint \in Endpoints /\ ~Pushes!Free(call[s].endpoint, r)
        BY <3>1, HeldRowStays
      <3>3. QED
        BY <1>2, <3>1, <3>2 DEF DevicesInv, Pushes!TypeOK
    <2>2. rows' \in [Endpoints -> Pushes!Rows \cup {None}]
      BY <1>3 DEF Pushes!TypeOK
    <2>3. QED
      BY <1>2, <1>4, <2>1, <2>2, TableStands
  <1>8. QED
    BY <1>2, <1>3, <1>5, <1>6, <1>7 DEF DevicesInv, BatchHasOwner

LEMMA TestBegins ==
    ASSUME DevicesInv, NEW r \in Requests, NEW u \in Owners, NEW e \in Endpoints,
           Pushes!Test(r, u, e)
    PROVE  /\ call' \in [Requests -> Calls]
           /\ call'[r].step = "testing" /\ call'[r].endpoint \in Endpoints
           /\ \A s \in Requests \ {r} : call'[s] = call[s]
           /\ call[r].step = "new"
           /\ UNCHANGED <<tick, locked, job, dead, stamped, faults, arrivals, crossed, slack,
                          rows, wanted>>
  <1>1. UNCHANGED <<tick, locked, job, dead, stamped, faults, arrivals, crossed, slack,
                    rows, wanted>>
    BY DEF Pushes!Test, Pushes!histories
  <1>2. call[r].step = "new"
    BY DEF Pushes!Test, Pushes!Fresh
  <1>3. QED
    BY <1>1, <1>2, Testing DEF DevicesInv, Others

LEMMA TestKeeps ==
    ASSUME DevicesInv, NEW r \in Requests,
           \/ Pushes!TestFindsItGone(r) \/ Pushes!TestAnswered(r)
           \/ \E u \in Owners, e \in Endpoints : Pushes!Test(r, u, e)
    PROVE  DevicesInv'
  <1>1. /\ call' \in [Requests -> Calls]
        /\ \/ call'[r].step = "done"
           \/ call'[r].step = "testing" /\ call'[r].endpoint \in Endpoints
        /\ \A s \in Requests \ {r} : call'[s] = call[s]
        /\ call[r].step \in {"new", "testing"}
    <2>1. CASE Pushes!TestFindsItGone(r) \/ Pushes!TestAnswered(r)
      BY <2>1, DoneEnds DEF DevicesInv, Pushes!TestFindsItGone, Pushes!TestAnswered, Others
    <2>2. ASSUME NEW u \in Owners, NEW e \in Endpoints, Pushes!Test(r, u, e)
          PROVE  /\ call' \in [Requests -> Calls]
                 /\ call'[r].step = "testing" /\ call'[r].endpoint \in Endpoints
                 /\ \A s \in Requests \ {r} : call'[s] = call[s]
                 /\ call[r].step = "new"
      BY <2>2, TestBegins
    <2>3. QED
      BY <2>1, <2>2
  <1>2. /\ UNCHANGED <<tick, locked, job, dead, stamped, faults, arrivals, crossed, slack>>
        /\ \/ UNCHANGED <<rows, wanted>>
           \/ \E e \in Endpoints :
                 /\ Pushes!Free(e, r)
                 /\ rows' = [rows EXCEPT ![e] = None] /\ wanted' = [wanted EXCEPT ![e] = None]
    <2>1. CASE Pushes!TestFindsItGone(r)
      <3>1. call[r].endpoint \in Endpoints
        BY <2>1 DEF Pushes!TestFindsItGone, DevicesInv, CallsAreSound
      <3>2. QED
        BY <2>1, <3>1 DEF Pushes!TestFindsItGone, Pushes!Withdraw
    <2>2. CASE Pushes!TestAnswered(r)
      BY <2>2 DEF Pushes!TestAnswered, Pushes!histories
    <2>3. ASSUME NEW u \in Owners, NEW e \in Endpoints, Pushes!Test(r, u, e)
          PROVE  UNCHANGED <<tick, locked, job, dead, stamped, faults, arrivals, crossed, slack,
                             rows, wanted>>
      BY <2>3, TestBegins
    <2>4. QED
      BY <2>1, <2>2, <2>3
  <1>3. Pushes!TypeOK'
    BY <1>1, <1>2 DEF DevicesInv, Pushes!TypeOK, Calls
  <1>4. \A d \in Endpoints : \/ rows'[d] = rows[d] /\ wanted'[d] = wanted[d]
                             \/ rows'[d] = None /\ wanted'[d] = None
    BY <1>2 DEF DevicesInv, Pushes!TypeOK
  <1>5. CallsAreSound' /\ TimesDiffer'
    BY <1>1, <1>2, <1>4, CallsStand
  <1>6. WritersHold'
    BY <1>1, <1>2 DEF DevicesInv, WritersHold
  <1>7. TableIsRight'
    <2>1. \A s \in Requests : call'[s].step = "pruning" =>
              call'[s] = call[s] /\ rows'[call[s].endpoint] = rows[call[s].endpoint]
      <3> SUFFICES ASSUME NEW s \in Requests, call'[s].step = "pruning"
                   PROVE  call'[s] = call[s] /\ rows'[call[s].endpoint] = rows[call[s].endpoint]
        OBVIOUS
      <3>1. s # r /\ call'[s] = call[s] /\ call[s].step = "pruning"
        BY <1>1
      <3>2. call[s].endpoint \in Endpoints /\ ~Pushes!Free(call[s].endpoint, r)
        BY <3>1, HeldRowStays
      <3>3. QED
        BY <1>2, <3>1, <3>2 DEF DevicesInv, Pushes!TypeOK
    <2>2. rows' \in [Endpoints -> Pushes!Rows \cup {None}]
      BY <1>3 DEF Pushes!TypeOK
    <2>3. QED
      BY <1>2, <1>4, <2>1, <2>2, TableStands
  <1>8. QED
    BY <1>2, <1>3, <1>5, <1>6, <1>7 DEF DevicesInv, BatchHasOwner

LEMMA SubscribeKeeps ==
    ASSUME DevicesInv, NEW r \in Requests, NEW u \in Owners, NEW e \in Endpoints,
           Pushes!Subscribe(r, u, e)
    PROVE  DevicesInv'
  <1>1. /\ call' \in [Requests -> Calls]
        /\ \A s \in Requests \ {r} : call'[s] = call[s]
        /\ call'[r].step = "asked" /\ call'[r].owner = u /\ call'[r].endpoint = e
        /\ call'[r].at = tick
    BY Calling DEF DevicesInv, Others
  <1>2. /\ tick' = tick + 1 /\ tick \in Nat
        /\ UNCHANGED <<rows, locked, job, dead, stamped, faults, wanted, arrivals, crossed, slack>>
    BY DEF Pushes!Subscribe, Pushes!histories, DevicesInv, Pushes!TypeOK
  <1>3. Pushes!TypeOK'
    BY <1>1, <1>2 DEF DevicesInv, Pushes!TypeOK, Calls
  <1>4. \A s \in Requests : call[s].at \in Nat
    BY DEF DevicesInv, Pushes!TypeOK
  <1>5. CallsAreSound'
    BY <1>1, <1>2, <1>4 DEF DevicesInv, CallsAreSound, Subscribing
  <1>6. \A s \in Requests \ {r} : Subscribing(s)' <=> Subscribing(s)
    BY <1>1 DEF Subscribing
  <1>7. \A d \in Endpoints : rows[d] # None => rows[d].seen \in Nat /\ rows[d].seen < tick
    BY DEF DevicesInv, TimesDiffer, Pushes!TypeOK, Pushes!Rows
  <1>8. TimesDiffer'
    <2>1. \A d \in Endpoints : rows'[d] # None => rows'[d].seen < tick'
      BY <1>2, <1>7
    <2>2. \A v \in Owners, d \in Endpoints, t \in Nat : <<v, d, t>> \in arrivals' => t < tick'
      BY <1>2 DEF DevicesInv, TimesDiffer
    <2>3. \A s \in Requests \ {r} : Subscribing(s)' => call'[s].at < tick /\ call'[s].at = call[s].at
      BY <1>1, <1>6 DEF DevicesInv, CallsAreSound
    <2>4. \A s \in Requests : Subscribing(s)' =>
              /\ \A d \in Endpoints : rows'[d] # None => rows'[d].seen # call'[s].at
              /\ \A z \in Requests \ {s} : Subscribing(z)' => call'[z].at # call'[s].at
      <3> SUFFICES ASSUME NEW s \in Requests, Subscribing(s)'
                   PROVE  /\ \A d \in Endpoints : rows'[d] # None => rows'[d].seen # call'[s].at
                          /\ \A z \in Requests \ {s} : Subscribing(z)' => call'[z].at # call'[s].at
        OBVIOUS
      <3>1. CASE s = r
        BY <1>1, <1>2, <1>7, <2>3, <3>1
      <3>2. CASE s # r
        BY <1>1, <1>2, <1>6, <2>3, <3>2 DEF DevicesInv, TimesDiffer
      <3>3. QED
        BY <3>1, <3>2
    <2>5. QED
      BY <1>2, <2>1, <2>2, <2>4 DEF DevicesInv, TimesDiffer
  <1>9. WritersHold'
    BY <1>1, <1>2 DEF DevicesInv, WritersHold
  <1>10. TableIsRight'
    <2>1. \A s \in Requests : call'[s].step = "pruning" => call'[s] = call[s]
      BY <1>1
    <2>2. rows' \in [Endpoints -> Pushes!Rows \cup {None}]
      BY <1>3 DEF Pushes!TypeOK
    <2>3. QED
      BY <1>2, <2>1, <2>2, TableStands
  <1>11. QED
    BY <1>2, <1>3, <1>5, <1>8, <1>9, <1>10 DEF DevicesInv, BatchHasOwner

LEMMA UpsertKeeps ==
    ASSUME DevicesInv, NEW r \in Requests, Pushes!Upsert(r)
    PROVE  DevicesInv'
  <1> DEFINE e == call[r].endpoint
  <1>1. call[r].step = "asked" /\ e \in Endpoints
    BY DEF Pushes!Upsert, DevicesInv, CallsAreSound, Subscribing
  <1>2. /\ call' \in [Requests -> Calls]
        /\ \A s \in Requests \ {r} : call'[s] = call[s]
        /\ call'[r].step = "upserted" /\ call'[r].owner = call[r].owner
        /\ call'[r].endpoint = e /\ call'[r].at = call[r].at
    BY Writing DEF Pushes!Upsert, DevicesInv, Others
  <1>3. /\ Pushes!Free(e, r) /\ locked' = [locked EXCEPT ![e] = r]
        /\ UNCHANGED <<tick, rows, job, dead, stamped, faults, wanted, arrivals, crossed, slack>>
    BY DEF Pushes!Upsert, Pushes!histories
  <1> HIDE DEF e
  <1>4. Pushes!TypeOK'
    BY <1>1, <1>2, <1>3 DEF DevicesInv, Pushes!TypeOK, Calls
  <1>5. CallsAreSound' /\ TimesDiffer'
    <2>1. Subscribing(r)
      BY <1>1 DEF Subscribing
    <2>2. QED
      BY <1>2, <1>3, <2>1, CallsStand DEF e
  <1>6. WritersHold'
    <2>1. \A s \in Requests \ {r} : call[s].step \in {"upserted", "pruning"} => call[s].endpoint # e
      BY <1>3, HeldRowStays
    <2>2. e \notin job.forgotten
      BY <1>3, DevicesFacts DEF DevicesInv, WritersHold, Pushes!Free
    <2>3. locked \in [Endpoints -> Requests \cup {Job, None}]
      BY DEF DevicesInv, Pushes!TypeOK
    <2>4. \A s \in Requests : call[s].step \in {"upserted", "pruning"} =>
              call[s].endpoint \in Endpoints
      BY HeldRowStays
    <2>5. job.forgotten \subseteq Endpoints
      BY DEF DevicesInv, Pushes!TypeOK
    <2>6. QED
      BY <1>1, <1>2, <1>3, <2>1, <2>2, <2>3, <2>4, <2>5 DEF DevicesInv, WritersHold
  <1>7. TableIsRight'
    <2>1. \A s \in Requests : call'[s].step = "pruning" => call'[s] = call[s]
      BY <1>2
    <2>2. rows' \in [Endpoints -> Pushes!Rows \cup {None}]
      BY <1>4 DEF Pushes!TypeOK
    <2>3. QED
      BY <1>3, <2>1, <2>2, TableStands
  <1>8. QED
    BY <1>3, <1>4, <1>5, <1>6, <1>7 DEF DevicesInv, BatchHasOwner

LEMMA CutKeepsDevices ==
    ASSUME DevicesInv, NEW r \in Requests, Pushes!CutRequest(r)
    PROVE  DevicesInv'
  <1>1. /\ call' \in [Requests -> Calls]
        /\ \A s \in Requests \ {r} : call'[s] = call[s]
        /\ call'[r].step = "done"
    BY DoneEnds DEF DevicesInv, Pushes!CutRequest, Others
  <1>2. /\ locked' = [e \in Endpoints |-> IF locked[e] = r THEN None ELSE locked[e]]
        /\ faults' \in Nat
        /\ UNCHANGED <<tick, rows, job, dead, stamped, wanted, arrivals, crossed, slack>>
    BY DEF DevicesInv, Pushes!TypeOK, Pushes!CutRequest, Pushes!Fault, Pushes!Unlocked,
           Pushes!histories
  <1>3. Pushes!TypeOK'
    BY <1>1, <1>2 DEF DevicesInv, Pushes!TypeOK, Calls
  <1>4. CallsAreSound' /\ TimesDiffer'
    BY <1>1, <1>2, CallsStand
  <1>5. WritersHold'
    <2>1. job.forgotten \subseteq Endpoints
      BY DEF DevicesInv, Pushes!TypeOK
    <2>2. \A s \in Requests : call[s].step \in {"upserted", "pruning"} =>
              call[s].endpoint \in Endpoints
      BY HeldRowStays
    <2>3. QED
      BY <1>1, <1>2, <2>1, <2>2, DevicesFacts DEF DevicesInv, WritersHold
  <1>6. TableIsRight'
    <2>1. \A s \in Requests : call'[s].step = "pruning" => call'[s] = call[s]
      BY <1>1
    <2>2. rows' \in [Endpoints -> Pushes!Rows \cup {None}]
      BY <1>3 DEF Pushes!TypeOK
    <2>3. QED
      BY <1>2, <2>1, <2>2, TableStands
  <1>7. QED
    BY <1>2, <1>3, <1>4, <1>5, <1>6 DEF DevicesInv, BatchHasOwner

\* What the job does: it only takes from the table what it holds.
LEMMA JobStands ==
    ASSUME DevicesInv, Pushes!TypeOK', UNCHANGED <<tick, call, arrivals, crossed, slack>>,
           \A e \in Endpoints : \/ rows'[e] = rows[e] /\ wanted'[e] = wanted[e]
                                \/ /\ e \in job.forgotten
                                   /\ rows'[e] = None /\ wanted'[e] = None,
           \A e \in Endpoints, r \in Requests : locked[e] = r => locked'[e] = r,
           \A e \in job'.forgotten : locked'[e] = Job, BatchHasOwner'
    PROVE  DevicesInv'
  <1>1. CallsAreSound' /\ TimesDiffer'
    BY CallsStand
  <1>2. WritersHold'
    <2>1. \A s \in Requests : call[s].step \in {"upserted", "pruning"} =>
              call[s].endpoint \in Endpoints /\ locked[call[s].endpoint] = s
      BY HeldRowStays
    <2>2. QED
      BY <2>1 DEF WritersHold
  <1>3. TableIsRight'
    <2>1. \A s \in Requests : call'[s].step = "pruning" =>
              call'[s] = call[s] /\ rows'[call[s].endpoint] = rows[call[s].endpoint]
      BY HeldRowStays
    <2>2. rows' \in [Endpoints -> Pushes!Rows \cup {None}]
      BY DEF Pushes!TypeOK
    <2>3. QED
      BY <2>1, <2>2, TableStands
  <1>4. QED
    BY <1>1, <1>2, <1>3 DEF DevicesInv

\* The job goes on with its account, or has none.
SameBatch == job'.step = "idle" \/ (job'.step = job.step /\ job'.owner = job.owner)

LEMMA ListKeeps ==
    ASSUME DevicesInv, NEW u \in Owners, Pushes!List(u)
    PROVE  DevicesInv'
  <1>1. /\ Pushes!TypeOK /\ job \in Batches
        /\ \A e \in job.forgotten : locked[e] = Job
    BY DEF DevicesInv, WritersHold, Pushes!TypeOK, Batches
  <1>2. /\ job' \in Batches /\ job'.forgotten = job.forgotten /\ job'.owner = u
        /\ UNCHANGED <<tick, rows, locked, call, dead, stamped, faults,
                       wanted, arrivals, crossed, slack>>
    <2>1. Pushes!Owned(u) \ job.forgotten \subseteq Endpoints
      BY DEF Pushes!Owned, Pushes!OwnedIn
    <2> DEFINE left == Pushes!Owned(u) \ job.forgotten
    <2>2. job' = [job EXCEPT !.step = "posting", !.owner = u, !.left = left]
      BY DEF Pushes!List
    <2> HIDE DEF left
    <2>3. job' \in Batches /\ job'.forgotten = job.forgotten /\ job'.owner = u
      BY <1>1, <2>1, <2>2 DEF Batches, left
    <2>4. QED
      BY <2>3 DEF Pushes!List, Pushes!histories
  <1>3. Pushes!TypeOK'
    BY <1>1, <1>2 DEF Pushes!TypeOK, Batches
  <1>4. QED
    BY <1>1, <1>2, <1>3, JobStands DEF BatchHasOwner

LEMMA PostGoneKeeps ==
    ASSUME DevicesInv, NEW e \in Endpoints, Pushes!PostGone(e)
    PROVE  DevicesInv'
  <1>1. /\ Pushes!TypeOK /\ job \in Batches
        /\ \A f \in job.forgotten : locked[f] = Job
    BY DEF DevicesInv, WritersHold, Pushes!TypeOK, Batches
  <1>2. /\ UNCHANGED <<tick, rows, call, dead, stamped, faults,
                       wanted, arrivals, crossed, slack>>
        /\ \/ UNCHANGED locked /\ job' = [job EXCEPT !.left = job.left \ {e}]
           \/ /\ Pushes!Free(e, Job)
              /\ locked' = [locked EXCEPT ![e] = Job]
              /\ job' = [job EXCEPT !.left = job.left \ {e},
                                    !.forgotten = job.forgotten \cup {e}]
    BY DEF Pushes!PostGone, Pushes!histories
  <1>3. CASE UNCHANGED locked /\ job' = [job EXCEPT !.left = job.left \ {e}]
    <2>1. job' \in Batches /\ job'.forgotten = job.forgotten /\ SameBatch
      BY <1>1, <1>3 DEF Batches, SameBatch
    <2>2. Pushes!TypeOK'
      BY <1>1, <1>2, <1>3, <2>1 DEF Pushes!TypeOK, Batches
    <2>3. QED
      BY <1>1, <1>2, <1>3, <2>1, <2>2, JobStands DEF DevicesInv, BatchHasOwner, SameBatch
  <1>4. CASE /\ Pushes!Free(e, Job)
             /\ locked' = [locked EXCEPT ![e] = Job]
             /\ job' = [job EXCEPT !.left = job.left \ {e},
                                   !.forgotten = job.forgotten \cup {e}]
    <2>1. job' \in Batches /\ job'.forgotten = job.forgotten \cup {e} /\ SameBatch
      BY <1>1, <1>4 DEF Batches, SameBatch
    <2>2. locked \in [Endpoints -> Requests \cup {Job, None}]
      BY DEF DevicesInv, Pushes!TypeOK
    <2>3. locked' \in [Endpoints -> Requests \cup {Job, None}]
      BY <1>4, <2>2
    <2>4. Pushes!TypeOK'
      BY <1>1, <1>2, <2>1, <2>3 DEF Pushes!TypeOK, Batches
    <2>5. \A d \in Endpoints, s \in Requests : locked[d] = s => locked'[d] = s
      BY <1>4, <2>2, DevicesFacts DEF Pushes!Free
    <2>6. job.forgotten \subseteq Endpoints
      BY <1>1 DEF Batches
    <2>7. \A d \in job'.forgotten : locked'[d] = Job
      BY <1>1, <1>4, <2>1, <2>2, <2>6
    <2>8. QED
      BY <1>1, <1>2, <1>4, <2>1, <2>4, <2>5, <2>7, JobStands DEF DevicesInv, BatchHasOwner, SameBatch
  <1>5. QED
    BY <1>2, <1>3, <1>4

LEMMA JobKeeps ==
    ASSUME DevicesInv,
           \/ \E u \in Owners : Pushes!List(u)
           \/ \E e \in Endpoints : Pushes!PostSent(e) \/ Pushes!PostGone(e) \/ Pushes!Die(e)
           \/ Pushes!PostFails \/ Pushes!Stamp \/ Pushes!JobRollsBack
    PROVE  DevicesInv'
  <1>1. /\ Pushes!TypeOK /\ job \in Batches
        /\ \A e \in job.forgotten : locked[e] = Job
    BY DEF DevicesInv, WritersHold, Pushes!TypeOK, Batches
  <1>2. ASSUME NEW u \in Owners, Pushes!List(u)
        PROVE  DevicesInv'
    BY <1>2, ListKeeps
  <1>3. ASSUME NEW e \in Endpoints, Pushes!PostSent(e)
        PROVE  DevicesInv'
    <2>1. /\ job' = [job EXCEPT !.left = job.left \ {e}]
          /\ UNCHANGED <<tick, rows, locked, call, dead, stamped, faults,
                         wanted, arrivals, crossed, slack>>
      BY <1>3 DEF Pushes!PostSent, Pushes!histories
    <2>2. job' \in Batches /\ job'.forgotten = job.forgotten /\ SameBatch
      BY <1>1, <2>1 DEF Batches, SameBatch
    <2>3. Pushes!TypeOK'
      BY <1>1, <2>1, <2>2 DEF Pushes!TypeOK, Batches
    <2>4. QED
      BY <1>1, <2>1, <2>2, <2>3, JobStands DEF DevicesInv, BatchHasOwner, SameBatch
  <1>4. ASSUME NEW e \in Endpoints, Pushes!PostGone(e)
        PROVE  DevicesInv'
    BY <1>4, PostGoneKeeps
  <1>5. ASSUME NEW e \in Endpoints, Pushes!Die(e)
        PROVE  DevicesInv'
    <2>1. /\ UNCHANGED <<tick, rows, locked, call, job, stamped, faults,
                         wanted, arrivals, crossed, slack>>
          /\ dead' = dead \cup {e}
      BY <1>5 DEF Pushes!Die, Pushes!histories
    <2>2. Pushes!TypeOK'
      BY <1>1, <2>1 DEF Pushes!TypeOK
    <2>3. QED
      BY <1>1, <2>1, <2>2, JobStands DEF DevicesInv, BatchHasOwner, SameBatch
  <1>6. CASE Pushes!PostFails
    <2>1. /\ job' = [job EXCEPT !.step = "idle", !.left = {}]
          /\ faults' \in Nat
          /\ UNCHANGED <<tick, rows, locked, call, dead, stamped,
                         wanted, arrivals, crossed, slack>>
      BY <1>1, <1>6 DEF Pushes!PostFails, Pushes!Fault, Pushes!histories, Pushes!TypeOK
    <2>2. job' \in Batches /\ job'.forgotten = job.forgotten /\ SameBatch
      BY <1>1, <2>1 DEF Batches, SameBatch
    <2>3. Pushes!TypeOK'
      BY <1>1, <2>1, <2>2 DEF Pushes!TypeOK, Batches
    <2>4. QED
      BY <1>1, <2>1, <2>2, <2>3, JobStands DEF DevicesInv, BatchHasOwner, SameBatch
  <1>7. CASE Pushes!Stamp \/ Pushes!JobRollsBack
    <2>1. /\ job' \in Batches /\ job'.forgotten = {} /\ job'.step = "idle"
          /\ locked' = [e \in Endpoints |-> IF locked[e] = Job THEN None ELSE locked[e]]
          /\ UNCHANGED <<tick, call, dead, arrivals, crossed, slack>>
      BY <1>7 DEF Pushes!Stamp, Pushes!JobRollsBack, Pushes!NoBatch, Pushes!Unlocked,
                  Pushes!histories, Batches
    <2>2. faults' \in Nat
      BY <1>1, <1>7 DEF Pushes!Stamp, Pushes!JobRollsBack, Pushes!Fault, Pushes!TypeOK
    <2>3. \/ UNCHANGED <<rows, wanted>>
          \/ /\ rows' = [e \in Endpoints |-> IF e \in job.forgotten THEN None ELSE rows[e]]
             /\ wanted' = [e \in Endpoints |-> IF e \in job.forgotten THEN None ELSE wanted[e]]
      BY <1>7 DEF Pushes!Stamp, Pushes!JobRollsBack, Pushes!histories
    <2>4. stamped' \subseteq Owners
      <3>1. CASE Pushes!JobRollsBack
        BY <1>1, <3>1 DEF Pushes!JobRollsBack, Pushes!TypeOK
      <3>2. CASE Pushes!Stamp
        BY <1>1, <3>2 DEF Pushes!Stamp, Pushes!TypeOK, DevicesInv, BatchHasOwner
      <3>3. QED
        BY <1>7, <3>1, <3>2
    <2>5. Pushes!TypeOK'
      BY <1>1, <2>1, <2>2, <2>3, <2>4 DEF Pushes!TypeOK, Batches
    <2>6. \A e \in Endpoints : \/ rows'[e] = rows[e] /\ wanted'[e] = wanted[e]
                               \/ /\ e \in job.forgotten
                                  /\ rows'[e] = None /\ wanted'[e] = None
      BY <2>3
    <2>7. \A e \in Endpoints, r \in Requests : locked[e] = r => locked'[e] = r
      BY <2>1, DevicesFacts
    <2>8. QED
      BY <2>1, <2>5, <2>6, <2>7, JobStands DEF DevicesInv, BatchHasOwner, SameBatch
  <1>8. QED
    BY <1>2, <1>3, <1>4, <1>5, <1>6, <1>7

LEMMA ChooseKeeps ==
    ASSUME DevicesInv, NEW r \in Requests, Pushes!Choose(r)
    PROVE  DevicesInv'
  <1> DEFINE u == call[r].owner
             table == Pushes!Seen(r)
             kept == Pushes!Kept(table, u)
             chosen == {<<e, table[e]>> : e \in Pushes!OwnedIn(table, u) \ kept}
  <1>1. call[r].step = "upserted" /\ u \in Owners /\ call[r].endpoint \in Endpoints
    BY DEF Pushes!Choose, DevicesInv, CallsAreSound, Subscribing
  <1>2. /\ table \in [Endpoints -> Pushes!Rows \cup {None}]
        /\ table[call[r].endpoint].owner = u /\ table[call[r].endpoint].seen = call[r].at
        /\ \A e \in Endpoints \ {call[r].endpoint} : table[e] = rows[e]
    BY <1>1, SeenIsTyped DEF DevicesInv
  <1>3. chosen \in SUBSET (Endpoints \X Pushes!Rows)
    BY <1>2 DEF Pushes!OwnedIn
  <1>4. call' = [call EXCEPT ![r].step = "pruning", ![r].pruned = chosen]
    BY DEF Pushes!Choose
  <1> HIDE DEF chosen
  <1>5. /\ call' \in [Requests -> Calls]
        /\ \A s \in Requests \ {r} : call'[s] = call[s]
        /\ call'[r].step = "pruning" /\ call'[r].owner = u
        /\ call'[r].endpoint = call[r].endpoint /\ call'[r].at = call[r].at
        /\ call'[r].pruned = chosen
    BY <1>3, <1>4, Choosing DEF DevicesInv, Others
  <1>6. UNCHANGED <<tick, rows, locked, job, dead, stamped, faults, wanted, arrivals, crossed, slack>>
    BY DEF Pushes!Choose, Pushes!histories
  <1>7. Pushes!TypeOK'
    BY <1>5, <1>6 DEF DevicesInv, Pushes!TypeOK, Calls
  <1>8. CallsAreSound' /\ TimesDiffer'
    <2>1. Subscribing(r)
      BY <1>1 DEF Subscribing
    <2>2. QED
      BY <1>5, <1>6, <2>1, CallsStand
  <1>9. WritersHold'
    BY <1>1, <1>5, <1>6 DEF DevicesInv, WritersHold
  <1>10. \A e, f \in Endpoints :
            e # f /\ table[e] # None /\ table[f] # None /\ table[e].owner = table[f].owner
                => table[e].seen # table[f].seen
    <2>1. Subscribing(r)
      BY <1>1 DEF Subscribing
    <2>2. \A e \in Endpoints : rows[e] # None => rows[e].seen # call[r].at
      BY <2>1 DEF DevicesInv, TimesDiffer
    <2>3. \A e, f \in Endpoints :
             e # f /\ rows[e] # None /\ rows[f] # None /\ rows[e].owner = rows[f].owner
                 => rows[e].seen # rows[f].seen
      BY DEF DevicesInv, TimesDiffer
    <2> HIDE DEF table
    <2>4. QED
      BY <1>2, <2>2, <2>3
  <1>11. Cardinality(kept) <= Limit
    <2> HIDE DEF table
    <2>1. QED
      BY <1>1, <1>2, <1>10, KeptFew
  <1>12. Pushes!Seen(r)' = table
    BY <1>5, <1>6 DEF Pushes!Seen, Pushes!Row
  <1> DEFINE after(e) == {f \in Endpoints \ {e} : \E x \in Nat :
                  /\ x > table[e].seen
                  /\ <<u, f, x>> \in arrivals \/ (f = call[r].endpoint /\ x = call[r].at)}
  <1>13. ASSUME NEW e \in Pushes!OwnedIn(table, u) \ kept
         PROVE  /\ table[e].owner = u /\ Cardinality(after(e)) >= Limit
    <2>1. e \in Endpoints /\ table[e] # None /\ table[e].owner = u
      BY DEF Pushes!OwnedIn
    <2>2. ~(Cardinality(Pushes!SeenAfter(table, e)) < Limit)
      BY <2>1, DevicesFacts DEF Pushes!Kept
    <2>3. Pushes!SeenAfter(table, e) \subseteq after(e)
      <3> SUFFICES ASSUME NEW f \in Pushes!SeenAfter(table, e) PROVE f \in after(e)
        OBVIOUS
      <3> HIDE DEF table
      <3>1. f \in Endpoints /\ table[f] # None /\ table[f].owner = u
            /\ table[f].seen > table[e].seen
        BY <2>1 DEF Pushes!SeenAfter, Pushes!OwnedIn
      <3>2. table[f].seen \in Nat /\ table[e].seen \in Nat
        BY <1>2, <2>1, <3>1 DEF Pushes!Rows
      <3>3. f # e
        BY <3>1, <3>2
      <3>4. <<u, f, table[f].seen>> \in arrivals
              \/ (f = call[r].endpoint /\ table[f].seen = call[r].at)
        BY <1>2, <3>1 DEF DevicesInv, TableIsRight, RowsAreWanted
      <3>5. QED
        BY <3>1, <3>2, <3>3, <3>4
    <2>4. after(e) \subseteq Endpoints
      OBVIOUS
    <2> HIDE DEF after, table
    <2>5. /\ Cardinality(Pushes!SeenAfter(table, e)) <= Cardinality(after(e))
          /\ Cardinality(after(e)) \in Nat
      BY <2>3, <2>4, DevicesFacts
    <2>6. Cardinality(Pushes!SeenAfter(table, e)) \in Nat
      BY <2>3, <2>4, DevicesFacts
    <2>7. QED
      BY <2>1, <2>2, <2>5, <2>6, DevicesFacts
  <1>14. PruneIsRight(r)'
    <2>1. ASSUME NEW p \in chosen
          PROVE  p[2].owner = u /\ Cardinality(ComeAfter(r, p)') >= Limit
      <3>1. PICK e \in Pushes!OwnedIn(table, u) \ kept : p = <<e, table[e]>>
        BY DEF chosen
      <3>2. ComeAfter(r, p)' = after(e)
        BY <1>5, <1>6, <3>1 DEF ComeAfter
      <3> HIDE DEF after, table, kept
      <3>3. QED
        BY <1>13, <3>1, <3>2
    <2>2. Spared(r)' \subseteq kept
      <3>1. Spared(r)' = {e \in Pushes!OwnedIn(table, u) :
                             \A p \in chosen : p[1] = e => p[2].id # table[e].id}
        BY <1>5, <1>12 DEF Spared, Pushes!OwnedIn
      <3> HIDE DEF table, kept
      <3>2. \A e \in Pushes!OwnedIn(table, u) \ kept : <<e, table[e]>> \in chosen
        BY DEF chosen
      <3>3. ASSUME NEW e \in Spared(r)', e \notin kept
            PROVE  FALSE
        <4>1. /\ e \in Pushes!OwnedIn(table, u)
              /\ \A p \in chosen : p[1] = e => p[2].id # table[e].id
          BY <3>1
        <4> DEFINE p == <<e, table[e]>>
        <4>2. p \in chosen
          BY <3>2, <3>3, <4>1
        <4>3. p[1] = e /\ p[2] = table[e]
          OBVIOUS
        <4> HIDE DEF p
        <4>4. QED
          BY <4>1, <4>2, <4>3
      <3>4. QED
        BY <3>3
    <2>3. kept \subseteq Endpoints
      BY DEF Pushes!Kept, Pushes!OwnedIn
    <2> HIDE DEF kept
    <2>4. Cardinality(Spared(r)') <= Cardinality(kept) /\ Cardinality(kept) \in Nat
          /\ Cardinality(Spared(r)') \in Nat
      BY <2>2, <2>3, DevicesFacts
    <2>5. Cardinality(Spared(r)') <= Limit
      BY <1>11, <2>4, DevicesFacts
    <2>6. QED
      BY <1>5, <2>1, <2>5 DEF PruneIsRight
  <1>15. TableIsRight'
    <2>1. \A s \in Requests : call'[s].step = "pruning" => PruneIsRight(s)' \/ call'[s] = call[s]
      BY <1>5, <1>14
    <2>2. rows' \in [Endpoints -> Pushes!Rows \cup {None}]
      BY <1>7 DEF Pushes!TypeOK
    <2>3. QED
      BY <1>6, <2>1, <2>2, TableStands
  <1>16. QED
    BY <1>6, <1>7, <1>8, <1>9, <1>15 DEF DevicesInv, BatchHasOwner

\* What a commit does to the calls: its own ends, and the prunes of its account
\* have not seen it.
LEMMA CommitCalls ==
    ASSUME DevicesInv, NEW r \in Requests, Pushes!CommitSubscription(r)
    PROVE  /\ call' \in [Requests -> Calls] /\ call'[r].step = "done"
           /\ \A s \in Requests \ {r} :
                 /\ call'[s].step = call[s].step /\ call'[s].owner = call[s].owner
                 /\ call'[s].endpoint = call[s].endpoint /\ call'[s].at = call[s].at
                 /\ call'[s].pruned = call[s].pruned
                 /\ call[s].step = "pruning" /\ call'[s].unseen = 0 =>
                       call[s].unseen = 0 /\ call[s].owner # call[r].owner
  <1> DEFINE over == [Pushes!New EXCEPT !.step = "done"]
             bump(s) == [call[s] EXCEPT !.unseen = call[s].unseen + 1]
  <1>1. Pushes!New \in Calls
    BY DEF Pushes!New, Calls
  <1>2. over \in Calls /\ over.step = "done"
    BY <1>1 DEF Calls
  <1>3. call \in [Requests -> Calls]
    BY DEF DevicesInv, Pushes!TypeOK, Calls
  <1>4. ASSUME NEW s \in Requests
        PROVE  /\ bump(s) \in Calls /\ bump(s).step = call[s].step
               /\ bump(s).owner = call[s].owner /\ bump(s).endpoint = call[s].endpoint
               /\ bump(s).at = call[s].at /\ bump(s).pruned = call[s].pruned
               /\ bump(s).unseen # 0
    BY <1>3 DEF Calls
  <1>5. call' = [s \in Requests |->
              CASE s = r -> over
                [] s # r /\ call[s].step = "pruning" /\ call[s].owner = call[r].owner -> bump(s)
                [] OTHER -> call[s]]
    BY DEF Pushes!CommitSubscription
  <1> HIDE DEF over, bump
  <1>6. \A s \in Requests : call'[s] =
            IF s = r THEN over
            ELSE IF call[s].step = "pruning" /\ call[s].owner = call[r].owner THEN bump(s)
            ELSE call[s]
    BY <1>5
  <1>7. call' = [s \in Requests |-> call'[s]]
    BY <1>5
  <1>8. \A s \in Requests : call'[s] \in Calls
    BY <1>2, <1>3, <1>4, <1>6
  <1>9. call' \in [Requests -> Calls]
    BY <1>7, <1>8
  <1>10. QED
    BY <1>2, <1>4, <1>6, <1>9

LEMMA CommitKeepsDevices ==
    ASSUME DevicesInv, NEW r \in Requests, Pushes!CommitSubscription(r)
    PROVE  DevicesInv'
  <1> DEFINE u0 == call[r].owner
             e0 == call[r].endpoint
             t0 == call[r].at
             seen == Pushes!Seen(r)
             lost(e) == \E p \in call[r].pruned : p[1] = e /\ Pushes!StillPruned(r, p)
  <1>1. call[r].step = "pruning" /\ u0 \in Owners /\ e0 \in Endpoints /\ t0 \in Nat
        /\ t0 < tick /\ tick \in Nat /\ Subscribing(r)
        /\ call[r].pruned \subseteq Endpoints \X Pushes!Rows
    BY DEF Pushes!CommitSubscription, DevicesInv, CallsAreSound, Subscribing, Pushes!TypeOK
  <1>2. /\ seen \in [Endpoints -> Pushes!Rows \cup {None}]
        /\ seen[e0] # None /\ seen[e0].owner = u0 /\ seen[e0].seen = t0
        /\ \A e \in Endpoints \ {e0} : seen[e] = rows[e]
    BY <1>1, SeenIsTyped, DevicesFacts DEF DevicesInv
  <1>3. \A e \in Endpoints : rows'[e] = IF lost(e) THEN None ELSE seen[e]
    BY DEF Pushes!CommitSubscription
  <1>4. rows' \in [Endpoints -> Pushes!Rows \cup {None}]
    <2>1. rows' = [e \in Endpoints |-> rows'[e]]
      BY DEF Pushes!CommitSubscription
    <2> HIDE DEF seen, lost
    <2>2. QED
      BY <1>2, <1>3, <2>1
  <1>5. /\ wanted' = [wanted EXCEPT ![e0] = [owner |-> u0, at |-> t0]]
        /\ arrivals' = arrivals \cup {<<u0, e0, t0>>}
        /\ slack' = [slack EXCEPT ![u0] = IF call[r].unseen = 0 THEN 0 ELSE slack[u0] + 1]
        /\ locked' = [e \in Endpoints |-> IF locked[e] = r THEN None ELSE locked[e]]
        /\ UNCHANGED <<tick, job, dead, stamped, faults>>
    BY DEF Pushes!CommitSubscription, Pushes!Unlocked
  <1>6. /\ crossed \subseteq crossed' /\ crossed' \subseteq Endpoints
        /\ \A p \in call[r].pruned :
              Pushes!StillPruned(r, p) /\ seen[p[1]] # p[2] => p[1] \in crossed'
    BY <1>1 DEF Pushes!CommitSubscription, DevicesInv, Pushes!TypeOK
  <1>7. \A p \in call[r].pruned : rows[p[1]] # None => Pushes!Free(p[1], r)
    BY DEF Pushes!CommitSubscription
  <1>8. \A e \in Endpoints : lost(e) =>
            /\ rows[e] # None \/ e = e0
            /\ \E p \in call[r].pruned : /\ p[1] = e /\ Pushes!StillPruned(r, p)
                                         /\ p[2].owner = u0 /\ seen[e].owner = u0
                                         /\ Cardinality(ComeAfter(r, p)) >= Limit
    <2>1. \A p \in call[r].pruned : p[2].owner = u0 /\ Cardinality(ComeAfter(r, p)) >= Limit
      BY <1>1 DEF DevicesInv, TableIsRight, PrunesAreRight, PruneIsRight
    <2>2. \A p \in call[r].pruned : Pushes!StillPruned(r, p) =>
              seen[p[1]] # None /\ seen[p[1]].owner = u0
      BY DEF Pushes!StillPruned
    <2> HIDE DEF seen
    <2>3. QED
      BY <1>2, <2>1, <2>2
  <1>9. /\ call' \in [Requests -> Calls] /\ call'[r].step = "done"
        /\ \A s \in Requests \ {r} :
              /\ call'[s].step = call[s].step /\ call'[s].owner = call[s].owner
              /\ call'[s].endpoint = call[s].endpoint /\ call'[s].at = call[s].at
              /\ call'[s].pruned = call[s].pruned
              /\ call[s].step = "pruning" /\ call'[s].unseen = 0 =>
                    call[s].unseen = 0 /\ call[s].owner # u0
    BY CommitCalls
  <1>10. \A e \in Endpoints : lost(e) => Pushes!Free(e, r) \/ e = e0
    BY <1>7, <1>8
  <1> HIDE DEF seen, lost
  <1>11. /\ wanted'[e0] = [owner |-> u0, at |-> t0]
         /\ \A e \in Endpoints \ {e0} : wanted'[e] = wanted[e]
         /\ wanted' \in [Endpoints -> [owner : Owners, at : Nat] \cup {None}]
    BY <1>1, <1>5 DEF DevicesInv, Pushes!TypeOK
  <1>12. Pushes!TypeOK'
    <2>1. arrivals' \subseteq Owners \X Endpoints \X Nat
      BY <1>1, <1>5 DEF DevicesInv, Pushes!TypeOK
    <2>2. slack' \in [Owners -> Nat]
      BY <1>1, <1>5 DEF DevicesInv, Pushes!TypeOK
    <2>3. locked' \in [Endpoints -> Requests \cup {Job, None}]
      BY <1>5 DEF DevicesInv, Pushes!TypeOK
    <2>4. QED
      BY <1>4, <1>5, <1>6, <1>9, <1>11, <2>1, <2>2, <2>3 DEF DevicesInv, Pushes!TypeOK, Calls
  <1>13. CallsAreSound'
    BY <1>5, <1>9 DEF DevicesInv, CallsAreSound, Subscribing
  <1>14. \A e \in Endpoints : rows'[e] # None =>
             \/ e = e0 /\ rows'[e].owner = u0 /\ rows'[e].seen = t0
             \/ e # e0 /\ rows'[e] = rows[e]
    BY <1>2, <1>3
  <1>15. TimesDiffer'
    <2>1. \A e \in Endpoints : rows'[e] # None => rows'[e].seen < tick'
      BY <1>1, <1>5, <1>14 DEF DevicesInv, TimesDiffer
    <2>2. \A u \in Owners, e \in Endpoints, t \in Nat : <<u, e, t>> \in arrivals' => t < tick'
      BY <1>1, <1>5 DEF DevicesInv, TimesDiffer
    <2>3. \A e \in Endpoints : rows[e] # None => rows[e].seen # t0
      BY <1>1 DEF DevicesInv, TimesDiffer
    <2>4. \A e, f \in Endpoints :
             e # f /\ rows'[e] # None /\ rows'[f] # None /\ rows'[e].owner = rows'[f].owner
                 => rows'[e].seen # rows'[f].seen
      BY <1>14, <2>3 DEF DevicesInv, TimesDiffer
    <2>5. \A s \in Requests : Subscribing(s)' => s # r /\ Subscribing(s) /\ call'[s].at = call[s].at
      BY <1>9 DEF Subscribing
    <2>6. \A s \in Requests \ {r} : Subscribing(s) => call[s].at # t0
      BY <1>1 DEF DevicesInv, TimesDiffer
    <2>7. \A s \in Requests : Subscribing(s)' =>
              /\ \A e \in Endpoints : rows'[e] # None => rows'[e].seen # call'[s].at
              /\ \A z \in Requests \ {s} : Subscribing(z)' => call'[z].at # call'[s].at
      BY <1>14, <2>5, <2>6 DEF DevicesInv, TimesDiffer
    <2>8. QED
      BY <2>1, <2>2, <2>4, <2>7 DEF TimesDiffer
  <1>16. \A s \in Requests \ {r} : call[s].step \in {"upserted", "pruning"} =>
             /\ call[s].endpoint \in Endpoints /\ call[s].endpoint # e0
             /\ locked[call[s].endpoint] = s
             /\ rows'[call[s].endpoint] = rows[call[s].endpoint]
    <2> SUFFICES ASSUME NEW s \in Requests \ {r}, call[s].step \in {"upserted", "pruning"}
                 PROVE  /\ call[s].endpoint \in Endpoints /\ call[s].endpoint # e0
                        /\ locked[call[s].endpoint] = s
                        /\ rows'[call[s].endpoint] = rows[call[s].endpoint]
      OBVIOUS
    <2>1. /\ call[s].endpoint \in Endpoints /\ locked[call[s].endpoint] = s
          /\ ~Pushes!Free(call[s].endpoint, r)
      BY HeldRowStays
    <2>2. locked[e0] = r
      BY <1>1, HeldRowStays
    <2>3. call[s].endpoint # e0
      BY <2>1, <2>2
    <2>4. ~lost(call[s].endpoint)
      BY <1>10, <2>1, <2>3
    <2>5. QED
      BY <1>2, <1>3, <2>1, <2>3, <2>4
  <1>17. WritersHold'
    <2>1. \A e \in job.forgotten : e \in Endpoints /\ locked[e] = Job
      BY DEF DevicesInv, WritersHold, Pushes!TypeOK
    <2>2. QED
      BY <1>5, <1>9, <1>16, <2>1, DevicesFacts DEF WritersHold
  <1>18. RowsAreWanted'
    BY <1>5, <1>11, <1>14 DEF DevicesInv, TableIsRight, RowsAreWanted
  <1>19. WithinLimit'
    <2> SUFFICES ASSUME NEW u \in Owners
                 PROVE  Cardinality(Pushes!OwnedIn(rows, u)') <= Limit + slack'[u]
      BY DEF WithinLimit
    <2> DEFINE O == Pushes!OwnedIn(rows, u)
    <2>1. Cardinality(O) <= Limit + slack[u] /\ slack[u] \in Nat
      BY DEF DevicesInv, TableIsRight, WithinLimit, Pushes!TypeOK
    <2>2. /\ O \subseteq Endpoints /\ O' \subseteq Endpoints
          /\ IsFiniteSet(O) /\ Cardinality(O) \in Nat /\ Cardinality(O') \in Nat
      <3>1. O \subseteq Endpoints /\ O' \subseteq Endpoints
        BY DEF Pushes!OwnedIn
      <3> HIDE DEF O
      <3>2. QED
        BY <3>1, DevicesFacts
    <2>3. CASE u # u0
      <3>1. O' \subseteq O
        BY <1>14, <2>3 DEF Pushes!OwnedIn
      <3>2. slack'[u] = slack[u]
        BY <1>5, <2>3 DEF DevicesInv, Pushes!TypeOK
      <3> HIDE DEF O
      <3>3. Cardinality(O') <= Cardinality(O)
        BY <2>2, <3>1, DevicesFacts
      <3>4. QED
        BY <2>1, <2>2, <3>2, <3>3, DevicesFacts DEF O
    <2>4. CASE u = u0 /\ call[r].unseen = 0
      <3>1. O' \subseteq Spared(r)
        <4> SUFFICES ASSUME NEW e \in O' PROVE e \in Spared(r)
          OBVIOUS
        <4>1. e \in Endpoints /\ rows'[e] # None /\ rows'[e].owner = u0
          BY <2>4 DEF Pushes!OwnedIn
        <4>2. ~lost(e) /\ seen[e] # None /\ seen[e].owner = u0
          BY <1>3, <4>1
        <4>3. \A p \in call[r].pruned : p[1] = e => p[2].id # seen[e].id
          BY <4>2 DEF lost, seen, Pushes!StillPruned
        <4>4. QED
          BY <4>1, <4>2, <4>3 DEF Spared, seen, Pushes!OwnedIn
      <3>2. Spared(r) \subseteq Endpoints
        BY DEF Spared, Pushes!OwnedIn
      <3>3. Cardinality(Spared(r)) <= Limit
        BY <1>1, <2>4 DEF DevicesInv, TableIsRight, PrunesAreRight, PruneIsRight
      <3>4. slack'[u] = 0
        BY <1>5, <2>4 DEF DevicesInv, Pushes!TypeOK
      <3> HIDE DEF O
      <3>5. Cardinality(O') <= Cardinality(Spared(r)) /\ Cardinality(Spared(r)) \in Nat
        BY <3>1, <3>2, DevicesFacts
      <3>6. QED
        BY <2>2, <3>3, <3>4, <3>5, DevicesFacts DEF O
    <2>5. CASE u = u0 /\ call[r].unseen # 0
      <3>1. O' \subseteq O \cup {e0}
        BY <1>14, <2>5 DEF Pushes!OwnedIn
      <3>2. slack'[u] = slack[u] + 1
        BY <1>5, <2>5 DEF DevicesInv, Pushes!TypeOK
      <3> HIDE DEF O
      <3>3. Cardinality(O \cup {e0}) <= Cardinality(O) + 1
        <4>1. IsFiniteSet(O) /\ Cardinality(O) \in Nat
          BY <2>2
        <4>2. Cardinality(O \cup {e0}) = IF e0 \in O THEN Cardinality(O) ELSE Cardinality(O) + 1
          BY <4>1, FS_AddElement
        <4>3. QED
          BY <4>1, <4>2
      <3>4. O \cup {e0} \subseteq Endpoints
        BY <1>1, <2>2
      <3>5. Cardinality(O') <= Cardinality(O \cup {e0}) /\ Cardinality(O \cup {e0}) \in Nat
        BY <3>1, <3>4, DevicesFacts
      <3>6. QED
        BY <2>1, <2>2, <3>2, <3>3, <3>5, DevicesFacts DEF O
    <2>6. QED
      BY <2>3, <2>4, <2>5
  <1>20. \A u \in Owners, e \in Endpoints, t \in Nat :
             /\ CameAfter(arrivals, u, e, t) \subseteq CameAfter(arrivals', u, e, t)
             /\ CameAfter(arrivals', u, e, t) \subseteq Endpoints
    BY <1>5 DEF CameAfter
  <1>21. \A p \in call[r].pruned : ComeAfter(r, p) \subseteq CameAfter(arrivals', u0, p[1], p[2].seen)
    <2>1. u0 = call[r].owner /\ e0 = call[r].endpoint /\ t0 = call[r].at
      OBVIOUS
    <2> HIDE DEF u0, e0, t0
    <2>2. TAKE p \in call[r].pruned
    <2>3. ASSUME NEW f \in Endpoints \ {p[1]}, NEW x \in Nat, x > p[2].seen,
                 <<u0, f, x>> \in arrivals \/ (f = e0 /\ x = t0)
          PROVE  <<u0, f, x>> \in arrivals'
      BY <1>5, <2>3
    <2>4. QED
      BY <2>1, <2>3 DEF ComeAfter, CameAfter
  <1>22. LastOnesStay'
    <2> SUFFICES ASSUME NEW e \in Endpoints, wanted'[e] # None
                 PROVE  \/ rows'[e] # None /\ rows'[e].owner = wanted'[e].owner
                        \/ Cardinality(CameAfter(arrivals', wanted'[e].owner, e, wanted'[e].at)) >= Limit
                        \/ e \in crossed'
      BY DEF LastOnesStay
    <2>1. wanted'[e].owner \in Owners /\ wanted'[e].at \in Nat
      BY <1>11
    <2>2. CASE lost(e) /\ e \notin crossed'
      <3>1. PICK p \in call[r].pruned :
                /\ p[1] = e /\ Pushes!StillPruned(r, p)
                /\ p[2].owner = u0 /\ seen[e].owner = u0
                /\ Cardinality(ComeAfter(r, p)) >= Limit
        BY <1>8, <2>2
      <3>2. p[2] = seen[e] /\ (rows[e] # None \/ e = e0)
        BY <1>6, <1>8, <2>2, <3>1
      <3>3. wanted'[e].owner = u0 /\ wanted'[e].at = p[2].seen
        <4>1. CASE e = e0
          BY <1>2, <1>11, <3>2, <4>1
        <4>2. CASE e # e0
          <5>1. rows[e] # None /\ seen[e] = rows[e] /\ wanted'[e] = wanted[e]
            BY <1>2, <1>11, <3>2, <4>2
          <5>2. wanted[e] = [owner |-> rows[e].owner, at |-> rows[e].seen]
            BY <5>1 DEF DevicesInv, TableIsRight, RowsAreWanted
          <5>3. QED
            BY <3>1, <3>2, <5>1, <5>2
        <4>3. QED
          BY <4>1, <4>2
      <3> DEFINE A == ComeAfter(r, p)
                 B == CameAfter(arrivals', wanted'[e].owner, e, wanted'[e].at)
      <3>4. A \subseteq B
        BY <1>21, <3>1, <3>3
      <3>5. B \subseteq Endpoints
        BY <1>20, <2>1
      <3>6. Cardinality(A) >= Limit
        BY <3>1
      <3> HIDE DEF A, B
      <3>7. Cardinality(A) <= Cardinality(B) /\ Cardinality(A) \in Nat /\ Cardinality(B) \in Nat
        BY <3>4, <3>5, DevicesFacts
      <3>8. Cardinality(B) >= Limit
        BY <3>6, <3>7, DevicesFacts
      <3>9. QED
        BY <3>8 DEF B
    <2>3. CASE ~lost(e) /\ e = e0
      BY <1>2, <1>3, <1>11, <2>3
    <2>4. CASE ~lost(e) /\ e # e0
      <3>1. rows'[e] = rows[e] /\ wanted'[e] = wanted[e]
        BY <1>2, <1>3, <1>11, <2>4
      <3>2. \/ rows[e] # None /\ rows[e].owner = wanted[e].owner
            \/ Cardinality(CameAfter(arrivals, wanted[e].owner, e, wanted[e].at)) >= Limit
            \/ e \in crossed
        BY <3>1 DEF DevicesInv, TableIsRight, LastOnesStay
      <3> DEFINE A == CameAfter(arrivals, wanted[e].owner, e, wanted[e].at)
                 B == CameAfter(arrivals', wanted'[e].owner, e, wanted'[e].at)
      <3>3. A \subseteq B /\ B \subseteq Endpoints
        BY <1>20, <2>1, <3>1
      <3> HIDE DEF A, B
      <3>4. Cardinality(A) <= Cardinality(B) /\ Cardinality(A) \in Nat /\ Cardinality(B) \in Nat
        BY <3>3, DevicesFacts
      <3>5. Cardinality(A) >= Limit => Cardinality(B) >= Limit
        BY <3>4, DevicesFacts
      <3>6. QED
        BY <1>6, <3>1, <3>2, <3>5 DEF A, B
    <2>5. QED
      BY <2>2, <2>3, <2>4
  <1>23. PrunesAreRight'
    <2> SUFFICES ASSUME NEW s \in Requests, call'[s].step = "pruning"
                 PROVE  PruneIsRight(s)'
      BY DEF PrunesAreRight
    <2>1. /\ s # r /\ call[s].step = "pruning"
          /\ call'[s].owner = call[s].owner /\ call'[s].endpoint = call[s].endpoint
          /\ call'[s].at = call[s].at /\ call'[s].pruned = call[s].pruned
          /\ call'[s].unseen = 0 => call[s].unseen = 0 /\ call[s].owner # u0
      BY <1>9
    <2>2. PruneIsRight(s)
      BY <2>1 DEF DevicesInv, TableIsRight, PrunesAreRight
    <2>3. ASSUME NEW p \in call[s].pruned
          PROVE  Cardinality(ComeAfter(s, p)') >= Limit
      <3> DEFINE A == ComeAfter(s, p)
      <3>1. A \subseteq A' /\ A' \subseteq Endpoints
        BY <1>5, <2>1 DEF ComeAfter
      <3>2. Cardinality(A) >= Limit
        BY <2>2, <2>3 DEF PruneIsRight
      <3> HIDE DEF A
      <3>3. Cardinality(A) <= Cardinality(A') /\ Cardinality(A) \in Nat /\ Cardinality(A') \in Nat
        BY <3>1, DevicesFacts
      <3>4. Cardinality(A') >= Limit
        BY <3>2, <3>3, DevicesFacts
      <3>5. QED
        BY <3>4 DEF A
    <2>4. ASSUME call'[s].unseen = 0
          PROVE  Cardinality(Spared(s)') <= Limit
      <3>1. call[s].unseen = 0 /\ call[s].owner # u0
        BY <2>1, <2>4
      <3>2. Pushes!Row(s)' = Pushes!Row(s)
        BY <1>16, <2>1 DEF Pushes!Row
      <3>3. \A e \in Endpoints : e # call[s].endpoint =>
                Pushes!Seen(s)'[e] = rows'[e] /\ Pushes!Seen(s)[e] = rows[e]
        BY <1>4, <2>1 DEF Pushes!Seen, DevicesInv, Pushes!TypeOK
      <3>4. /\ Pushes!Seen(s)'[call[s].endpoint] = Pushes!Row(s)
            /\ Pushes!Seen(s)[call[s].endpoint] = Pushes!Row(s)
        BY <1>4, <1>16, <2>1, <3>2 DEF Pushes!Seen, DevicesInv, Pushes!TypeOK
      <3>5. ASSUME NEW e \in Endpoints, Pushes!Seen(s)'[e] # None,
                   Pushes!Seen(s)'[e].owner = call[s].owner
            PROVE  Pushes!Seen(s)[e] = Pushes!Seen(s)'[e]
        BY <1>14, <3>1, <3>3, <3>4, <3>5
      <3>6. Spared(s)' \subseteq Spared(s)
        BY <2>1, <3>5 DEF Spared, Pushes!OwnedIn
      <3>7. Spared(s) \subseteq Endpoints
        BY DEF Spared, Pushes!OwnedIn
      <3>8. /\ Cardinality(Spared(s)') <= Cardinality(Spared(s)) /\ Cardinality(Spared(s)) \in Nat
            /\ Cardinality(Spared(s)') \in Nat
        BY <3>6, <3>7, DevicesFacts
      <3>9. Cardinality(Spared(s)) <= Limit
        BY <2>2, <3>1 DEF PruneIsRight
      <3>10. QED
        BY <3>8, <3>9, DevicesFacts
    <2>5. \A p \in call[s].pruned : p[2].owner = call[s].owner
      BY <2>2 DEF PruneIsRight
    <2>6. QED
      BY <2>1, <2>3, <2>4, <2>5 DEF PruneIsRight
  <1>24. QED
    BY <1>5, <1>12, <1>13, <1>15, <1>17, <1>18, <1>19, <1>22, <1>23
       DEF DevicesInv, TableIsRight, BatchHasOwner

LEMMA DevicesStep == DevicesInv /\ [Pushes!Next]_devicesVars => DevicesInv'
  <1> SUFFICES ASSUME DevicesInv, [Pushes!Next]_devicesVars PROVE DevicesInv'
    OBVIOUS
  <1>1. CASE UNCHANGED devicesVars
    <2>1. UNCHANGED <<tick, rows, locked, call, job, dead, stamped, faults,
                      wanted, arrivals, crossed, slack>>
      BY <1>1 DEF devicesVars
    <2>2. Pushes!TypeOK'
      BY <2>1 DEF DevicesInv, Pushes!TypeOK
    <2>3. \A e \in job.forgotten : locked[e] = Job
      BY DEF DevicesInv, WritersHold
    <2>4. BatchHasOwner'
      BY <2>1 DEF DevicesInv, BatchHasOwner
    <2>5. QED
      BY <2>1, <2>2, <2>3, <2>4, JobStands
  <1>2. ASSUME NEW r \in Requests, NEW u \in Owners, NEW e \in Endpoints,
               Pushes!Subscribe(r, u, e) \/ Pushes!Unsubscribe(r, u, e) \/ Pushes!Test(r, u, e)
        PROVE  DevicesInv'
    BY <1>2, SubscribeKeeps, UnsubscribeKeeps, TestKeeps
  <1>3. ASSUME NEW r \in Requests,
               \/ Pushes!Upsert(r) \/ Pushes!Choose(r) \/ Pushes!CommitSubscription(r)
               \/ Pushes!CutRequest(r) \/ Pushes!TestFindsItGone(r) \/ Pushes!TestAnswered(r)
        PROVE  DevicesInv'
    BY <1>3, UpsertKeeps, ChooseKeeps, CommitKeepsDevices, CutKeepsDevices, TestKeeps
  <1>4. CASE \/ \E u \in Owners : Pushes!List(u)
             \/ \E e \in Endpoints : Pushes!PostSent(e) \/ Pushes!PostGone(e) \/ Pushes!Die(e)
             \/ Pushes!PostFails \/ Pushes!Stamp \/ Pushes!JobRollsBack
    BY <1>4, JobKeeps
  <1>5. QED
    BY <1>1, <1>2, <1>3, <1>4 DEF Pushes!Next

DevicesPart == served = "devices" => DevicesInv

LEMMA DevicesPartHolds == Spec => []DevicesPart
  <1>1. Init => DevicesPart
    BY DevicesInit DEF Init, DevicesPart
  <1>2. DevicesPart /\ [Next]_vars => DevicesPart'
    BY DevicesStep DEF Next, vars, DevicesPart
  <1>3. QED
    BY <1>1, <1>2, PTL DEF Spec

\* An account keeps to its limit of devices (prune of
\* repositories/push_repository.py), but for those that overlapping subscriptions
\* did not see.
THEOREM LimitTheorem == Spec => []LimitHolds
  <1>1. DevicesPart => LimitHolds
    BY DevicesFacts DEF DevicesPart, DevicesInv, TableIsRight, WithinLimit, LimitHolds,
                        Pushes!LimitHolds, Pushes!Owned
  <1>2. QED
    BY <1>1, DevicesPartHolds, PTL

\* The device that came last stays, whoever it belonged to before, until as many
\* as the limit have come after it (save and prune of
\* repositories/push_repository.py).
THEOREM NewestTheorem == Spec => []NewestAreKept
  <1>1. ASSUME DevicesInv
        PROVE  Pushes!NewestAreKept
    <2>1. \A e \in Endpoints : wanted[e] # None =>
              Pushes!Later(e) = CameAfter(arrivals, wanted[e].owner, e, wanted[e].at)
      BY <1>1, LaterIsAfter DEF DevicesInv
    <2>2. QED
      BY <1>1, <2>1, DevicesFacts DEF DevicesInv, TableIsRight, LastOnesStay, Pushes!NewestAreKept
  <1>2. DevicesPart => NewestAreKept
    BY <1>1 DEF DevicesPart, NewestAreKept
  <1>3. QED
    BY <1>2, DevicesPartHolds, PTL
=============================================================================
