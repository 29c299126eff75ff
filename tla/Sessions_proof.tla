--------------------------- MODULE Sessions_proof ---------------------------
(***************************************************************************)
(* For any number of accounts, tokens and overlapping requests, any        *)
(* lifetime and any number of new passwords: a session is one thread, and  *)
(* once it is over it stays over.  Every step that touches the tokens is   *)
(* of one of four sorts (it drops rows, reads a token, hands one out, or   *)
(* revokes some), and each sort keeps the invariant.  A second invariant   *)
(* ties tokens and requests to their account.                              *)
(***************************************************************************)
EXTENDS Sessions, TLAPS

-----------------------------------------------------------------------------
(* The invariant.                                                          *)

\* A row is one of the tokens handed out, and says the same of its owner; so is
\* the first token of every session.
RowsAreIssued ==
    /\ \A t \in Tokens : tokens[t] # None =>
          issued[t] # None /\ issued[t].owner = tokens[t].owner
    /\ \A t \in Tokens : issued[t] # None => issued[issued[t].family] # None
    /\ \A t \in late \cup ended : issued[t] # None

Presents(r) == request[r] # Nothing /\ request[r].parent # None

\* What a request has read of the token it presents.
ReadsAreIssued ==
    /\ \A r \in Requests : request[r] # Nothing /\ request[r].kind # "refresh" =>
          request[r].parent = None
    /\ \A r \in Requests : Presents(r) =>
          /\ issued[request[r].parent] # None
          /\ issued[request[r].parent].owner = request[r].account
          /\ issued[request[r].parent].era = request[r].era

\* A request that nothing overtook, and whose token is no one's leftover.
Sound(r) == r \notin overlapped /\ request[r] # Nothing /\ request[r].parent \notin late

\* It has read what still holds.
ReadsAreFresh ==
    \A r \in Requests : Sound(r) =>
        /\ request[r].era = chosen[request[r].account]
        /\ Presents(r) => issued[request[r].parent].family \notin ended

\* While it runs, the session has no other good token than the one it presents,
\* and no other sound request presents another.
ThreadIsHeld ==
    \A r \in Requests : Sound(r) /\ Presents(r) =>
        /\ \A s \in Tokens \ late :
              IsLive(s) /\ issued[s].family = issued[request[r].parent].family =>
                  s = request[r].parent
        /\ \A q \in Requests :
              /\ Sound(q) /\ Presents(q)
              /\ issued[request[q].parent].family = issued[request[r].parent].family
              => request[q].parent = request[r].parent

SessionInv ==
    /\ TypeOK
    /\ RowsAreIssued
    /\ ReadsAreIssued
    /\ ReadsAreFresh
    /\ ThreadIsHeld
    /\ OneThread
    /\ EndedForGood

-----------------------------------------------------------------------------
(* Types.                                                                  *)

\* An account that was just made is an account.
LEMMA AccountType ==
    ASSUME NEW stage \in {"absent", "open", "gone"}
    PROVE  Account(stage) \in User
  <1>1. 0 \in 0 .. MaxPasswords
    BY SessionAssumption
  <1>2. QED
    BY <1>1 DEF Account, NoPassword, User

\* The initial tables are empty.
LEMMA SessionInit == Init => SessionInv
  <1> SUFFICES ASSUME Init PROVE SessionInv
    OBVIOUS
  <1>1. 0 \in 0 .. MaxPasswords /\ 0 \in 0 .. LastDay /\ 1 \in 1 .. MaxPasswords
    BY SessionAssumption
  <1>2. Absent \in User
    BY AccountType DEF Absent
  <1>3. TypeOK
    BY <1>1, <1>2 DEF Init, TypeOK
  <1>4. RowsAreIssued /\ ReadsAreIssued /\ ReadsAreFresh /\ ThreadIsHeld
    BY DEF Init, RowsAreIssued, ReadsAreIssued, ReadsAreFresh, ThreadIsHeld, Presents, Sound
  <1>5. OneThread /\ EndedForGood
    BY DEF Init, OneThread, EndedForGood, IsLive
  <1>6. QED
    BY <1>3, <1>4, <1>5 DEF SessionInv

\* Revoking keeps rows.
LEMMA RevokeType ==
    ASSUME tokens \in [Tokens -> Token \cup {None}], NEW which
    PROVE  Revoke(which) \in [Tokens -> Token \cup {None}]
  <1>1. ASSUME NEW t \in Tokens, IsLive(t)
        PROVE  [tokens[t] EXCEPT !.revoked = TRUE] \in Token
    BY <1>1 DEF IsLive, Token
  <1>2. QED
    BY <1>1 DEF Revoke

\* Ending sessions keeps the types.
LEMMA CutType ==
    ASSUME TypeOK, RowsAreIssued, NEW which \in SUBSET Tokens,
           NEW requests \in SUBSET Requests, Cut(which, requests)
    PROVE  /\ tokens' \in [Tokens -> Token \cup {None}]
           /\ ended' \subseteq Tokens
           /\ overlapped' \subseteq Requests
  <1>1. tokens' \in [Tokens -> Token \cup {None}]
    BY RevokeType DEF TypeOK, Cut
  <1>2. ASSUME NEW t \in {s \in which \ late : IsLive(s)}
        PROVE  issued[t].family \in Tokens
    BY <1>2 DEF TypeOK, Claims, RowsAreIssued, IsLive
  <1>3. ended' \subseteq Tokens
    BY <1>2 DEF TypeOK, Cut
  <1>4. overlapped' \subseteq Requests
    BY DEF TypeOK, Cut, Overtake
  <1>5. QED
    BY <1>1, <1>3, <1>4

\* Handing out a token keeps the types.
LEMMA IssueType ==
    ASSUME SessionInv, NEW r \in Requests, NEW t \in Tokens, request[r] # Nothing,
           NEW table \in [Tokens -> Token \cup {None}], NEW rivals \in SUBSET Requests,
           Issue(r, t, table, rivals), user' \in [Accounts -> User]
    PROVE  TypeOK'
  <1> DEFINE q == request[r]
             family == IF q.parent = None THEN t ELSE issued[q.parent].family
  <1>1. q \in Request
    BY DEF SessionInv, TypeOK
  <1>2. day \in Int /\ Lifetime \in Int
    BY SessionAssumption DEF SessionInv, TypeOK
  <1>3. family \in Tokens
    <2>1. CASE q.parent = None
      BY <2>1
    <2>2. CASE q.parent # None
      <3>1. issued[q.parent] # None /\ q.parent \in Tokens
        BY <1>1, <2>2 DEF SessionInv, ReadsAreIssued, Presents, Request
      <3>2. QED
        BY <3>1, <2>2 DEF SessionInv, TypeOK, Claims
    <2>3. QED
      BY <2>1, <2>2
  <1>4. [owner |-> q.account, revoked |-> FALSE, expires |-> day + Lifetime] \in Token
    BY <1>1, <1>2 DEF Token, Request
  <1>5. [owner |-> q.account, family |-> family, era |-> q.era,
         expires |-> day + Lifetime] \in Claims
    BY <1>1, <1>2, <1>3 DEF Claims, Request
  <1>6. tokens' \in [Tokens -> Token \cup {None}]
    BY <1>4 DEF Issue
  <1>7. issued' \in [Tokens -> Claims \cup {None}]
    BY <1>5 DEF Issue, SessionInv, TypeOK
  <1>8. undone' \subseteq Accounts
    BY <1>1 DEF Issue, WriteOver, SessionInv, TypeOK, Request
  <1>9. QED
    BY <1>6, <1>7, <1>8 DEF Issue, SessionInv, TypeOK

-----------------------------------------------------------------------------
(* The four sorts of steps.                                                *)

\* What a row says after a revocation.
LEMMA Revoked ==
    ASSUME tokens \in [Tokens -> Token \cup {None}], NEW which, NEW t \in Tokens
    PROVE  LET row == Revoke(which)[t]
           IN  /\ (row # None /\ ~row.revoked) <=> (IsLive(t) /\ t \notin which)
               /\ row # None => tokens[t] # None /\ row.owner = tokens[t].owner
  <1> DEFINE row == Revoke(which)[t]
  <1>1. CASE t \in which /\ IsLive(t)
    <2>1. tokens[t] \in Token
      BY <1>1 DEF IsLive
    <2>2. /\ row.revoked
          /\ row.owner = tokens[t].owner
      BY <1>1, <2>1 DEF Revoke, Token
    <2>3. QED
      BY <1>1, <2>2 DEF IsLive
  <1>2. CASE ~(t \in which /\ IsLive(t))
    <2>1. row = tokens[t]
      BY <1>2 DEF Revoke
    <2>2. QED
      BY <1>2, <2>1 DEF IsLive
  <1>3. QED
    BY <1>1, <1>2

\* A step that at most drops rows, drops requests and has some overtaken.
LEMMA QuietStep ==
    ASSUME SessionInv, TypeOK', UNCHANGED <<issued, chosen, late, ended>>,
           \A t \in Tokens : tokens'[t] \in {tokens[t], None},
           \A r \in Requests : request'[r] \in {request[r], Nothing},
           \A r \in Requests : request'[r] # Nothing /\ r \in overlapped => r \in overlapped'
    PROVE  SessionInv'
  <1> USE DEF SessionInv
  <1>1. \A t \in Tokens : IsLive(t)' => IsLive(t)
    BY DEF IsLive
  <1>2. \A r \in Requests : Sound(r)' => Sound(r) /\ request'[r] = request[r]
    BY DEF Sound
  <1>3. \A r \in Requests : Presents(r)' => Presents(r) /\ request'[r] = request[r]
    BY DEF Presents
  <1>4. RowsAreIssued'
    BY DEF RowsAreIssued
  <1>5. ReadsAreIssued'
    BY <1>3 DEF ReadsAreIssued
  <1>6. ReadsAreFresh'
    BY <1>2, <1>3 DEF ReadsAreFresh
  <1>7. ThreadIsHeld'
    BY <1>1, <1>2, <1>3 DEF ThreadIsHeld
  <1>8. OneThread' /\ EndedForGood'
    BY <1>1 DEF OneThread, EndedForGood
  <1>9. QED
    BY <1>4, <1>5, <1>6, <1>7, <1>8

\* A step by which a request reads the account, and the token it presents.
LEMMA BeginStep ==
    ASSUME SessionInv, TypeOK', UNCHANGED <<tokens, histories>>,
           NEW r \in Requests, request'[r] # Nothing,
           \A q \in Requests \ {r} : request'[q] = request[q],
           request'[r].kind # "refresh" => request'[r].parent = None,
           request'[r].parent = None => request'[r].era = chosen[request'[r].account],
           request'[r].parent # None =>
              /\ request'[r].parent \in Tokens
              /\ IsLive(request'[r].parent)
              /\ request'[r].account = tokens[request'[r].parent].owner
              /\ request'[r].era = issued[request'[r].parent].era
    PROVE  SessionInv'
  <1> USE DEF SessionInv, histories
  <1> DEFINE p == request'[r].parent
  <1>1. \A q \in Requests \ {r} :
          /\ Presents(q)' <=> Presents(q)
          /\ Sound(q)' <=> Sound(q)
    BY DEF Presents, Sound
  <1>2. Presents(r)' <=> p # None
    BY DEF Presents
  <1>3. Sound(r)' => p \notin late
    BY DEF Sound
  <1>4. \A t \in Tokens : IsLive(t)' <=> IsLive(t)
    BY DEF IsLive
  <1>5. p # None => /\ p \in Tokens /\ IsLive(p)
                    /\ issued[p] # None
                    /\ issued[p].owner = request'[r].account
                    /\ issued[p].era = request'[r].era
    BY DEF RowsAreIssued, IsLive
  <1>6. p # None /\ p \notin late =>
          /\ issued[p].family \notin ended
          /\ issued[p].era = chosen[issued[p].owner]
    BY <1>5 DEF EndedForGood
  <1>7. p # None /\ p \notin late =>
          \A s \in Tokens \ late :
              IsLive(s) /\ issued[s].family = issued[p].family => s = p
    BY <1>5 DEF OneThread
  <1>8. \A q \in Requests : 
          Sound(q) /\ Presents(q) /\ p # None /\ p \notin late
            /\ issued[request[q].parent].family = issued[p].family => request[q].parent = p
    BY <1>5 DEF ThreadIsHeld
  <1>9. RowsAreIssued' /\ OneThread' /\ EndedForGood'
    BY <1>4 DEF RowsAreIssued, OneThread, EndedForGood
  <1>10. ReadsAreIssued'
    BY <1>1, <1>2, <1>5 DEF ReadsAreIssued
  <1>11. ReadsAreFresh'
    <2> SUFFICES ASSUME NEW q \in Requests, Sound(q)'
                 PROVE  /\ request'[q].era = chosen[request'[q].account]
                        /\ Presents(q)' => issued[request'[q].parent].family \notin ended
      BY DEF ReadsAreFresh
    <2>1. CASE q = r
      <3>1. CASE p = None
        BY <2>1, <3>1, <1>2
      <3>2. CASE p # None
        BY <2>1, <3>2, <1>2, <1>3, <1>5, <1>6
      <3>3. QED
        BY <3>1, <3>2
    <2>2. CASE q # r
      BY <2>2, <1>1 DEF ReadsAreFresh
    <2>3. QED
      BY <2>1, <2>2
  <1>12. ThreadIsHeld'
    <2> SUFFICES ASSUME NEW q \in Requests, Sound(q)', Presents(q)'
                 PROVE  /\ \A s \in Tokens \ late :
                              IsLive(s) /\ issued[s].family = issued[request'[q].parent].family
                                => s = request'[q].parent
                        /\ \A o \in Requests :
                              /\ Sound(o)' /\ Presents(o)'
                              /\ issued[request'[o].parent].family
                                   = issued[request'[q].parent].family
                              => request'[o].parent = request'[q].parent
      BY <1>4 DEF ThreadIsHeld
    <2>1. CASE q = r
      BY <2>1, <1>1, <1>2, <1>3, <1>7, <1>8
    <2>2. CASE q # r
      BY <2>2, <1>1, <1>2, <1>3, <1>8 DEF ThreadIsHeld
    <2>3. QED
      BY <2>1, <2>2
  <1>13. QED
    BY <1>9, <1>10, <1>11, <1>12

\* A step that ends sessions: whoever presents one of their tokens is overtaken,
\* and a new password ends every session of its account.
LEMMA CutStep ==
    ASSUME SessionInv, TypeOK', UNCHANGED <<request, issued, late>>,
           NEW which \in SUBSET Tokens, NEW requests \in SUBSET Requests,
           Cut(which, requests),
           \A t \in which : Presenting(t) \subseteq requests,
           \A a \in Accounts : \/ chosen'[a] = chosen[a]
                               \/ TokensOf(a) \subseteq which /\ UnderWay(a) \subseteq requests
    PROVE  SessionInv'
  <1> USE DEF SessionInv
  <1>1. tokens' = Revoke(which) /\ tokens \in [Tokens -> Token \cup {None}]
    BY DEF Cut, TypeOK
  <1>2. \A t \in Tokens : IsLive(t)' <=> IsLive(t) /\ t \notin which
    BY <1>1, Revoked DEF IsLive
  <1>3. \A t \in Tokens : tokens'[t] # None =>
           tokens[t] # None /\ tokens'[t].owner = tokens[t].owner
    BY <1>1, Revoked
  <1>4. \A r \in Requests : Presents(r)' <=> Presents(r)
    BY DEF Presents
  <1>5. \A r \in Requests : Sound(r)' => Sound(r) /\ r \notin requests
    BY DEF Sound, Cut, Overtake
  <1>6. ended' = ended \cup {issued[t].family : t \in {s \in which \ late : IsLive(s)}}
    BY DEF Cut
  <1>7. RowsAreIssued'
    <2>1. \A t \in Tokens : IsLive(t) => issued[issued[t].family] # None
      BY DEF RowsAreIssued, IsLive
    <2>2. QED
      BY <1>3, <1>6, <2>1 DEF RowsAreIssued
  <1>8. ReadsAreIssued'
    BY <1>4 DEF ReadsAreIssued
  <1>9. ReadsAreFresh'
    <2> SUFFICES ASSUME NEW r \in Requests, Sound(r)'
                 PROVE  /\ request[r].era = chosen'[request[r].account]
                        /\ Presents(r) => issued[request[r].parent].family \notin ended'
      BY <1>4 DEF ReadsAreFresh
    <2>1. Sound(r) /\ r \notin requests /\ request[r] \in Request
      BY <1>5 DEF Sound, TypeOK
    <2>2. request[r].account \in Accounts /\ r \in UnderWay(request[r].account)
      BY <2>1 DEF Request, UnderWay
    <2>3. request[r].era = chosen'[request[r].account]
      BY <2>1, <2>2 DEF ReadsAreFresh
    <2>4. ASSUME Presents(r), NEW t \in which \ late, IsLive(t),
                 issued[t].family = issued[request[r].parent].family
          PROVE  FALSE
      BY <2>1, <2>4 DEF ThreadIsHeld, Presenting
    <2>5. QED
      BY <1>6, <2>1, <2>3, <2>4 DEF ReadsAreFresh
  <1>10. ThreadIsHeld'
    BY <1>2, <1>4, <1>5 DEF ThreadIsHeld
  <1>11. OneThread'
    BY <1>2 DEF OneThread
  <1>12. EndedForGood'
    <2> SUFFICES ASSUME NEW t \in Tokens \ late, IsLive(t), t \notin which
                 PROVE  /\ issued[t].family \notin ended'
                        /\ issued[t].era = chosen'[issued[t].owner]
      BY <1>2 DEF EndedForGood
    <2>1. issued[t].family \notin ended /\ issued[t].era = chosen[issued[t].owner]
      BY DEF EndedForGood
    <2>2. issued[t].family \notin ended'
      BY <1>6, <2>1 DEF OneThread
    <2>3. issued[t].owner \in Accounts /\ t \in TokensOf(issued[t].owner)
      BY DEF RowsAreIssued, IsLive, TokensOf, TypeOK, Claims
    <2>4. QED
      BY <2>1, <2>2, <2>3
  <1>13. QED
    BY <1>7, <1>8, <1>9, <1>10, <1>11, <1>12

\* A step that hands out a token.
LEMMA IssueStep ==
    ASSUME SessionInv, TypeOK', NEW r \in Requests, NEW t \in Tokens,
           request[r] # Nothing,
           NEW which \in SUBSET Tokens, NEW rivals \in SUBSET Requests,
           Issue(r, t, Revoke(which), rivals),
           request[r].parent # None =>
              request[r].parent \in which /\ rivals = Presenting(request[r].parent)
    PROVE  SessionInv'
  <1> USE DEF SessionInv
  <1> DEFINE q == request[r]
             p == q.parent
             family == IF p = None THEN t ELSE issued[p].family
             sound == r \notin overlapped /\ p \notin late
  <1>1. q \in Request /\ tokens \in [Tokens -> Token \cup {None}]
    BY DEF TypeOK
  <1>2. /\ issued[t] = None
        /\ issued'[t].owner = q.account /\ issued'[t].family = family
        /\ issued'[t].era = q.era
        /\ \A s \in Tokens \ {t} : issued'[s] = issued[s]
        /\ tokens'[t].owner = q.account
        /\ \A s \in Tokens \ {t} : tokens'[s] = Revoke(which)[s]
    BY <1>1, RevokeType DEF Issue, TypeOK
  <1>3. \A s \in Tokens \ {t} :
          /\ IsLive(s)' <=> IsLive(s) /\ s \notin which
          /\ tokens'[s] # None => tokens[s] # None /\ tokens'[s].owner = tokens[s].owner
    BY <1>1, <1>2, Revoked DEF IsLive
  <1>4. /\ t \notin late /\ t \notin ended
        /\ \A s \in Tokens : issued[s] # None => issued[s].family # t
        /\ \A o \in Requests : Presents(o) => request[o].parent # t
    BY <1>2 DEF RowsAreIssued, ReadsAreIssued
  <1>5. /\ late \subseteq late' /\ late' \subseteq late \cup {t}
        /\ t \notin late' => sound
    BY DEF Issue
  <1>6. /\ ended' = ended /\ chosen' = chosen
        /\ request'[r] = Nothing
        /\ \A o \in Requests \ {r} : request'[o] = request[o]
        /\ overlapped' = (overlapped \cup rivals) \ {r}
    BY DEF Issue, TypeOK
  <1>7. \A o \in Requests : Presents(o)' => o # r /\ Presents(o)
    BY <1>6 DEF Presents
  <1>8. \A o \in Requests : Sound(o)' => o # r /\ o \notin rivals /\ Sound(o)
    BY <1>5, <1>6 DEF Sound
  <1>9. p # None => /\ p \in Tokens /\ p # t /\ issued[p] # None
                    /\ issued[p].owner = q.account /\ issued[p].era = q.era
                    /\ p \in which /\ rivals = Presenting(p)
    BY <1>1, <1>2 DEF ReadsAreIssued, Presents, Request
  <1>10. sound => /\ Sound(r)
                  /\ q.era = chosen[q.account]
                  /\ p # None => Presents(r) /\ issued[p].family \notin ended
    BY DEF ReadsAreFresh, Sound, Presents
  \* A good token of the same session could only be the one that was presented.
  <1>11. ASSUME sound, NEW s \in Tokens \ late, s # t, IsLive(s), issued[s].family = family
         PROVE  s \in which
    <2>1. issued[s] # None
      BY <1>11 DEF RowsAreIssued, IsLive
    <2>2. p # None
      BY <1>4, <1>11, <2>1
    <2>3. QED
      BY <1>9, <1>10, <1>11, <2>2 DEF ThreadIsHeld
  \* So could only the one a sound request presents, and that request is a rival.
  <1>12. ASSUME sound, NEW o \in Requests, Sound(o), Presents(o),
                issued[request[o].parent].family = family
         PROVE  o \in rivals
    <2>1. issued[request[o].parent] # None /\ request[o].parent \in Tokens
      BY <1>12 DEF ReadsAreIssued, TypeOK, Request, Presents
    <2>2. p # None
      BY <1>4, <1>12, <2>1
    <2>3. request[o].parent = p
      BY <1>10, <1>12, <2>2 DEF ThreadIsHeld
    <2>4. QED
      BY <1>9, <2>2, <2>3 DEF Presenting
  <1>13. RowsAreIssued'
    <2>1. issued'[t] # None
      <3>1. issued'[t] \in Claims
        <4>1. issued'[t] = [owner |-> q.account, family |-> family, era |-> q.era,
                            expires |-> day + Lifetime]
          BY DEF Issue, TypeOK
        <4>2. family \in Tokens
          BY <1>9 DEF TypeOK, Claims
        <4>3. day + Lifetime \in Int
          BY SessionAssumption DEF TypeOK
        <4>4. QED
          BY <1>1, <4>1, <4>2, <4>3 DEF Claims, Request
      <3>2. QED
        BY <3>1, SessionAssumption
    <2>2. issued'[family] # None
      BY <1>2, <1>9, <2>1 DEF RowsAreIssued, TypeOK, Claims
    <2>3. \A s \in Tokens \ {t} : issued'[s] # None => issued'[issued'[s].family] # None
      BY <1>2, <2>1 DEF RowsAreIssued, TypeOK, Claims
    <2>4. \A s \in Tokens : tokens'[s] # None =>
            issued'[s] # None /\ issued'[s].owner = tokens'[s].owner
      BY <1>2, <1>3, <2>1 DEF RowsAreIssued
    <2>5. \A s \in late' \cup ended' : issued'[s] # None
      BY <1>2, <1>5, <1>6, <2>1 DEF RowsAreIssued, TypeOK
    <2>6. QED
      BY <1>2, <2>1, <2>2, <2>3, <2>4, <2>5 DEF RowsAreIssued
  <1>14. \A o \in Requests : Presents(o)' =>
           /\ request'[o] = request[o] /\ request[o].parent \in Tokens \ {t}
           /\ issued'[request[o].parent] = issued[request[o].parent]
    BY <1>2, <1>4, <1>6, <1>7 DEF Presents, TypeOK, Request
  <1>15. ReadsAreIssued'
    BY <1>6, <1>7, <1>14 DEF ReadsAreIssued
  <1>16. ReadsAreFresh'
    BY <1>6, <1>7, <1>8, <1>14 DEF ReadsAreFresh
  <1>17. ThreadIsHeld'
    <2> SUFFICES ASSUME NEW o \in Requests, Sound(o)', Presents(o)'
                 PROVE  /\ \A s \in Tokens \ late' :
                              IsLive(s)' /\ issued'[s].family = issued[request[o].parent].family
                                => s = request[o].parent
                        /\ \A u \in Requests :
                              /\ Sound(u)' /\ Presents(u)'
                              /\ issued[request[u].parent].family
                                   = issued[request[o].parent].family
                              => request[u].parent = request[o].parent
      BY <1>14 DEF ThreadIsHeld
    <2>1. Sound(o) /\ Presents(o) /\ o \notin rivals
      BY <1>7, <1>8
    <2>2. ASSUME NEW s \in Tokens \ late', IsLive(s)',
                 issued'[s].family = issued[request[o].parent].family
          PROVE  s = request[o].parent
      <3>1. s # t
        BY <1>2, <1>5, <1>12, <2>1, <2>2
      <3>2. IsLive(s) /\ issued'[s] = issued[s] /\ s \notin late
        BY <1>2, <1>3, <1>5, <2>2, <3>1
      <3>3. QED
        BY <2>1, <2>2, <3>2 DEF ThreadIsHeld
    <2>3. QED
      BY <1>7, <1>8, <2>1, <2>2 DEF ThreadIsHeld
  <1>18. OneThread'
    <2>1. ASSUME NEW s \in Tokens \ late', IsLive(s)', s # t, t \notin late',
                 issued'[s].family = issued'[t].family
          PROVE  FALSE
      BY <1>2, <1>3, <1>5, <1>11, <2>1
    <2>2. ASSUME NEW s \in Tokens \ late', NEW u \in Tokens \ late', IsLive(s)', IsLive(u)',
                 s # t, u # t, issued'[s].family = issued'[u].family
          PROVE  s = u
      BY <1>2, <1>3, <1>5, <2>2 DEF OneThread
    <2>3. QED
      BY <2>1, <2>2 DEF OneThread
  <1>19. EndedForGood'
    <2>1. ASSUME t \notin late'
          PROVE  family \notin ended /\ q.era = chosen[q.account]
      BY <1>4, <1>5, <1>10, <2>1
    <2>2. ASSUME NEW s \in Tokens \ late', IsLive(s)', s # t
          PROVE  /\ issued[s].family \notin ended
                 /\ issued[s].era = chosen[issued[s].owner]
      BY <1>3, <1>5, <2>2 DEF EndedForGood
    <2>3. QED
      BY <1>2, <1>6, <2>1, <2>2 DEF EndedForGood
  <1>20. QED
    BY <1>13, <1>15, <1>16, <1>17, <1>18, <1>19

-----------------------------------------------------------------------------
(* Every action is a step of one of the four sorts.                        *)

LEMMA Begins ==
    ASSUME SessionInv, NEW r \in Requests, NEW a \in Accounts, NEW kind \in Kinds,
           NEW parent \in Tokens \cup {None}, NEW writes \in 0 .. MaxPasswords,
           NEW era \in 1 .. MaxPasswords,
           Begin(r, a, kind, parent, writes, era),
           kind # "refresh" => parent = None,
           parent = None => era = chosen[a],
           parent # None => /\ IsLive(parent)
                            /\ a = tokens[parent].owner
                            /\ era = issued[parent].era
    PROVE  SessionInv'
  <1> DEFINE q == [kind |-> kind, account |-> a, parent |-> parent, writes |-> writes,
                   era |-> era]
  <1>1. request \in [Requests -> Request \cup {Nothing}] /\ q \in Request
    BY DEF SessionInv, TypeOK, Request
  <1>2. request' = [request EXCEPT ![r] = q]
    BY DEF Begin
  <1>3. request'[r] = q /\ \A o \in Requests \ {r} : request'[o] = request[o]
    BY <1>1, <1>2
  <1>4. request' \in [Requests -> Request \cup {Nothing}]
    BY <1>1, <1>2
  <1>5. UNCHANGED <<day, user, tokens, histories>>
    BY DEF Begin
  <1>6. TypeOK'
    BY <1>4, <1>5 DEF SessionInv, TypeOK, histories
  <1>7. q # Nothing
    BY DEF Nothing, Kinds
  <1>8. QED
    BY <1>3, <1>5, <1>6, <1>7, BeginStep

LEMMA BeginLoginSound ==
    ASSUME SessionInv, NEW r \in Requests, NEW a \in Accounts, BeginLogin(r, a)
    PROVE  SessionInv'
  <1>1. /\ user[a].password \in 0 .. MaxPasswords
        /\ NoPassword \in 0 .. MaxPasswords
        /\ chosen[a] \in 1 .. MaxPasswords
    BY SessionAssumption DEF SessionInv, TypeOK, User, NoPassword
  <1>2. PICK writes \in 0 .. MaxPasswords : Begin(r, a, "login", None, writes, chosen[a])
    BY <1>1 DEF BeginLogin
  <1>3. QED
    BY <1>1, <1>2, Begins DEF Kinds

LEMMA BeginOtherSound ==
    ASSUME SessionInv, NEW r \in Requests, NEW a \in Accounts,
           BeginVerify(r, a) \/ BeginGoogle(r, a) \/ BeginSetPassword(r, a)
    PROVE  SessionInv'
  <1>1. /\ NoPassword \in 0 .. MaxPasswords
        /\ chosen[a] \in 1 .. MaxPasswords /\ chosen[a] \in 0 .. MaxPasswords
    BY SessionAssumption DEF SessionInv, TypeOK, NoPassword
  <1>2. PICK kind \in Kinds \ {"refresh"}, writes \in {NoPassword, chosen[a]} :
          Begin(r, a, kind, None, writes, chosen[a])
    BY DEF BeginVerify, BeginGoogle, BeginSetPassword, Kinds
  <1>3. QED
    BY <1>1, <1>2, Begins

LEMMA BeginRefreshSound ==
    ASSUME SessionInv, NEW r \in Requests, NEW t \in Tokens, BeginRefresh(r, t)
    PROVE  SessionInv'
  <1>1. tokens[t] \in Token /\ issued[t] \in Claims
    BY DEF BeginRefresh, SessionInv, TypeOK, RowsAreIssued, IsLive
  <1>2. NoPassword \in 0 .. MaxPasswords
    BY SessionAssumption DEF NoPassword
  <1>3. QED
    BY <1>1, <1>2, SessionAssumption, Begins DEF BeginRefresh, Token, Claims, Kinds

\* What the ways in write of an account keeps its type.
LEMMA FinishUser ==
    ASSUME SessionInv, NEW r \in Requests, NEW t \in Tokens, request[r] \in Request,
           Finish(r, t)
    PROVE  user' \in [Accounts -> User]
  <1> DEFINE q == request[r]
  <1>1. /\ user \in [Accounts -> User] /\ q.account \in Accounts
        /\ q.writes \in 0 .. MaxPasswords
    BY DEF SessionInv, TypeOK, Request
  <1>2. CASE FinishLogin(r, t)
    BY <1>1, <1>2 DEF FinishLogin, User
  <1>3. CASE FinishVerify(r, t)
    BY <1>1, <1>3 DEF FinishVerify, User
  <1>4. CASE FinishLink(r, t)
    BY <1>1, <1>4 DEF FinishLink, User
  <1>5. CASE FinishCreate(r, t)
    <2>1. NewUser \in User
      BY AccountType DEF NewUser
    <2>2. [NewUser EXCEPT !.verified = TRUE, !.linked = TRUE] \in User
      BY <2>1 DEF User
    <2>3. QED
      BY <1>1, <1>5, <2>2 DEF FinishCreate
  <1>6. CASE FinishGoogle(r, t) \/ FinishRefresh(r, t)
    BY <1>1, <1>6 DEF FinishGoogle, FinishRefresh
  <1>7. QED
    BY <1>2, <1>3, <1>4, <1>5, <1>6 DEF Finish

LEMMA FinishSound ==
    ASSUME SessionInv, NEW r \in Requests, NEW t \in Tokens, Finish(r, t)
    PROVE  SessionInv'
  <1> DEFINE q == request[r]
             p == q.parent
  <1>1. q # Nothing /\ q \in Request
    <2>1. q.kind # "none"
      BY DEF Finish, FinishLogin, FinishVerify, FinishLink, FinishCreate, FinishGoogle,
             FinishRefresh
    <2>2. QED
      BY <2>1 DEF Nothing, SessionInv, TypeOK
  <1>2. tokens \in [Tokens -> Token \cup {None}]
    BY DEF SessionInv, TypeOK
  <1>3. tokens = Revoke({})
    BY <1>2 DEF Revoke
  <1>4. PICK which \in SUBSET Tokens, rivals \in SUBSET Requests :
          /\ Issue(r, t, Revoke(which), rivals)
          /\ p # None => p \in which /\ rivals = Presenting(p)
    <2>1. CASE FinishRefresh(r, t)
      <3>1. Issue(r, t, Revoke({p} \cap Tokens), Presenting(p))
        <4>1. Revoke({p}) = Revoke({p} \cap Tokens)
          BY DEF Revoke
        <4>2. QED
          BY <2>1, <4>1 DEF FinishRefresh
      <3>2. p # None => p \in Tokens
        BY <1>1 DEF Request
      <3>3. Presenting(p) \in SUBSET Requests
        BY DEF Presenting
      <3>4. QED
        BY <3>1, <3>2, <3>3
    <2>2. CASE ~FinishRefresh(r, t)
      <3>1. q.kind # "refresh" /\ Issue(r, t, tokens, {})
        BY <2>2 DEF Finish, FinishLogin, FinishVerify, FinishLink, FinishCreate, FinishGoogle
      <3>2. p = None
        BY <1>1, <3>1 DEF SessionInv, ReadsAreIssued
      <3>3. QED
        BY <1>3, <3>1, <3>2
    <2>3. QED
      BY <2>1, <2>2
  <1>5. user' \in [Accounts -> User]
    BY <1>1, FinishUser
  <1>6. Revoke(which) \in [Tokens -> Token \cup {None}]
    BY <1>2, RevokeType
  <1>7. TypeOK'
    BY <1>1, <1>4, <1>5, <1>6, IssueType
  <1>8. QED
    BY <1>1, <1>4, <1>7, IssueStep

\* The ways out that leave the accounts alone.
LEMMA CutSound ==
    ASSUME SessionInv, NEW which \in SUBSET Tokens, NEW requests \in SUBSET Requests,
           Cut(which, requests),
           \A t \in which : Presenting(t) \subseteq requests,
           UNCHANGED <<day, user, request, issued, chosen, late, undone>>
    PROVE  SessionInv'
  <1>1. TypeOK'
    BY CutType DEF SessionInv, TypeOK
  <1>2. QED
    BY <1>1, CutStep

LEMMA CutAllSound ==
    ASSUME SessionInv, NEW a, CutAll(a),
           UNCHANGED <<day, user, request, issued, chosen, late, undone>>
    PROVE  SessionInv'
  <1> DEFINE requests == UNION {Presenting(t) : t \in TokensOf(a)}
  <1>1. TokensOf(a) \in SUBSET Tokens /\ requests \in SUBSET Requests
    BY DEF TokensOf, Presenting
  <1>2. \A t \in TokensOf(a) : Presenting(t) \subseteq requests
    OBVIOUS
  <1>3. Cut(TokensOf(a), requests)
    BY DEF CutAll
  <1> HIDE DEF requests
  <1>4. QED
    BY <1>1, <1>2, <1>3, CutSound

LEMMA LogoutSound ==
    ASSUME SessionInv, NEW t \in Tokens, Logout(t)
    PROVE  SessionInv'
  <1>1. Presenting(t) \in SUBSET Requests /\ {t} \in SUBSET Tokens
    BY DEF Presenting
  <1>2. QED
    BY <1>1, CutSound DEF Logout

\* A new password.
LEMMA ReplacePasswordSound ==
    ASSUME SessionInv, NEW a \in Accounts, ReplacePassword(a)
    PROVE  SessionInv'
  <1>1. /\ user \in [Accounts -> User] /\ chosen \in [Accounts -> 1 .. MaxPasswords]
        /\ chosen[a] + 1 \in 1 .. MaxPasswords
    BY SessionAssumption DEF SessionInv, TypeOK, ReplacePassword
  <1>2. user' \in [Accounts -> User]
    <2>1. PICK n \in 0 .. MaxPasswords : n = chosen[a] + 1
      BY <1>1, SessionAssumption
    <2>2. user' = [user EXCEPT ![a].password = n, ![a].weak = FALSE]
      BY <2>1 DEF ReplacePassword
    <2>3. QED
      BY <1>1, <2>2 DEF User
  <1>3. chosen' \in [Accounts -> 1 .. MaxPasswords]
    BY <1>1 DEF ReplacePassword
  <1>4. \A b \in Accounts \ {a} : chosen'[b] = chosen[b]
    BY <1>1 DEF ReplacePassword
  <1>5. TokensOf(a) \in SUBSET Tokens /\ UnderWay(a) \in SUBSET Requests
    BY DEF TokensOf, UnderWay
  <1>6. \A t \in TokensOf(a) : Presenting(t) \subseteq UnderWay(a)
    <2> SUFFICES ASSUME NEW t \in TokensOf(a), NEW r \in Requests, request[r].parent = t
                 PROVE  request[r].account = a
      BY DEF Presenting, UnderWay
    <2>1. Presents(r)
      BY SessionAssumption DEF Presents, TokensOf, Nothing
    <2>2. QED
      BY <2>1 DEF TokensOf, SessionInv, RowsAreIssued, ReadsAreIssued
  <1>7. Cut(TokensOf(a), UnderWay(a)) /\ UNCHANGED <<day, request, issued, late>>
    BY DEF ReplacePassword
  <1>8. TypeOK'
    <2>1. undone' \subseteq Accounts
      BY DEF ReplacePassword, SessionInv, TypeOK
    <2>2. QED
      BY <1>2, <1>3, <1>5, <1>7, <2>1, CutType DEF SessionInv, TypeOK
  <1>9. QED
    BY <1>4, <1>5, <1>6, <1>7, <1>8, CutStep

\* The steps that hand out, revoke and read nothing.
LEMMA QuietSound ==
    ASSUME SessionInv,
           \/ \E r \in Requests : FinishSetPassword(r) \/ Abandon(r)
           \/ \E a \in Accounts : \/ Register(a) \/ Enable(a)
                                  \/ Disable(a) \/ DeleteAccount(a)
           \/ Purge \/ Midnight
           \/ UNCHANGED vars
    PROVE  SessionInv'
  <1>1. /\ user \in [Accounts -> User] /\ chosen \in [Accounts -> 1 .. MaxPasswords]
        /\ tokens \in [Tokens -> Token \cup {None}]
        /\ day \in 0 .. LastDay /\ LastDay \in Nat
    BY SessionAssumption DEF SessionInv, TypeOK
  <1>2. ASSUME NEW a \in Accounts PROVE chosen[a] \in 0 .. MaxPasswords
    BY <1>1, SessionAssumption
  <1>3. CASE \E r \in Requests : Abandon(r)
    <2>1. PICK r \in Requests : Abandon(r)
      BY <1>3
    <2>2. TypeOK'
      BY <2>1 DEF Abandon, SessionInv, TypeOK
    <2>3. QED
      BY <2>1, <2>2, QuietStep DEF Abandon, SessionInv, TypeOK
  <1>4. ASSUME NEW a \in Accounts, Register(a)
        PROVE  SessionInv'
    <2>1. NewUser \in User
      BY AccountType DEF NewUser
    <2>2. [NewUser EXCEPT !.password = chosen[a]] \in User
      BY <1>2, <2>1 DEF User
    <2>3. TypeOK'
      BY <1>1, <1>4, <2>2 DEF Register, SessionInv, TypeOK, histories
    <2>4. QED
      BY <1>4, <2>3, QuietStep DEF Register, histories
  <1>5. ASSUME NEW r \in Requests, FinishSetPassword(r)
        PROVE  SessionInv'
    <2>1. request[r] \in Request
      <3>1. request[r].kind = "set"
        BY <1>5 DEF FinishSetPassword
      <3>2. QED
        BY <3>1 DEF Nothing, SessionInv, TypeOK
    <2>2. user' \in [Accounts -> User]
      BY <1>1, <1>5, <2>1 DEF FinishSetPassword, User, Request
    <2>3. undone' \subseteq Accounts
      BY <1>5, <2>1 DEF FinishSetPassword, WriteOver, SessionInv, TypeOK, Request
    <2>4. TypeOK'
      BY <1>5, <2>2, <2>3 DEF FinishSetPassword, SessionInv, TypeOK
    <2>5. QED
      BY <1>5, <2>4, QuietStep DEF FinishSetPassword, SessionInv, TypeOK
  <1>6. ASSUME NEW a \in Accounts, Enable(a)
        PROVE  SessionInv'
    <2>1. user' \in [Accounts -> User]
      BY <1>1, <1>6 DEF Enable, User
    <2>2. TypeOK'
      BY <1>6, <2>1 DEF Enable, SessionInv, TypeOK, histories
    <2>3. QED
      BY <1>6, <2>2, QuietStep DEF Enable, histories
  <1>7. ASSUME NEW a \in Accounts, Disable(a)
        PROVE  SessionInv'
    <2>1. user' \in [Accounts -> User]
      BY <1>1, <1>7 DEF Disable, User
    <2>2. TypeOK'
      BY <1>7, <2>1 DEF Disable, SessionInv, TypeOK, Overtake, UnderWay
    <2>3. QED
      BY <1>7, <2>2, QuietStep DEF Disable, Overtake
  <1>8. ASSUME NEW a \in Accounts, DeleteAccount(a)
        PROVE  SessionInv'
    <2>1. Gone \in User
      BY AccountType DEF Gone
    <2>2. TypeOK'
      BY <1>1, <1>8, <2>1 DEF DeleteAccount, SessionInv, TypeOK, histories
    <2>3. QED
      BY <1>8, <2>2, QuietStep DEF DeleteAccount, histories
  <1>9. CASE Purge
    <2>1. TypeOK'
      BY <1>1, <1>9 DEF Purge, SessionInv, TypeOK, histories
    <2>2. QED
      BY <1>9, <2>1, QuietStep DEF Purge, histories
  <1>10. CASE Midnight
    <2>1. user' \in [Accounts -> User]
      <3>1. ASSUME NEW a \in Accounts, NEW weak \in BOOLEAN
            PROVE  [user[a] EXCEPT !.weak = weak] \in User
        BY <1>1 DEF User
      <3>2. ASSUME NEW a \in Accounts
            PROVE  [user[a] EXCEPT !.weak = user[a].password # NoPassword] \in User
        <4>1. (user[a].password # NoPassword) \in BOOLEAN
          OBVIOUS
        <4>2. QED
          BY <3>1, <4>1, Zenon
      <3>3. QED
        BY <1>1, <1>10, <3>2, Zenon DEF Midnight
    <2>2. day' \in 0 .. LastDay
      BY <1>1, <1>10 DEF Midnight
    <2>3. TypeOK'
      BY <1>10, <2>1, <2>2 DEF Midnight, SessionInv, TypeOK, histories
    <2>4. QED
      BY <1>10, <2>3, QuietStep DEF Midnight, histories
  <1>11. CASE UNCHANGED vars
    <2>1. TypeOK'
      BY <1>11 DEF vars, histories, SessionInv, TypeOK
    <2>2. QED
      BY <1>11, <2>1, QuietStep DEF vars, histories
  <1>12. QED
    BY <1>3, <1>4, <1>5, <1>6, <1>7, <1>8, <1>9, <1>10, <1>11

LEMMA SessionStep == SessionInv /\ [Next]_vars => SessionInv'
  <1> SUFFICES ASSUME SessionInv, [Next]_vars PROVE SessionInv'
    OBVIOUS
  <1>1. ASSUME NEW r \in Requests, NEW a \in Accounts,
               \/ BeginLogin(r, a) \/ BeginVerify(r, a)
               \/ BeginGoogle(r, a) \/ BeginSetPassword(r, a)
        PROVE  SessionInv'
    BY <1>1, BeginLoginSound, BeginOtherSound
  <1>2. ASSUME NEW r \in Requests, NEW t \in Tokens, BeginRefresh(r, t) \/ Finish(r, t)
        PROVE  SessionInv'
    BY <1>2, BeginRefreshSound, FinishSound
  <1>3. ASSUME NEW t \in Tokens, Replay(t) \/ RefreshDisabled(t) \/ Logout(t)
        PROVE  SessionInv'
    <2>1. CASE Replay(t)
      BY <2>1, CutAllSound DEF Replay
    <2>2. CASE RefreshDisabled(t)
      BY <2>2, CutAllSound DEF RefreshDisabled
    <2>3. CASE Logout(t)
      BY <2>3, LogoutSound
    <2>4. QED
      BY <1>3, <2>1, <2>2, <2>3
  <1>4. ASSUME NEW a \in Accounts, ReplacePassword(a)
        PROVE  SessionInv'
    BY <1>4, ReplacePasswordSound
  <1>5. QED
    BY <1>1, <1>2, <1>3, <1>4, QuietSound DEF Next

-----------------------------------------------------------------------------
(* What holds of every behaviour.                                          *)

LEMMA SessionsSound == Spec => []SessionInv
  BY SessionInit, SessionStep, PTL DEF Spec

\* Every table keeps its type, whatever the requests that overlap
\* (models/db/user_db.py).
THEOREM SessionsTyped == Spec => []TypeOK
  <1>1. SessionInv => TypeOK
    BY DEF SessionInv
  <1>2. QED
    BY <1>1, SessionsSound, PTL

\* A session is one thread of tokens: no rotation, replay, logout, purge or new
\* password leaves two good tokens of the same session, unless two requests
\* presented one token at the same time (email_password.refresh).
THEOREM SessionIsOneThread == Spec => []OneThread
  <1>1. SessionInv => OneThread
    BY DEF SessionInv
  <1>2. QED
    BY <1>1, SessionsSound, PTL

\* A session that a logout, a replay, a new password or a refresh of a disabled
\* account ended has no good token any more, nor has one opened under a former
\* password, but for what a request under way at that moment handed out
\* (refresh_token_repository.revoke and revoke_all).
THEOREM SessionEndsForGood == Spec => []EndedForGood
  <1>1. SessionInv => EndedForGood
    BY DEF SessionInv
  <1>2. QED
    BY <1>1, SessionsSound, PTL

-----------------------------------------------------------------------------
(* What the sessions owe to the accounts they are of: only a verified      *)
(* address holds one, a disabled account is given none, the password       *)
(* chosen last opens the account, and a token presented twice is           *)
(* recognised as long as it can be presented.                              *)

\* An account that is not there yet is nobody's; an identity of Google is only
\* linked to a verified address.
AccountsAreSound ==
    \A a \in Accounts :
        /\ user[a].stage = "absent" => ~user[a].verified /\ user[a].active
        /\ user[a].linked => user[a].verified

\* Whoever has a row, or is about to have one on the word of the account, is
\* verified; an account that is gone has no row and gets none.
OwnersAreVerified ==
    /\ \A t \in Tokens : tokens[t] # None => user[tokens[t].owner].verified
    /\ \A r \in Requests : request[r].kind \in {"login", "google", "refresh"} =>
          user[request[r].account].verified \/ user[request[r].account].stage = "gone"

\* An account disabled during a request has overtaken it.
ReadersAreActive ==
    \A r \in Requests \ overlapped :
        request[r] # Nothing => user[request[r].account].active

\* A request under way that is to write a password.
Writes(r) == request[r] # Nothing /\ request[r].writes # NoPassword

\* The password an account has is the last one, unless it was written over; and
\* what a request under way is to write is the last one, or began before it.
PasswordsAreLast ==
    /\ \A a \in Accounts : a \in undone \/ user[a].password \in {NoPassword, chosen[a]}
    /\ \A r \in Requests : Writes(r) =>
          LET a == request[r].account
          IN  /\ request[r].era <= chosen[a]
              /\ \/ a \in undone
                 \/ request[r].era # chosen[a]
                 \/ request[r].writes = chosen[a]

\* A row goes with its account, or when the token is past its expiry.
RowsLast ==
    \A t \in Tokens : issued[t] # None =>
        \/ tokens[t] # None /\ tokens[t].expires = issued[t].expires
        \/ tokens[t] = None /\ issued[t].expires < day
        \/ tokens[t] = None /\ user[issued[t].owner].stage = "gone"

OwnerInv ==
    /\ AccountsAreSound
    /\ OwnersAreVerified
    /\ ReadersAreActive
    /\ PasswordsAreLast
    /\ RowsLast

-----------------------------------------------------------------------------
(* The sorts of steps.                                                     *)

\* A revocation keeps what a row says, but for its being good.
LEMMA RevokedRow ==
    ASSUME tokens \in [Tokens -> Token \cup {None}], NEW which, NEW t \in Tokens
    PROVE  LET row == Revoke(which)[t]
           IN  /\ row = None <=> tokens[t] = None
               /\ row # None => row.owner = tokens[t].owner /\ row.expires = tokens[t].expires
  <1>1. CASE t \in which /\ IsLive(t)
    <2>1. tokens[t] \in Token
      BY <1>1 DEF IsLive
    <2>2. /\ Revoke(which)[t] \in Token
          /\ Revoke(which)[t].owner = tokens[t].owner
          /\ Revoke(which)[t].expires = tokens[t].expires
      BY <1>1, <2>1 DEF Revoke, Token
    <2>3. QED
      BY <1>1, <2>2, SessionAssumption DEF IsLive
  <1>2. CASE ~(t \in which /\ IsLive(t))
    BY <1>2 DEF Revoke
  <1>3. QED
    BY <1>1, <1>2

\* The requests of an account that are under way.
Serving(a) == {r \in UnderWay(a) : request[r] # Nothing}

\* A step that keeps the accounts but for their being active, or for a password
\* that is the last one, drops requests and rows that are past their expiry, and
\* has requests overtaken.
LEMMA QuietKeeps ==
    ASSUME SessionInv, TypeOK', OwnerInv, UNCHANGED <<issued, chosen, late>>,
           day' >= day,
           \A a \in Accounts : /\ user'[a].stage = user[a].stage
                               /\ user'[a].verified <=> user[a].verified
                               /\ user'[a].linked <=> user[a].linked
                               /\ \/ user[a].active => user'[a].active
                                  \/ user[a].stage = "open" /\ Serving(a) \subseteq overlapped',
           \/ PasswordsAreLast'
           \/ /\ undone' = undone
              /\ \A a \in Accounts : user'[a].password = user[a].password,
           \A t \in Tokens :
              /\ tokens'[t] # None => /\ tokens[t] # None
                                      /\ tokens'[t].owner = tokens[t].owner
                                      /\ tokens'[t].expires = tokens[t].expires
              /\ tokens'[t] = None => tokens[t] = None \/ tokens[t].expires < day',
           \A r \in Requests : request'[r] \in {request[r], Nothing},
           \A r \in Requests : request'[r] # Nothing /\ r \in overlapped => r \in overlapped'
    PROVE  OwnerInv'
  <1> USE DEF OwnerInv
  <1>1. \A r \in Requests \ overlapped' : request'[r] # Nothing =>
          /\ request'[r] = request[r] /\ r \notin overlapped
          /\ request[r].account \in Accounts
    BY DEF SessionInv, TypeOK, Request
  <1>2. AccountsAreSound'
    BY DEF AccountsAreSound
  <1>3. OwnersAreVerified'
    <2>1. \A t \in Tokens : tokens'[t] # None => user'[tokens'[t].owner].verified
      BY DEF OwnersAreVerified, SessionInv, TypeOK, Token
    <2>2. ASSUME NEW r \in Requests, request'[r].kind \in {"login", "google", "refresh"}
          PROVE  user'[request'[r].account].verified \/ user'[request'[r].account].stage = "gone"
      <3>1. request'[r] = request[r] /\ request[r] \in Request
        BY <2>2 DEF Nothing, SessionInv, TypeOK
      <3>2. QED
        BY <2>2, <3>1 DEF OwnersAreVerified, Request
    <2>3. QED
      BY <2>1, <2>2 DEF OwnersAreVerified
  <1>4. ReadersAreActive'
    BY <1>1 DEF ReadersAreActive, UnderWay, Serving
  <1>5. PasswordsAreLast'
    <2> SUFFICES ASSUME undone' = undone,
                        \A a \in Accounts : user'[a].password = user[a].password
                 PROVE  PasswordsAreLast'
      OBVIOUS
    <2>1. \A r \in Requests : Writes(r)' => Writes(r) /\ request'[r] = request[r]
      BY DEF Writes
    <2>2. QED
      BY <2>1 DEF PasswordsAreLast
  <1>6. RowsLast'
    <2> SUFFICES ASSUME NEW t \in Tokens, issued[t] # None
                 PROVE  \/ tokens'[t] # None /\ tokens'[t].expires = issued[t].expires
                        \/ tokens'[t] = None /\ issued[t].expires < day'
                        \/ tokens'[t] = None /\ user'[issued[t].owner].stage = "gone"
      BY DEF RowsLast
    <2>1. /\ issued[t] \in Claims /\ issued[t].owner \in Accounts /\ issued[t].expires \in Int
          /\ day \in Int /\ day' \in Int
      BY DEF SessionInv, TypeOK, Claims
    <2>2. QED
      BY <2>1 DEF RowsLast
  <1>7. QED
    BY <1>2, <1>3, <1>4, <1>5, <1>6

\* A step that changes one account, and with a new password or the end of the
\* account overtakes its requests and ends its rows.
LEMMA AccountKeeps ==
    ASSUME SessionInv, TypeOK', OwnerInv, UNCHANGED <<day, issued, late, request>>,
           NEW a \in Accounts,
           \A b \in Accounts \ {a} : user'[b] = user[b] /\ chosen'[b] = chosen[b],
           user[a].stage # "gone", user'[a].stage # "absent",
           user'[a].linked => user'[a].verified,
           user[a].active => user'[a].active,
           user'[a].password \in {NoPassword, chosen'[a]},
           \/ chosen'[a] = chosen[a] /\ undone' = undone
           \/ chosen'[a] = chosen[a] + 1 /\ undone' = undone \ {a},
           user[a].verified => user'[a].verified \/ user'[a].stage = "gone",
           \A t \in Tokens :
              /\ tokens'[t] # None => /\ tokens[t] # None
                                      /\ tokens'[t].owner = tokens[t].owner
                                      /\ tokens'[t].expires = tokens[t].expires
                                      /\ user'[a].stage = "gone" => tokens'[t].owner # a
              /\ tokens'[t] = None =>
                    \/ tokens[t] = None
                    \/ tokens[t].owner = a /\ user'[a].stage = "gone",
           overlapped \subseteq overlapped'
    PROVE  OwnerInv'
  <1> USE DEF OwnerInv
  <1>1. \A r \in Requests : request[r] # Nothing => request[r].account \in Accounts
    BY DEF SessionInv, TypeOK, Request
  <1>2. AccountsAreSound'
    BY DEF AccountsAreSound
  <1>3. OwnersAreVerified'
    <2>1. ASSUME NEW t \in Tokens, tokens'[t] # None
          PROVE  user'[tokens'[t].owner].verified
      <3>1. tokens[t].owner \in Accounts /\ user[tokens[t].owner].verified
        BY <2>1 DEF OwnersAreVerified, SessionInv, TypeOK, Token
      <3>2. QED
        BY <2>1, <3>1
    <2>2. ASSUME NEW r \in Requests, request[r].kind \in {"login", "google", "refresh"}
          PROVE  user'[request[r].account].verified \/ user'[request[r].account].stage = "gone"
      <3>1. request[r].account \in Accounts
        BY <1>1, <2>2 DEF Nothing
      <3>2. QED
        BY <2>2, <3>1 DEF OwnersAreVerified
    <2>3. QED
      BY <2>1, <2>2 DEF OwnersAreVerified
  <1>4. ReadersAreActive'
    BY <1>1 DEF ReadersAreActive
  <1>5. PasswordsAreLast'
    <2>1. \A r \in Requests : Writes(r)' <=> Writes(r)
      BY DEF Writes
    <2>2. \A b \in Accounts : b \in undone' \/ user'[b].password \in {NoPassword, chosen'[b]}
      BY DEF PasswordsAreLast
    <2>3. ASSUME NEW r \in Requests, Writes(r), NEW b, b = request[r].account
          PROVE  /\ request[r].era <= chosen'[b]
                 /\ \/ b \in undone'
                    \/ request[r].era # chosen'[b]
                    \/ request[r].writes = chosen'[b]
      <3>1. b \in Accounts /\ request[r].era \in Int /\ chosen[b] \in Int
        BY <1>1, <2>3 DEF Writes, SessionInv, TypeOK, Request
      <3>2. /\ request[r].era <= chosen[b]
            /\ b \in undone \/ request[r].era # chosen[b] \/ request[r].writes = chosen[b]
        BY <2>3 DEF PasswordsAreLast
      <3>3. CASE b = a /\ chosen'[a] = chosen[a] + 1
        BY <3>1, <3>2, <3>3
      <3>4. CASE ~(b = a /\ chosen'[a] = chosen[a] + 1)
        BY <3>1, <3>2, <3>4
      <3>5. QED
        BY <3>3, <3>4
    <2>4. QED
      BY <2>1, <2>2, <2>3 DEF PasswordsAreLast
  <1>6. RowsLast'
    <2> SUFFICES ASSUME NEW t \in Tokens, issued[t] # None
                 PROVE  \/ tokens'[t] # None /\ tokens'[t].expires = issued[t].expires
                        \/ tokens'[t] = None /\ issued[t].expires < day
                        \/ tokens'[t] = None /\ user'[issued[t].owner].stage = "gone"
      BY DEF RowsLast
    <2>1. /\ issued[t].owner \in Accounts
          /\ tokens[t] # None => issued[t].owner = tokens[t].owner
      BY DEF SessionInv, TypeOK, Claims, RowsAreIssued
    <2>2. QED
      BY <2>1 DEF RowsLast
  <1>7. QED
    BY <1>2, <1>3, <1>4, <1>5, <1>6

\* A step by which a request ends and may write the password it has.
LEMMA PasswordWritten ==
    ASSUME SessionInv, OwnerInv, NEW r \in Requests, request[r] # Nothing,
           request'[r] = Nothing,
           \A o \in Requests \ {r} : request'[o] = request[o],
           chosen' = chosen, WriteOver(r),
           LET a == request[r].account
           IN  /\ \A b \in Accounts \ {a} : user'[b] = user[b]
               /\ user'[a].password \in {user[a].password, NoPassword, request[r].writes}
    PROVE  PasswordsAreLast'
  <1> USE DEF OwnerInv
  <1> DEFINE a == request[r].account
             over == request[r].writes # NoPassword /\ request[r].era # chosen[a]
  <1>1. undone \subseteq undone' /\ (over => a \in undone')
    BY DEF WriteOver
  <1>2. ASSUME NEW b \in Accounts
        PROVE  b \in undone' \/ user'[b].password \in {NoPassword, chosen[b]}
    <2>1. CASE b = a /\ Writes(r)
      BY <1>1, <2>1 DEF PasswordsAreLast, Writes
    <2>2. CASE b = a /\ ~Writes(r)
      BY <1>1, <2>2 DEF PasswordsAreLast, Writes
    <2>3. CASE b # a
      BY <1>1, <2>3 DEF PasswordsAreLast
    <2>4. QED
      BY <2>1, <2>2, <2>3
  <1>3. \A o \in Requests : Writes(o)' => o # r /\ Writes(o) /\ request'[o] = request[o]
    BY DEF Writes
  <1>4. QED
    BY <1>1, <1>2, <1>3 DEF PasswordsAreLast

\* A step that hands out a token.
LEMMA IssueKeeps ==
    ASSUME SessionInv, TypeOK', OwnerInv, NEW r \in Requests, NEW t \in Tokens,
           request[r] # Nothing, NEW which, NEW rivals,
           Issue(r, t, Revoke(which), rivals),
           LET a == request[r].account
           IN  /\ \A b \in Accounts \ {a} : user'[b] = user[b]
               /\ user'[a].stage = "open" /\ user[a].stage # "gone"
               /\ user'[a].verified
               /\ user[a].active => user'[a].active
               /\ user'[a].password \in {user[a].password, NoPassword, request[r].writes}
    PROVE  OwnerInv'
  <1> USE DEF OwnerInv
  <1> DEFINE a == request[r].account
             p == request[r].parent
  <1>1. /\ a \in Accounts /\ tokens \in [Tokens -> Token \cup {None}]
        /\ \A o \in Requests : request[o] # Nothing => request[o].account \in Accounts
    BY DEF SessionInv, TypeOK, Request
  <1>2. /\ day' = day /\ chosen' = chosen
        /\ issued[t] = None /\ issued'[t].owner = a /\ issued'[t].expires = day + Lifetime
        /\ tokens'[t].owner = a /\ tokens'[t].expires = day + Lifetime /\ tokens'[t] # None
        /\ \A s \in Tokens \ {t} : issued'[s] = issued[s] /\ tokens'[s] = Revoke(which)[s]
    <2>1. tokens' \in [Tokens -> Token \cup {None}] /\ tokens' = [Revoke(which) EXCEPT ![t] =
              [owner |-> a, revoked |-> FALSE, expires |-> day + Lifetime]]
      BY DEF Issue, TypeOK
    <2>2. [owner |-> a, revoked |-> FALSE, expires |-> day + Lifetime] \in Token
      <3>1. day + Lifetime \in Int
        BY SessionAssumption DEF SessionInv, TypeOK
      <3>2. QED
        BY <1>1, <3>1 DEF Token
    <2>3. tokens'[t] # None
      BY <1>1, <2>1, <2>2, RevokeType, SessionAssumption
    <2>4. QED
      BY <1>1, <2>1, <2>3, RevokeType DEF Issue, SessionInv, TypeOK
  <1>3. /\ request'[r] = Nothing
        /\ \A o \in Requests \ {r} : request'[o] = request[o]
        /\ overlapped \subseteq overlapped' \cup {r}
        /\ late \subseteq late'
        /\ r \in overlapped => t \in late'
    BY DEF Issue, SessionInv, TypeOK
  <1>4. \A s \in Tokens \ {t} :
          /\ tokens'[s] = None <=> tokens[s] = None
          /\ tokens'[s] # None => /\ tokens'[s].owner = tokens[s].owner
                                  /\ tokens'[s].expires = tokens[s].expires
    BY <1>1, <1>2, RevokedRow
  <1>5. AccountsAreSound'
    BY <1>1 DEF AccountsAreSound
  <1>6. OwnersAreVerified'
    <2>1. ASSUME NEW s \in Tokens, tokens'[s] # None
          PROVE  user'[tokens'[s].owner].verified
      <3>1. CASE s = t
        BY <1>2, <3>1
      <3>2. CASE s # t
        <4>1. tokens[s].owner \in Accounts /\ user[tokens[s].owner].verified
          BY <1>1, <1>4, <2>1, <3>2 DEF OwnersAreVerified, Token
        <4>2. QED
          BY <1>4, <2>1, <3>2, <4>1
      <3>3. QED
        BY <3>1, <3>2
    <2>2. ASSUME NEW o \in Requests, request'[o].kind \in {"login", "google", "refresh"}
          PROVE  user'[request'[o].account].verified \/ user'[request'[o].account].stage = "gone"
      <3>1. o # r
        BY <1>3, <2>2 DEF Nothing
      <3>2. request[o].account \in Accounts
        BY <1>1, <1>3, <2>2, <3>1 DEF Nothing
      <3>3. QED
        BY <1>3, <2>2, <3>1, <3>2 DEF OwnersAreVerified
    <2>3. QED
      BY <2>1, <2>2 DEF OwnersAreVerified
  <1>7. ReadersAreActive'
    BY <1>1, <1>3 DEF ReadersAreActive
  <1>8. PasswordsAreLast'
    <2>1. WriteOver(r)
      BY DEF Issue
    <2>2. QED
      BY <1>2, <1>3, <2>1, PasswordWritten
  <1>9. RowsLast'
    <2> SUFFICES ASSUME NEW s \in Tokens, issued'[s] # None
                 PROVE  \/ tokens'[s] # None /\ tokens'[s].expires = issued'[s].expires
                        \/ tokens'[s] = None /\ issued'[s].expires < day
                        \/ tokens'[s] = None /\ user'[issued'[s].owner].stage = "gone"
      BY <1>2 DEF RowsLast
    <2>1. CASE s = t
      BY <1>2, <2>1
    <2>2. CASE s # t
      <3>1. issued[s].owner \in Accounts
        BY <1>2, <2>2 DEF SessionInv, TypeOK, Claims
      <3>2. QED
        BY <1>1, <1>2, <1>4, <2>2, <3>1 DEF RowsLast
    <2>3. QED
      BY <2>1, <2>2
  <1>10. QED
    BY <1>5, <1>6, <1>7, <1>8, <1>9

\* A step by which a request reads the account.
LEMMA BeginKeeps ==
    ASSUME SessionInv, OwnerInv, NEW r \in Requests, NEW a \in Accounts, NEW kind,
           NEW parent, NEW writes, NEW era,
           Begin(r, a, kind, parent, writes, era),
           kind \in {"login", "google", "refresh"} => user[a].verified,
           user[a].active,
           writes # NoPassword => /\ era = chosen[a]
                                  /\ writes \in {user[a].password, chosen[a]}
    PROVE  OwnerInv'
  <1> USE DEF OwnerInv
  <1> DEFINE q == [kind |-> kind, account |-> a, parent |-> parent, writes |-> writes,
                   era |-> era]
  <1>1. request'[r] = q /\ \A o \in Requests \ {r} : request'[o] = request[o]
    BY DEF Begin, SessionInv, TypeOK
  <1>2. /\ q.kind = kind /\ q.account = a /\ q.writes = writes /\ q.era = era
        /\ UNCHANGED <<day, user, tokens, histories>>
    BY DEF Begin
  <1> HIDE DEF q
  <1>3. AccountsAreSound' /\ RowsLast'
    BY <1>2 DEF AccountsAreSound, RowsLast, histories
  <1>4. OwnersAreVerified'
    BY <1>1, <1>2 DEF OwnersAreVerified
  <1>5. ReadersAreActive'
    BY <1>1, <1>2 DEF ReadersAreActive, histories
  <1>6. PasswordsAreLast'
    <2>1. \A o \in Requests \ {r} : Writes(o)' <=> Writes(o)
      BY <1>1 DEF Writes
    <2>2. Writes(r)' => /\ era = chosen[a] /\ chosen[a] \in Int
                        /\ a \in undone \/ writes = chosen[a]
      BY <1>1, <1>2 DEF Writes, PasswordsAreLast, SessionInv, TypeOK
    <2>3. QED
      BY <1>1, <1>2, <2>1, <2>2 DEF PasswordsAreLast, histories
  <1>7. QED
    BY <1>3, <1>4, <1>5, <1>6

-----------------------------------------------------------------------------
(* Every action is a step of one of the sorts.                             *)

LEMMA BeginsKeep ==
    ASSUME SessionInv, OwnerInv, NEW r \in Requests,
           \/ \E a \in Accounts : \/ BeginLogin(r, a) \/ BeginVerify(r, a)
                                  \/ BeginGoogle(r, a) \/ BeginSetPassword(r, a)
           \/ \E t \in Tokens : BeginRefresh(r, t)
    PROVE  OwnerInv'
  <1>1. ASSUME NEW a \in Accounts, BeginLogin(r, a)
        PROVE  OwnerInv'
    <2>1. PICK writes \in {NoPassword, user[a].password} :
            Begin(r, a, "login", None, writes, chosen[a])
      BY <1>1 DEF BeginLogin
    <2>2. user[a].verified /\ user[a].active
      BY <1>1 DEF BeginLogin
    <2>3. QED
      BY <2>1, <2>2, BeginKeeps
  <1>2. ASSUME NEW a \in Accounts, BeginVerify(r, a)
        PROVE  OwnerInv'
    BY <1>2, BeginKeeps DEF BeginVerify
  <1>3. ASSUME NEW a \in Accounts, BeginGoogle(r, a)
        PROVE  OwnerInv'
    BY <1>3, BeginKeeps DEF BeginGoogle, OwnerInv, AccountsAreSound
  <1>4. ASSUME NEW t \in Tokens, BeginRefresh(r, t)
        PROVE  OwnerInv'
    <2>1. tokens[t] # None /\ tokens[t].owner \in Accounts
      BY <1>4 DEF BeginRefresh, IsLive, SessionInv, TypeOK, Token
    <2>2. user[tokens[t].owner].verified
      BY <2>1 DEF OwnerInv, OwnersAreVerified
    <2>3. QED
      BY <1>4, <2>1, <2>2, BeginKeeps DEF BeginRefresh
  <1>5. ASSUME NEW a \in Accounts, BeginSetPassword(r, a)
        PROVE  OwnerInv'
    BY <1>5, BeginKeeps DEF BeginSetPassword
  <1>6. QED
    BY <1>1, <1>2, <1>3, <1>4, <1>5

\* What a way in makes of its account.
LEMMA FinishAccount ==
    ASSUME SessionInv, OwnerInv, NEW r \in Requests, NEW t \in Tokens, Finish(r, t)
    PROVE  LET a == request[r].account
           IN  /\ \A b \in Accounts \ {a} : user'[b] = user[b]
               /\ user'[a].stage = "open" /\ user[a].stage # "gone"
               /\ user'[a].verified
               /\ user[a].active => user'[a].active
               /\ user'[a].password \in {user[a].password, NoPassword, request[r].writes}
  <1> DEFINE q == request[r]
             a == request[r].account
  <1>1. q # Nothing /\ q \in Request
    <2>1. q.kind # "none"
      BY DEF Finish, FinishLogin, FinishVerify, FinishLink, FinishCreate, FinishGoogle,
             FinishRefresh
    <2>2. QED
      BY <2>1 DEF Nothing, SessionInv, TypeOK
  <1>2. a \in Accounts /\ user \in [Accounts -> User] /\ user[a] \in User
    BY <1>1 DEF SessionInv, TypeOK, Request
  <1>3. q.kind \in {"login", "google", "refresh"} /\ Open(a) => user[a].verified
    BY DEF OwnerInv, OwnersAreVerified, Open
  <1>4. CASE FinishLogin(r, t)
    <2>1. Open(a) /\ q.kind = "login"
      BY <1>4 DEF FinishLogin
    <2>2. CASE user' = user
      BY <1>3, <2>1, <2>2 DEF Open
    <2>3. CASE user' = [user EXCEPT ![a].password = q.writes, ![a].weak = FALSE]
      <3>1. user'[a] = [user[a] EXCEPT !.password = q.writes, !.weak = FALSE]
        BY <1>2, <2>3
      <3>2. /\ user'[a].stage = user[a].stage /\ user'[a].password = q.writes
            /\ user'[a].verified <=> user[a].verified
            /\ user'[a].active <=> user[a].active
        BY <1>2, <3>1 DEF User
      <3>3. QED
        BY <1>2, <1>3, <2>1, <2>3, <3>2 DEF Open
    <2>4. QED
      BY <1>4, <2>2, <2>3 DEF FinishLogin
  <1>5. CASE FinishVerify(r, t)
    <2>1. user' = [user EXCEPT ![a].verified = TRUE] /\ Open(a)
      BY <1>5 DEF FinishVerify
    <2>2. user'[a] = [user[a] EXCEPT !.verified = TRUE]
      BY <1>2, <2>1
    <2>3. /\ user'[a].stage = user[a].stage /\ user'[a].password = user[a].password
          /\ user'[a].verified
          /\ user'[a].active <=> user[a].active
      BY <1>2, <2>2 DEF User
    <2>4. QED
      BY <1>2, <2>1, <2>3 DEF Open
  <1>6. CASE FinishLink(r, t)
    <2>1. /\ user' = [user EXCEPT ![a].linked = TRUE, ![a].verified = TRUE]
          /\ Open(a)
      BY <1>6 DEF FinishLink
    <2>2. user'[a] = [user[a] EXCEPT !.linked = TRUE, !.verified = TRUE]
      BY <1>2, <2>1
    <2>3. /\ user'[a].stage = user[a].stage /\ user'[a].password = user[a].password
          /\ user'[a].verified
          /\ user'[a].active <=> user[a].active
      BY <1>2, <2>2 DEF User
    <2>4. QED
      BY <1>2, <2>1, <2>3 DEF Open
  <1>7. CASE FinishCreate(r, t)
    <2>1. /\ user' = [user EXCEPT ![a] = [NewUser EXCEPT !.verified = TRUE, !.linked = TRUE]]
          /\ user[a].stage = "absent"
      BY <1>7 DEF FinishCreate
    <2>2. NewUser \in User /\ NewUser.stage = "open" /\ NewUser.password = NoPassword
      BY AccountType DEF NewUser, Account
    <2>3. NewUser.active
      BY DEF NewUser, Account
    <2>4. user'[a] = [NewUser EXCEPT !.verified = TRUE, !.linked = TRUE]
      BY <1>2, <2>1
    <2>5. /\ user'[a].stage = "open" /\ user'[a].password = NoPassword
          /\ user'[a].verified
          /\ user'[a].active
      BY <2>2, <2>3, <2>4 DEF User
    <2>6. QED
      BY <1>2, <2>1, <2>5
  <1>8. CASE FinishGoogle(r, t) \/ FinishRefresh(r, t)
    BY <1>2, <1>3, <1>8 DEF FinishGoogle, FinishRefresh, Open
  <1>9. QED
    BY <1>4, <1>5, <1>6, <1>7, <1>8 DEF Finish

LEMMA FinishKeeps ==
    ASSUME SessionInv, TypeOK', OwnerInv, NEW r \in Requests, NEW t \in Tokens, Finish(r, t)
    PROVE  OwnerInv'
  <1> DEFINE q == request[r]
  <1>1. q # Nothing /\ q \in Request
    <2>1. q.kind # "none"
      BY DEF Finish, FinishLogin, FinishVerify, FinishLink, FinishCreate, FinishGoogle,
             FinishRefresh
    <2>2. QED
      BY <2>1 DEF Nothing, SessionInv, TypeOK
  <1>2. \E which, rivals : Issue(r, t, Revoke(which), rivals)
    <2>1. tokens = Revoke({})
      BY DEF Revoke, SessionInv, TypeOK
    <2>2. QED
      BY <2>1 DEF Finish, FinishLogin, FinishVerify, FinishLink, FinishCreate, FinishGoogle,
                  FinishRefresh
  <1>3. QED
    BY <1>1, <1>2, FinishAccount, IssueKeeps

\* The ways out: accounts and requests stay as they are.
LEMMA CutsKeep ==
    ASSUME SessionInv, TypeOK', OwnerInv, NEW t \in Tokens,
           Replay(t) \/ RefreshDisabled(t) \/ Logout(t)
    PROVE  OwnerInv'
  <1>1. PICK which, requests :
          Cut(which, requests) /\ UNCHANGED <<day, user, request, issued, chosen, late, undone>>
    BY DEF Replay, RefreshDisabled, Logout, CutAll
  <1>2. tokens' = Revoke(which) /\ overlapped \subseteq overlapped'
    BY <1>1 DEF Cut, Overtake
  <1>3. day \in Int /\ tokens \in [Tokens -> Token \cup {None}]
    BY DEF SessionInv, TypeOK
  <1>4. \A s \in Tokens :
          /\ tokens'[s] = None <=> tokens[s] = None
          /\ tokens'[s] # None => /\ tokens'[s].owner = tokens[s].owner
                                  /\ tokens'[s].expires = tokens[s].expires
    BY <1>2, <1>3, RevokedRow
  <1>5. QED
    BY <1>1, <1>2, <1>3, <1>4, QuietKeeps

LEMMA ReplacePasswordKeeps ==
    ASSUME SessionInv, TypeOK', OwnerInv, NEW a \in Accounts, ReplacePassword(a)
    PROVE  OwnerInv'
  <1>1. /\ user \in [Accounts -> User] /\ user[a] \in User
        /\ chosen \in [Accounts -> 1 .. MaxPasswords]
        /\ tokens \in [Tokens -> Token \cup {None}]
    BY DEF SessionInv, TypeOK
  <1>2. /\ chosen' = [chosen EXCEPT ![a] = @ + 1]
        /\ user' = [user EXCEPT ![a].password = chosen[a] + 1, ![a].weak = FALSE]
        /\ user[a].stage = "open"
        /\ tokens' = Revoke(TokensOf(a))
        /\ overlapped \subseteq overlapped'
        /\ undone' = undone \ {a}
        /\ UNCHANGED <<day, request, issued, late>>
    BY DEF ReplacePassword, Open, Cut, Overtake
  <1>3. chosen'[a] = chosen[a] + 1
    BY <1>1, <1>2
  <1>4. /\ user'[a].stage = "open"
        /\ user'[a].password = chosen'[a]
        /\ user'[a].verified <=> user[a].verified
        /\ user'[a].active <=> user[a].active
        /\ user'[a].linked <=> user[a].linked
    <2>1. user'[a] = [user[a] EXCEPT !.password = chosen[a] + 1, !.weak = FALSE]
      BY <1>1, <1>2
    <2>2. QED
      BY <1>1, <1>2, <1>3, <2>1 DEF User
  <1>5. \A b \in Accounts \ {a} : user'[b] = user[b] /\ chosen'[b] = chosen[b]
    BY <1>1, <1>2
  <1>6. \A s \in Tokens :
          /\ tokens'[s] = None <=> tokens[s] = None
          /\ tokens'[s] # None => /\ tokens'[s].owner = tokens[s].owner
                                  /\ tokens'[s].expires = tokens[s].expires
    BY <1>1, <1>2, RevokedRow
  <1>7. user[a].linked => user[a].verified
    BY DEF OwnerInv, AccountsAreSound
  <1>8. QED
    BY <1>2, <1>3, <1>4, <1>5, <1>6, <1>7, AccountKeeps

\* What an account gets or loses while its requests go on.
LEMMA OwnerKeeps ==
    ASSUME SessionInv, TypeOK', OwnerInv, NEW a \in Accounts,
           Register(a) \/ DeleteAccount(a)
    PROVE  OwnerInv'
  <1>1. /\ user \in [Accounts -> User] /\ user[a] \in User
        /\ chosen[a] \in 1 .. MaxPasswords
    BY DEF SessionInv, TypeOK
  <1>2. UNCHANGED <<day, issued, late, request, chosen, undone>> /\ overlapped' = overlapped
    BY DEF Register, DeleteAccount, histories
  <1>3. user[a].linked => user[a].verified
    BY DEF OwnerInv, AccountsAreSound
  <1>4. CASE Register(a)
    <2>1. /\ user' = [user EXCEPT ![a] = [NewUser EXCEPT !.password = chosen[a]]]
          /\ user[a].stage = "absent" /\ tokens' = tokens
      BY <1>4 DEF Register
    <2>2. NewUser \in User /\ NewUser.stage = "open"
      BY AccountType DEF NewUser, Account
    <2>3. NewUser.active /\ ~NewUser.linked
      BY DEF NewUser, Account
    <2>4. user'[a] = [NewUser EXCEPT !.password = chosen[a]]
      BY <1>1, <2>1
    <2>5. /\ user'[a].stage = "open" /\ user'[a].password = chosen[a]
          /\ user'[a].active /\ ~user'[a].linked
      BY <2>2, <2>3, <2>4 DEF User
    <2>6. ~user[a].verified
      BY <2>1 DEF OwnerInv, AccountsAreSound
    <2>7. QED
      BY <1>1, <1>2, <2>1, <2>5, <2>6, AccountKeeps
  <1>5. CASE DeleteAccount(a)
    <2>1. /\ user' = [user EXCEPT ![a] = Gone] /\ user[a].stage = "open"
          /\ tokens' = [t \in Tokens |-> IF t \in TokensOf(a) THEN None ELSE tokens[t]]
      BY <1>5 DEF DeleteAccount, Open
    <2>2. Gone.stage = "gone" /\ Gone.password = NoPassword
      BY DEF Gone, Account
    <2>3. Gone.active /\ ~Gone.linked
      BY DEF Gone, Account
    <2>4. user'[a] = Gone
      BY <1>1, <2>1
    <2>5. \A t \in Tokens :
            /\ tokens'[t] # None => tokens'[t] = tokens[t] /\ tokens[t].owner # a
            /\ tokens'[t] = None => tokens[t] = None \/ tokens[t].owner = a
      BY <2>1 DEF TokensOf
    <2>6. QED
      BY <1>1, <1>2, <2>1, <2>2, <2>3, <2>4, <2>5, AccountKeeps
  <1>6. QED
    BY <1>4, <1>5

\* A first password, written without another look at the one there is.
LEMMA FinishSetKeeps ==
    ASSUME SessionInv, TypeOK', OwnerInv, NEW r \in Requests, FinishSetPassword(r)
    PROVE  OwnerInv'
  <1> DEFINE q == request[r]
             a == request[r].account
  <1>1. q # Nothing /\ q \in Request
    <2>1. q.kind = "set"
      BY DEF FinishSetPassword
    <2>2. QED
      BY <2>1 DEF Nothing, SessionInv, TypeOK
  <1>2. a \in Accounts /\ user \in [Accounts -> User] /\ user[a] \in User /\ day \in Int
    BY <1>1 DEF SessionInv, TypeOK, Request
  <1>3. /\ user' = [user EXCEPT ![a].password = q.writes, ![a].weak = FALSE]
        /\ request'[r] = Nothing
        /\ \A o \in Requests \ {r} : request'[o] = request[o]
        /\ overlapped' = overlapped \ {r}
        /\ WriteOver(r)
        /\ UNCHANGED <<day, tokens, issued, chosen, late>>
    BY DEF FinishSetPassword, SessionInv, TypeOK
  <1>4. user'[a] = [user[a] EXCEPT !.password = q.writes, !.weak = FALSE]
    BY <1>2, <1>3
  <1>5. /\ user'[a].stage = user[a].stage /\ user'[a].password = q.writes
        /\ user'[a].verified <=> user[a].verified
        /\ user'[a].linked <=> user[a].linked
        /\ user'[a].active <=> user[a].active
    BY <1>2, <1>4 DEF User
  <1>6. \A b \in Accounts \ {a} : user'[b] = user[b]
    BY <1>2, <1>3
  <1>7. PasswordsAreLast'
    BY <1>1, <1>3, <1>5, <1>6, PasswordWritten
  <1>8. QED
    BY <1>2, <1>3, <1>5, <1>6, <1>7, QuietKeeps

\* The administrator, the purge and the days; a request that fails.
LEMMA NightKeeps ==
    ASSUME SessionInv, TypeOK', OwnerInv,
           \/ \E r \in Requests : Abandon(r)
           \/ \E a \in Accounts : Enable(a) \/ Disable(a)
           \/ Purge \/ Midnight
           \/ UNCHANGED vars
    PROVE  OwnerInv'
  <1>1. /\ user \in [Accounts -> User] /\ \A a \in Accounts : user[a] \in User
        /\ tokens \in [Tokens -> Token \cup {None}]
        /\ day \in Int
    BY DEF SessionInv, TypeOK
  <1>2. CASE \E r \in Requests : Abandon(r)
    <2>1. PICK r \in Requests : Abandon(r)
      BY <1>2
    <2>2. /\ \A o \in Requests : request'[o] \in {request[o], Nothing}
          /\ \A o \in Requests : request'[o] # Nothing /\ o \in overlapped => o \in overlapped'
          /\ UNCHANGED <<day, user, tokens, issued, chosen, late, undone>>
      BY <2>1 DEF Abandon, SessionInv, TypeOK
    <2>3. QED
      BY <1>1, <2>2, QuietKeeps
  <1>3. ASSUME NEW a \in Accounts, Enable(a) \/ Disable(a)
        PROVE  OwnerInv'
    <2>1. /\ user[a].stage = "open"
          /\ UNCHANGED <<day, tokens, request, issued, chosen, late, undone>>
          /\ overlapped \subseteq overlapped'
      BY <1>3 DEF Enable, Disable, Open, Overtake, histories
    <2>2. /\ user'[a].stage = user[a].stage
          /\ user'[a].password = user[a].password
          /\ user'[a].verified <=> user[a].verified
          /\ user'[a].linked <=> user[a].linked
          /\ user'[a].active \/ Serving(a) \subseteq overlapped'
          /\ \A b \in Accounts \ {a} : user'[b] = user[b]
      <3>1. CASE Enable(a)
        <4>1. user' = [user EXCEPT ![a].active = TRUE]
          BY <3>1 DEF Enable
        <4>2. user'[a] = [user[a] EXCEPT !.active = TRUE]
          BY <1>1, <4>1
        <4>3. QED
          BY <1>1, <4>1, <4>2 DEF User
      <3>2. CASE Disable(a)
        <4>1. /\ user' = [user EXCEPT ![a].active = FALSE]
              /\ Serving(a) \subseteq overlapped'
          BY <3>2 DEF Disable, Overtake, Serving
        <4>2. user'[a] = [user[a] EXCEPT !.active = FALSE]
          BY <1>1, <4>1
        <4>3. QED
          BY <1>1, <4>1, <4>2 DEF User
      <3>3. QED
        BY <1>3, <3>1, <3>2
    <2>3. QED
      BY <1>1, <2>1, <2>2, QuietKeeps
  <1>4. CASE Purge
    <2>1. /\ \A t \in Tokens : tokens'[t] = IF Purgeable(t) THEN None ELSE tokens[t]
          /\ UNCHANGED <<day, user, request, issued, chosen, late, overlapped, undone>>
      BY <1>4 DEF Purge, histories
    <2>2. \A t \in Tokens : Purgeable(t) => tokens[t].expires < day
      BY <1>1, SessionAssumption DEF Purgeable, Token
    <2>3. QED
      BY <1>1, <2>1, <2>2, QuietKeeps
  <1>5. CASE Midnight
    <2>1. /\ day' = day + 1
          /\ UNCHANGED <<tokens, request, issued, chosen, late, overlapped, undone>>
      BY <1>5 DEF Midnight, histories
    <2>2. ASSUME NEW a \in Accounts
          PROVE  \/ user'[a] = user[a]
                 \/ \E weak \in BOOLEAN : user'[a] = [user[a] EXCEPT !.weak = weak]
      <3>1. (user[a].password # NoPassword) \in BOOLEAN
        OBVIOUS
      <3>2. QED
        BY <1>5, <3>1, Zenon DEF Midnight
    <2>3. ASSUME NEW a \in Accounts
          PROVE  /\ user'[a].stage = user[a].stage
                 /\ user'[a].password = user[a].password
                 /\ user'[a].verified <=> user[a].verified
                 /\ user'[a].linked <=> user[a].linked
                 /\ user'[a].active <=> user[a].active
      BY <1>1, <2>2 DEF User
    <2>4. QED
      BY <1>1, <2>1, <2>3, QuietKeeps
  <1>6. CASE UNCHANGED vars
    BY <1>1, <1>6, QuietKeeps DEF vars, histories
  <1>7. QED
    BY <1>2, <1>3, <1>4, <1>5, <1>6

LEMMA OwnerStep == SessionInv /\ TypeOK' /\ OwnerInv /\ [Next]_vars => OwnerInv'
  <1> SUFFICES ASSUME SessionInv, TypeOK', OwnerInv, [Next]_vars PROVE OwnerInv'
    OBVIOUS
  <1>1. QED
    BY BeginsKeep, FinishKeeps, CutsKeep, ReplacePasswordKeeps, OwnerKeeps, FinishSetKeeps,
       NightKeeps
       DEF Next

\* Nobody is there at first.
LEMMA OwnerInit == Init => OwnerInv
  <1> SUFFICES ASSUME Init PROVE OwnerInv
    OBVIOUS
  <1>1. Absent.stage = "absent" /\ Absent.password = NoPassword
    BY DEF Absent, Account
  <1>2. Absent.active /\ ~Absent.verified /\ ~Absent.linked
    BY DEF Absent, Account
  <1>3. AccountsAreSound /\ RowsLast
    BY <1>1, <1>2 DEF Init, AccountsAreSound, RowsLast
  <1>4. OwnersAreVerified /\ ReadersAreActive
    BY DEF Init, OwnersAreVerified, ReadersAreActive, Nothing
  <1>5. PasswordsAreLast
    BY <1>1 DEF Init, PasswordsAreLast, Writes
  <1>6. QED
    BY <1>3, <1>4, <1>5 DEF OwnerInv

LEMMA OwnersSound == Spec => [](SessionInv /\ OwnerInv)
  <1>1. SessionInv' => TypeOK'
    BY DEF SessionInv
  <1>2. QED
    BY <1>1, OwnerInit, OwnerStep, SessionsSound, PTL DEF Spec

-----------------------------------------------------------------------------
(* What holds of every behaviour.                                          *)

\* Whatever the way in, and whatever overtook it, who holds a session has a
\* verified address (email_password.login, google_auth._link_or_create).
THEOREM VerifiedTheorem == Spec => []OnlyVerified
  <1>1. OwnerInv => OnlyVerified
    BY DEF OwnerInv, OwnersAreVerified, OnlyVerified, IsLive
  <1>2. QED
    BY <1>1, OwnersSound, PTL

\* The password chosen last opens the account, unless it was written over, since
\* it was chosen, by a request that had begun before: a login that hashed the
\* former one again (email_password.login, needs_rehash) or a first password
\* (user_profile.set_password).
THEOREM PasswordTheorem == Spec => []LastPasswordHolds
  <1>1. OwnerInv => LastPasswordHolds
    BY DEF OwnerInv, PasswordsAreLast, LastPasswordHolds
  <1>2. QED
    BY <1>1, OwnersSound, PTL

\* The purge never takes the row of a token that may still be presented, so that
\* a replay is seen as one (scripts/purge_refresh_tokens.py).
THEOREM ReplayTheorem == Spec => []ReplayIsRecognised
  <1>1. SessionInv /\ OwnerInv => ReplayIsRecognised
    <2> SUFFICES ASSUME SessionInv, OwnerInv, NEW t \in Tokens, issued[t] # None,
                        day <= issued[t].expires, Open(issued[t].owner)
                 PROVE  tokens[t] # None
      BY DEF ReplayIsRecognised
    <2>1. issued[t].expires \in Int /\ day \in Int
      BY DEF SessionInv, TypeOK, Claims
    <2>2. QED
      BY <2>1 DEF OwnerInv, RowsLast, Open
  <1>2. QED
    BY <1>1, OwnersSound, PTL

\* A token is handed out by the end of a request.
LEMMA IssuedByFinish ==
    ASSUME SessionInv, [Next]_vars, NEW t \in Tokens, issued[t] = None, issued'[t] # None
    PROVE  \E r \in Requests : Finish(r, t)
  <1>1. issued' # issued
    OBVIOUS
  <1>2. ASSUME NEW r \in Requests, NEW s \in Tokens, Finish(r, s)
        PROVE  s = t
    <2>1. PICK table, rivals : Issue(r, s, table, rivals)
      BY <1>2 DEF Finish, FinishLogin, FinishVerify, FinishLink, FinishCreate, FinishGoogle,
                  FinishRefresh
    <2>2. QED
      BY <2>1 DEF Issue, SessionInv, TypeOK
  <1>3. ASSUME NEW r \in Requests, NEW a \in Accounts, NEW kind, NEW parent, NEW writes,
               NEW era, Begin(r, a, kind, parent, writes, era)
        PROVE  FALSE
    BY <1>1, <1>3 DEF Begin, histories
  <1>4. ASSUME NEW r \in Requests, NEW s \in Tokens, BeginRefresh(r, s)
        PROVE  FALSE
    BY <1>1, <1>4 DEF BeginRefresh, Begin, histories
  <1>5. ASSUME NEW r \in Requests, NEW a \in Accounts,
               \/ BeginLogin(r, a) \/ BeginVerify(r, a)
               \/ BeginGoogle(r, a) \/ BeginSetPassword(r, a)
        PROVE  FALSE
    BY <1>3, <1>5 DEF BeginLogin, BeginVerify, BeginGoogle, BeginSetPassword
  <1>6. ASSUME NEW r \in Requests, FinishSetPassword(r) \/ Abandon(r)
        PROVE  FALSE
    BY <1>1, <1>6 DEF FinishSetPassword, Abandon
  <1>7. ASSUME NEW s \in Tokens, Replay(s) \/ RefreshDisabled(s) \/ Logout(s)
        PROVE  FALSE
    BY <1>1, <1>7 DEF Replay, RefreshDisabled, Logout
  <1>8. ASSUME NEW a \in Accounts,
               \/ ReplacePassword(a) \/ Register(a)
               \/ Enable(a) \/ Disable(a) \/ DeleteAccount(a)
        PROVE  FALSE
    BY <1>1, <1>8 DEF ReplacePassword, Register, Enable, Disable, DeleteAccount, histories
  <1>9. ~Purge /\ ~Midnight /\ ~UNCHANGED vars
    BY <1>1 DEF Purge, Midnight, vars, histories
  <1>10. QED
    BY <1>2, <1>4, <1>5, <1>6, <1>7, <1>8, <1>9 DEF Next

\* The account of a request keeps being active while it ends.
LEMMA FinishIsActive ==
    ASSUME SessionInv, OwnerInv, NEW r \in Requests, NEW t \in Tokens, Finish(r, t),
           t \notin late'
    PROVE  user'[issued'[t].owner].active
  <1> DEFINE a == request[r].account
  <1>1. request[r] # Nothing /\ a \in Accounts /\ user[a] \in User
    <2>1. request[r].kind # "none"
      BY DEF Finish, FinishLogin, FinishVerify, FinishLink, FinishCreate, FinishGoogle,
             FinishRefresh
    <2>2. QED
      BY <2>1 DEF Nothing, SessionInv, TypeOK, Request
  <1>2. PICK table, rivals : Issue(r, t, table, rivals)
    BY DEF Finish, FinishLogin, FinishVerify, FinishLink, FinishCreate, FinishGoogle,
           FinishRefresh
  <1>3. r \notin overlapped /\ issued'[t].owner = a
    BY <1>2 DEF Issue, SessionInv, TypeOK
  <1>4. user[a].active
    BY <1>1, <1>3 DEF OwnerInv, ReadersAreActive
  <1>5. user'[a].active
    BY <1>1, <1>4, FinishAccount
  <1>6. QED
    BY <1>3, <1>5

\* A disabled account is handed no token, but by a request under way when it was
\* disabled (email_password.login, google_auth.sign_in).
THEOREM DisabledTheorem == Spec => DisabledGetsNothing
  <1>1. SessionInv /\ OwnerInv /\ [Next]_vars =>
          [\A t \in Tokens \ late' :
              issued[t] = None /\ issued'[t] # None => user'[issued'[t].owner].active]_vars
    BY IssuedByFinish, FinishIsActive
  <1>2. QED
    BY <1>1, OwnersSound, PTL DEF Spec, DisabledGetsNothing
=============================================================================
