--------------------------- MODULE SessionsProofs ---------------------------
(* Proofs about Sessions for every set of requests and passwords, any      *)
(* number of seconds and any limit of wrong passwords.                     *)
EXTENDS Sessions, FiniteSetTheorems, TLAPS

-----------------------------------------------------------------------------
(* The inductive invariant                                                 *)

\* The columns r has written by the time it is at pc[r], at least and at most.
Flow ==
    \A r \in Request :
        /\ pc[r] \in {"idle", "find", "create"} => wrote[r] = {}
        /\ pc[r] \in {"sign", "write"} => "token" \notin wrote[r] /\ "change" \notin wrote[r]
        /\ pc[r] = "sign" => op[r] \in Minting \cup {"initiate"}
        /\ pc[r] = "create" => op[r] = "register"
        /\ pc[r] = "revoke" => op[r] = "confirm"
        /\ pc[r] \in {"sign", "write"} /\ op[r] = "register" => "password" \in wrote[r]
        /\ pc[r] = "revoke" => {"password", "change"} \subseteq wrote[r]
        /\ pc[r] \in {"reply", "done"} => Promised[op[r]] \subseteq wrote[r]
        /\ op[r] \in {"register", "reset"} /\ pc[r] # "idle" => new[r] \in Password
        /\ op[r] = "initiate" /\ pc[r] # "idle" => new[r] \in Password
        /\ op[r] = "confirm" => new[r] \in Password
        /\ \A q \in began[r] : pc[q] = "done"

\* The value of a column was written by nobody who was answered before
\* somebody else who has written the column began.
Fresh ==
    \A f \in Field : \A r \in Request :
        f \in wrote[r] => WrittenSince(r, f, row[f])

\* Of any misses each two of which are related by one having counted the
\* other, the newest has counted all the rest.
Trying ==
    /\ IsFiniteSet(missed) /\ Cardinality(missed) <= tries
    /\ \A r \in missed : pc[r] = "failed"
    /\ \A r \in Request :
          /\ \A q \in counted[r] : pc[q] = "failed"
          /\ pc[r] = "find" /\ op[r] = "initiate" =>
                IsFiniteSet(counted[r]) /\ Cardinality(counted[r]) < MaxTries
    /\ \A S \in SUBSET missed :
          (\A m1, m2 \in S : m1 = m2 \/ m1 \in counted[m2] \/ m2 \in counted[m1])
              => Cardinality(S) <= MaxTries

IInv == TypeOK /\ Flow /\ Fresh /\ SupersededRefused /\ Trying


-----------------------------------------------------------------------------
(* Type correctness, and what being at a statement implies                 *)

LEMMA NextTypeOK == TypeOK /\ Flow /\ [Next]_vars => TypeOK'
<1> SUFFICES ASSUME TypeOK, Flow, [Next]_vars PROVE TypeOK'
  OBVIOUS
<1> USE SessionsAssumption DEF TypeOK, Op, Waiting, Minting, RefreshToken, ChangeToken,
       Second, Field, Flow, store, limit, request
<1>1. ASSUME NEW r \in Request, BeginRefresh(r) PROVE TypeOK'
  BY <1>1 DEF BeginRefresh, Goes, Asks
<1>2. ASSUME NEW r \in Request, BeginLogin(r) PROVE TypeOK'
  BY <1>2 DEF BeginLogin, Goes, Asks
<1>3. ASSUME NEW r \in Request, BeginLogout(r) PROVE TypeOK'
  BY <1>3 DEF BeginLogout, Goes, Asks
<1>4. ASSUME NEW r \in Request, BeginUnasked(r) PROVE TypeOK'
  BY <1>4 DEF BeginUnasked, Goes, Asks
<1>5. ASSUME NEW r \in Request, BeginConfirm(r) PROVE TypeOK'
  BY <1>5 DEF BeginConfirm, Goes, Asks
<1>6. ASSUME NEW r \in Request, BeginInitiate(r) PROVE TypeOK'
  <2>1. tries' \in Nat /\ dayPast' \in BOOLEAN /\ missed' \subseteq Request
    BY <1>6 DEF BeginInitiate
  <2>2. counted' \in [Request -> SUBSET Request]
    BY <1>6, <2>1 DEF BeginInitiate
  <2>3. PICK x \in Password, p \in Password : Asks(r, "initiate", x, p)
    BY <1>6 DEF BeginInitiate
  <2>4. /\ op' \in [Request -> Op] /\ new' \in [Request -> Password \cup {Null}]
        /\ given' \in [Request -> {Null} \cup Password \cup RefreshToken \cup ChangeToken]
        /\ began' \in [Request -> SUBSET Request]
        /\ UNCHANGED <<row, clock, second, wrote>>
    BY <2>3 DEF Asks
  <2>5. pc' \in [Request -> {"idle", "done", "failed"} \cup Waiting]
    BY <1>6 DEF BeginInitiate, Goes
  <2> QED
    BY <2>1, <2>2, <2>4, <2>5
<1>7. ASSUME NEW r \in Request, Refuse(r) PROVE TypeOK'
  BY <1>7 DEF Refuse, Goes, Asks
<1>8. ASSUME NEW r \in Request, FindByPassword(r) PROVE TypeOK'
  BY <1>8 DEF FindByPassword, Goes
<1>9. ASSUME NEW r \in Request, WrongPassword(r) PROVE TypeOK'
  <2>1. tries' \in Nat
    BY <1>9 DEF WrongPassword
  <2>2. dayPast' \in BOOLEAN
    BY <1>9 DEF WrongPassword
  <2>3. missed' \subseteq Request
    BY <1>9 DEF WrongPassword
  <2>4. /\ pc' \in [Request -> {"idle", "done", "failed"} \cup Waiting]
        /\ UNCHANGED <<row, clock, counted, op, given, new, began, second, wrote>>
    BY <1>9 DEF WrongPassword, Goes
  <2> QED
    BY <2>1, <2>2, <2>3, <2>4
<1>10. ASSUME NEW r \in Request, FindByRefreshToken(r) PROVE TypeOK'
  BY <1>10 DEF FindByRefreshToken, Goes
<1>11. ASSUME NEW r \in Request, FindByChangeToken(r) PROVE TypeOK'
  BY <1>11 DEF FindByChangeToken, Goes
<1>12. ASSUME NEW r \in Request, FindUser(r) PROVE TypeOK'
  BY <1>12 DEF FindUser, Goes
<1>13. ASSUME NEW r \in Request, EmailFree(r) PROVE TypeOK'
  BY <1>13 DEF EmailFree, Goes
<1>14. ASSUME NEW r \in Request, CreateUser(r) PROVE TypeOK'
  BY <1>14 DEF CreateUser, Goes, Writes
<1>15. ASSUME NEW r \in Request, Sign(r) PROVE TypeOK'
  BY <1>15 DEF Sign, Goes
<1>16. ASSUME NEW r \in Request, WriteToken(r) PROVE TypeOK'
  BY <1>16 DEF WriteToken, Goes, Writes
<1>17. ASSUME NEW r \in Request, ClearToken(r) PROVE TypeOK'
  BY <1>17 DEF ClearToken, Goes, Writes
<1>18. ASSUME NEW r \in Request, ResetPassword(r) PROVE TypeOK'
  BY <1>18 DEF ResetPassword, Goes, Writes
<1>19. ASSUME NEW r \in Request, WriteChange(r) PROVE TypeOK'
  BY <1>19 DEF WriteChange, Goes, Writes
<1>20. ASSUME NEW r \in Request, ChangePassword(r) PROVE TypeOK'
  BY <1>20 DEF ChangePassword, Goes, Writes
<1>21. ASSUME NEW r \in Request, Revoke(r) PROVE TypeOK'
  BY <1>21 DEF Revoke, Goes, Writes
<1>22. ASSUME NEW r \in Request, Reply(r) PROVE TypeOK'
  BY <1>22 DEF Reply, Goes
<1>23. ASSUME NEW r \in Request, ReplyConfirmed(r) PROVE TypeOK'
  BY <1>23 DEF ReplyConfirmed, Goes
<1>24. ASSUME NEW r \in Request, Fail(r) PROVE TypeOK'
  BY <1>24 DEF Fail
<1>25. CASE Tick
  BY <1>25 DEF Tick
<1>26. CASE DayPasses
  BY <1>26 DEF DayPasses
<1>27. CASE Restart
  BY <1>27 DEF Restart
<1>28. CASE UNCHANGED vars
  BY <1>28 DEF vars
<1> QED
  BY <1>1, <1>2, <1>3, <1>4, <1>5, <1>6, <1>7, <1>8, <1>9, <1>10, <1>11, <1>12, <1>13,
       <1>14, <1>15, <1>16, <1>17, <1>18, <1>19, <1>20, <1>21, <1>22, <1>23, <1>24,
       <1>25, <1>26, <1>27, <1>28 DEF Next, Step

LEMMA NextFlow == TypeOK /\ Flow /\ [Next]_vars => Flow'
<1> SUFFICES ASSUME TypeOK, Flow, [Next]_vars PROVE Flow'
  OBVIOUS
<1> USE SessionsAssumption DEF TypeOK, Op, Waiting, Minting, RefreshToken, ChangeToken,
       Second, Field, Flow, Promised, store, limit, request
<1>1. ASSUME NEW r \in Request, BeginRefresh(r) PROVE Flow'
  BY <1>1 DEF BeginRefresh, Goes, Asks
<1>2. ASSUME NEW r \in Request, BeginLogin(r) PROVE Flow'
  BY <1>2 DEF BeginLogin, Goes, Asks
<1>3. ASSUME NEW r \in Request, BeginLogout(r) PROVE Flow'
  BY <1>3 DEF BeginLogout, Goes, Asks
<1>4. ASSUME NEW r \in Request, BeginUnasked(r) PROVE Flow'
  BY <1>4 DEF BeginUnasked, Goes, Asks
<1>5. ASSUME NEW r \in Request, BeginConfirm(r) PROVE Flow'
  BY <1>5 DEF BeginConfirm, Goes, Asks
<1>6. ASSUME NEW r \in Request, BeginInitiate(r) PROVE Flow'
  BY <1>6 DEF BeginInitiate, Goes, Asks
<1>7. ASSUME NEW r \in Request, Refuse(r) PROVE Flow'
  BY <1>7 DEF Refuse, Goes, Asks
<1>8. ASSUME NEW r \in Request, FindByPassword(r) PROVE Flow'
  BY <1>8 DEF FindByPassword, Goes
<1>9. ASSUME NEW r \in Request, WrongPassword(r) PROVE Flow'
  BY <1>9 DEF WrongPassword, Goes
<1>10. ASSUME NEW r \in Request, FindByRefreshToken(r) PROVE Flow'
  BY <1>10 DEF FindByRefreshToken, Goes
<1>11. ASSUME NEW r \in Request, FindByChangeToken(r) PROVE Flow'
  BY <1>11 DEF FindByChangeToken, Goes
<1>12. ASSUME NEW r \in Request, FindUser(r) PROVE Flow'
  BY <1>12 DEF FindUser, Goes
<1>13. ASSUME NEW r \in Request, EmailFree(r) PROVE Flow'
  BY <1>13 DEF EmailFree, Goes
<1>14. ASSUME NEW r \in Request, CreateUser(r) PROVE Flow'
  BY <1>14 DEF CreateUser, Goes, Writes
<1>15. ASSUME NEW r \in Request, Sign(r) PROVE Flow'
  BY <1>15 DEF Sign, Goes
<1>16. ASSUME NEW r \in Request, WriteToken(r) PROVE Flow'
  BY <1>16 DEF WriteToken, Goes, Writes
<1>17. ASSUME NEW r \in Request, ClearToken(r) PROVE Flow'
  BY <1>17 DEF ClearToken, Goes, Writes
<1>18. ASSUME NEW r \in Request, ResetPassword(r) PROVE Flow'
  BY <1>18 DEF ResetPassword, Goes, Writes
<1>19. ASSUME NEW r \in Request, WriteChange(r) PROVE Flow'
  BY <1>19 DEF WriteChange, Goes, Writes
<1>20. ASSUME NEW r \in Request, ChangePassword(r) PROVE Flow'
  BY <1>20 DEF ChangePassword, Goes, Writes
<1>21. ASSUME NEW r \in Request, Revoke(r) PROVE Flow'
  BY <1>21 DEF Revoke, Goes, Writes
<1>22. ASSUME NEW r \in Request, Reply(r) PROVE Flow'
  BY <1>22 DEF Reply, Goes
<1>23. ASSUME NEW r \in Request, ReplyConfirmed(r) PROVE Flow'
  BY <1>23 DEF ReplyConfirmed, Goes
<1>24. ASSUME NEW r \in Request, Fail(r) PROVE Flow'
  BY <1>24 DEF Fail
<1>25. CASE Tick
  BY <1>25 DEF Tick
<1>26. CASE DayPasses
  BY <1>26 DEF DayPasses
<1>27. CASE Restart
  BY <1>27 DEF Restart
<1>28. CASE UNCHANGED vars
  BY <1>28 DEF vars
<1> QED
  BY <1>1, <1>2, <1>3, <1>4, <1>5, <1>6, <1>7, <1>8, <1>9, <1>10, <1>11, <1>12, <1>13,
       <1>14, <1>15, <1>16, <1>17, <1>18, <1>19, <1>20, <1>21, <1>22, <1>23, <1>24,
       <1>25, <1>26, <1>27, <1>28 DEF Next, Step

-----------------------------------------------------------------------------
(* What a step can do to the row and to what requests have of it           *)

\* What a request has written, for whom it came first, and whom it let in,
\* stays as it was.
Kept ==
    \A r \in Request :
        /\ \A f \in wrote[r] : f \in wrote'[r] /\ Value(r, f)' = Value(r, f)
        /\ pc[r] # "idle" => op'[r] = op[r] /\ given'[r] = given[r] /\ began'[r] = began[r]

\* A column keeps its value, or takes that of a request not yet answered.
RowWritten ==
    \/ UNCHANGED <<row, wrote>>
    \/ \E r \in Request, F \in SUBSET Field :
          /\ pc[r] \in Waiting
          /\ wrote' = [wrote EXCEPT ![r] = wrote[r] \cup F]
          /\ \A f \in F : row'[f] = Value(r, f)'
          /\ \A f \in Field \ F : row'[f] = row[f]

\* Who gets past the lookup has presented what the column held.
Past == {"sign", "write", "revoke", "reply", "done"}

LetIn ==
    \A q \in Request :
        op'[q] \in {"login", "initiate", "refresh", "confirm"} /\ pc'[q] \in Past =>
            \/ pc[q] \in Past
            \/ pc[q] = "find" /\ row[Key[op[q]]] = given[q]

LEMMA StepKept == TypeOK /\ Flow /\ [Next]_vars => Kept
<1> SUFFICES ASSUME TypeOK, Flow, [Next]_vars PROVE Kept
  OBVIOUS
<1> USE SessionsAssumption DEF TypeOK, Op, Waiting, Minting, RefreshToken, ChangeToken,
       Second, Field, Flow, Kept, Value, store, limit, request
<1>1. ASSUME NEW r \in Request, BeginRefresh(r) PROVE Kept
  BY <1>1 DEF BeginRefresh, Goes, Asks
<1>2. ASSUME NEW r \in Request, BeginLogin(r) PROVE Kept
  BY <1>2 DEF BeginLogin, Goes, Asks
<1>3. ASSUME NEW r \in Request, BeginLogout(r) PROVE Kept
  BY <1>3 DEF BeginLogout, Goes, Asks
<1>4. ASSUME NEW r \in Request, BeginUnasked(r) PROVE Kept
  BY <1>4 DEF BeginUnasked, Goes, Asks
<1>5. ASSUME NEW r \in Request, BeginConfirm(r) PROVE Kept
  BY <1>5 DEF BeginConfirm, Goes, Asks
<1>6. ASSUME NEW r \in Request, BeginInitiate(r) PROVE Kept
  BY <1>6 DEF BeginInitiate, Goes, Asks
<1>7. ASSUME NEW r \in Request, Refuse(r) PROVE Kept
  BY <1>7 DEF Refuse, Goes, Asks
<1>8. ASSUME NEW r \in Request, FindByPassword(r) PROVE Kept
  BY <1>8 DEF FindByPassword, Goes
<1>9. ASSUME NEW r \in Request, WrongPassword(r) PROVE Kept
  BY <1>9 DEF WrongPassword, Goes
<1>10. ASSUME NEW r \in Request, FindByRefreshToken(r) PROVE Kept
  BY <1>10 DEF FindByRefreshToken, Goes
<1>11. ASSUME NEW r \in Request, FindByChangeToken(r) PROVE Kept
  BY <1>11 DEF FindByChangeToken, Goes
<1>12. ASSUME NEW r \in Request, FindUser(r) PROVE Kept
  BY <1>12 DEF FindUser, Goes
<1>13. ASSUME NEW r \in Request, EmailFree(r) PROVE Kept
  BY <1>13 DEF EmailFree, Goes
<1>14. ASSUME NEW r \in Request, CreateUser(r) PROVE Kept
  BY <1>14 DEF CreateUser, Goes, Writes
<1>15. ASSUME NEW r \in Request, Sign(r) PROVE Kept
  BY <1>15 DEF Sign, Goes
<1>16. ASSUME NEW r \in Request, WriteToken(r) PROVE Kept
  BY <1>16 DEF WriteToken, Goes, Writes
<1>17. ASSUME NEW r \in Request, ClearToken(r) PROVE Kept
  BY <1>17 DEF ClearToken, Goes, Writes
<1>18. ASSUME NEW r \in Request, ResetPassword(r) PROVE Kept
  BY <1>18 DEF ResetPassword, Goes, Writes
<1>19. ASSUME NEW r \in Request, WriteChange(r) PROVE Kept
  BY <1>19 DEF WriteChange, Goes, Writes
<1>20. ASSUME NEW r \in Request, ChangePassword(r) PROVE Kept
  BY <1>20 DEF ChangePassword, Goes, Writes
<1>21. ASSUME NEW r \in Request, Revoke(r) PROVE Kept
  BY <1>21 DEF Revoke, Goes, Writes
<1>22. ASSUME NEW r \in Request, Reply(r) PROVE Kept
  BY <1>22 DEF Reply, Goes
<1>23. ASSUME NEW r \in Request, ReplyConfirmed(r) PROVE Kept
  BY <1>23 DEF ReplyConfirmed, Goes
<1>24. ASSUME NEW r \in Request, Fail(r) PROVE Kept
  BY <1>24 DEF Fail
<1>25. CASE Tick
  BY <1>25 DEF Tick
<1>26. CASE DayPasses
  BY <1>26 DEF DayPasses
<1>27. CASE Restart
  BY <1>27 DEF Restart
<1>28. CASE UNCHANGED vars
  BY <1>28 DEF vars
<1> QED
  BY <1>1, <1>2, <1>3, <1>4, <1>5, <1>6, <1>7, <1>8, <1>9, <1>10, <1>11, <1>12, <1>13,
       <1>14, <1>15, <1>16, <1>17, <1>18, <1>19, <1>20, <1>21, <1>22, <1>23, <1>24,
       <1>25, <1>26, <1>27, <1>28 DEF Next, Step

LEMMA StepRowWritten == TypeOK /\ Flow /\ [Next]_vars => RowWritten
<1> SUFFICES ASSUME TypeOK, Flow, [Next]_vars PROVE RowWritten
  OBVIOUS
<1> USE SessionsAssumption DEF TypeOK, Op, Waiting, Minting, RefreshToken, ChangeToken,
       Second, Field, store, limit, request
<1>1. ASSUME NEW r \in Request, BeginRefresh(r) PROVE RowWritten
  BY <1>1 DEF BeginRefresh, Goes, Asks, RowWritten
<1>2. ASSUME NEW r \in Request, BeginLogin(r) PROVE RowWritten
  BY <1>2 DEF BeginLogin, Goes, Asks, RowWritten
<1>3. ASSUME NEW r \in Request, BeginLogout(r) PROVE RowWritten
  BY <1>3 DEF BeginLogout, Goes, Asks, RowWritten
<1>4. ASSUME NEW r \in Request, BeginUnasked(r) PROVE RowWritten
  BY <1>4 DEF BeginUnasked, Goes, Asks, RowWritten
<1>5. ASSUME NEW r \in Request, BeginConfirm(r) PROVE RowWritten
  BY <1>5 DEF BeginConfirm, Goes, Asks, RowWritten
<1>6. ASSUME NEW r \in Request, BeginInitiate(r) PROVE RowWritten
  BY <1>6 DEF BeginInitiate, Goes, Asks, RowWritten
<1>7. ASSUME NEW r \in Request, Refuse(r) PROVE RowWritten
  BY <1>7 DEF Refuse, Goes, Asks, RowWritten
<1>8. ASSUME NEW r \in Request, FindByPassword(r) PROVE RowWritten
  BY <1>8 DEF FindByPassword, Goes, RowWritten
<1>9. ASSUME NEW r \in Request, WrongPassword(r) PROVE RowWritten
  BY <1>9 DEF WrongPassword, Goes, RowWritten
<1>10. ASSUME NEW r \in Request, FindByRefreshToken(r) PROVE RowWritten
  BY <1>10 DEF FindByRefreshToken, Goes, RowWritten
<1>11. ASSUME NEW r \in Request, FindByChangeToken(r) PROVE RowWritten
  BY <1>11 DEF FindByChangeToken, Goes, RowWritten
<1>12. ASSUME NEW r \in Request, FindUser(r) PROVE RowWritten
  BY <1>12 DEF FindUser, Goes, RowWritten
<1>13. ASSUME NEW r \in Request, EmailFree(r) PROVE RowWritten
  BY <1>13 DEF EmailFree, Goes, RowWritten
<1>14. ASSUME NEW r \in Request, CreateUser(r) PROVE RowWritten
  <2> DEFINE F == {"password"}
  <2>1. pc[r] \in Waiting /\ F \in SUBSET Field
    BY <1>14 DEF CreateUser, Goes
  <2>2. wrote' = [wrote EXCEPT ![r] = wrote[r] \cup F]
    BY <1>14 DEF CreateUser, Writes
  <2>3. \A f \in F : row'[f] = Value(r, f)'
    BY <1>14 DEF CreateUser, Goes, Value
  <2>4. \A f \in Field \ F : row'[f] = row[f]
    BY <1>14 DEF CreateUser
  <2> HIDE DEF F
  <2> QED
    BY <2>1, <2>2, <2>3, <2>4 DEF RowWritten
<1>15. ASSUME NEW r \in Request, Sign(r) PROVE RowWritten
  BY <1>15 DEF Sign, Goes, RowWritten
<1>16. ASSUME NEW r \in Request, WriteToken(r) PROVE RowWritten
  <2> DEFINE F == {"token"}
  <2>1. pc[r] \in Waiting /\ F \in SUBSET Field
    BY <1>16 DEF WriteToken, Goes
  <2>2. wrote' = [wrote EXCEPT ![r] = wrote[r] \cup F]
    BY <1>16 DEF WriteToken, Writes
  <2>3. \A f \in F : row'[f] = Value(r, f)'
    BY <1>16 DEF WriteToken, Goes, Value
  <2>4. \A f \in Field \ F : row'[f] = row[f]
    BY <1>16 DEF WriteToken
  <2> HIDE DEF F
  <2> QED
    BY <2>1, <2>2, <2>3, <2>4 DEF RowWritten
<1>17. ASSUME NEW r \in Request, ClearToken(r) PROVE RowWritten
  <2> DEFINE F == {"token"}
  <2>1. pc[r] \in Waiting /\ F \in SUBSET Field
    BY <1>17 DEF ClearToken, Goes
  <2>2. wrote' = [wrote EXCEPT ![r] = wrote[r] \cup F]
    BY <1>17 DEF ClearToken, Writes
  <2>3. \A f \in F : row'[f] = Value(r, f)'
    BY <1>17 DEF ClearToken, Goes, Value
  <2>4. \A f \in Field \ F : row'[f] = row[f]
    BY <1>17 DEF ClearToken
  <2> HIDE DEF F
  <2> QED
    BY <2>1, <2>2, <2>3, <2>4 DEF RowWritten
<1>18. ASSUME NEW r \in Request, ResetPassword(r) PROVE RowWritten
  <2> DEFINE F == {"password"}
  <2>1. pc[r] \in Waiting /\ F \in SUBSET Field
    BY <1>18 DEF ResetPassword, Goes
  <2>2. wrote' = [wrote EXCEPT ![r] = wrote[r] \cup F]
    BY <1>18 DEF ResetPassword, Writes
  <2>3. \A f \in F : row'[f] = Value(r, f)'
    BY <1>18 DEF ResetPassword, Goes, Value
  <2>4. \A f \in Field \ F : row'[f] = row[f]
    BY <1>18 DEF ResetPassword
  <2> HIDE DEF F
  <2> QED
    BY <2>1, <2>2, <2>3, <2>4 DEF RowWritten
<1>19. ASSUME NEW r \in Request, WriteChange(r) PROVE RowWritten
  <2> DEFINE F == {"change"}
  <2>1. pc[r] \in Waiting /\ F \in SUBSET Field
    BY <1>19 DEF WriteChange, Goes
  <2>2. wrote' = [wrote EXCEPT ![r] = wrote[r] \cup F]
    BY <1>19 DEF WriteChange, Writes
  <2>3. \A f \in F : row'[f] = Value(r, f)'
    BY <1>19 DEF WriteChange, Goes, Value
  <2>4. \A f \in Field \ F : row'[f] = row[f]
    BY <1>19 DEF WriteChange
  <2> HIDE DEF F
  <2> QED
    BY <2>1, <2>2, <2>3, <2>4 DEF RowWritten
<1>20. ASSUME NEW r \in Request, ChangePassword(r) PROVE RowWritten
  <2> DEFINE F == {"password", "change"}
  <2>1. pc[r] \in Waiting /\ F \in SUBSET Field
    BY <1>20 DEF ChangePassword, Goes
  <2>2. wrote' = [wrote EXCEPT ![r] = wrote[r] \cup F]
    BY <1>20 DEF ChangePassword, Writes
  <2>3. \A f \in F : row'[f] = Value(r, f)'
    BY <1>20 DEF ChangePassword, Goes, Value
  <2>4. \A f \in Field \ F : row'[f] = row[f]
    BY <1>20 DEF ChangePassword
  <2> HIDE DEF F
  <2> QED
    BY <2>1, <2>2, <2>3, <2>4 DEF RowWritten
<1>21. ASSUME NEW r \in Request, Revoke(r) PROVE RowWritten
  <2> DEFINE F == {"token"}
  <2>1. op[r] = "confirm"
    BY <1>21 DEF Revoke, Goes, Flow
  <2>2. pc[r] \in Waiting /\ F \in SUBSET Field
    BY <1>21 DEF Revoke, Goes
  <2>3. wrote' = [wrote EXCEPT ![r] = wrote[r] \cup F]
    BY <1>21 DEF Revoke, Writes
  <2>4. \A f \in F : row'[f] = Value(r, f)'
    BY <1>21, <2>1 DEF Revoke, Goes, Value
  <2>5. \A f \in Field \ F : row'[f] = row[f]
    BY <1>21 DEF Revoke
  <2> HIDE DEF F
  <2> QED
    BY <2>2, <2>3, <2>4, <2>5 DEF RowWritten
<1>22. ASSUME NEW r \in Request, Reply(r) PROVE RowWritten
  BY <1>22 DEF Reply, Goes, RowWritten
<1>23. ASSUME NEW r \in Request, ReplyConfirmed(r) PROVE RowWritten
  BY <1>23 DEF ReplyConfirmed, Goes, RowWritten
<1>24. ASSUME NEW r \in Request, Fail(r) PROVE RowWritten
  BY <1>24 DEF Fail, RowWritten
<1>25. CASE Tick
  BY <1>25 DEF Tick, RowWritten
<1>26. CASE DayPasses
  BY <1>26 DEF DayPasses, RowWritten
<1>27. CASE Restart
  BY <1>27 DEF Restart, RowWritten
<1>28. CASE UNCHANGED vars
  BY <1>28 DEF vars, RowWritten
<1> QED
  BY <1>1, <1>2, <1>3, <1>4, <1>5, <1>6, <1>7, <1>8, <1>9, <1>10, <1>11, <1>12, <1>13,
       <1>14, <1>15, <1>16, <1>17, <1>18, <1>19, <1>20, <1>21, <1>22, <1>23, <1>24,
       <1>25, <1>26, <1>27, <1>28 DEF Next, Step

LEMMA StepLetIn == TypeOK /\ Flow /\ [Next]_vars => LetIn
<1> SUFFICES ASSUME TypeOK, Flow, [Next]_vars PROVE LetIn
  OBVIOUS
<1> USE SessionsAssumption DEF TypeOK, Op, Waiting, Minting, RefreshToken, ChangeToken,
       Second, Field, Flow, LetIn, Past, Key, store, limit, request
<1>1. ASSUME NEW r \in Request, BeginRefresh(r) PROVE LetIn
  BY <1>1 DEF BeginRefresh, Goes, Asks
<1>2. ASSUME NEW r \in Request, BeginLogin(r) PROVE LetIn
  BY <1>2 DEF BeginLogin, Goes, Asks
<1>3. ASSUME NEW r \in Request, BeginLogout(r) PROVE LetIn
  BY <1>3 DEF BeginLogout, Goes, Asks
<1>4. ASSUME NEW r \in Request, BeginUnasked(r) PROVE LetIn
  BY <1>4 DEF BeginUnasked, Goes, Asks
<1>5. ASSUME NEW r \in Request, BeginConfirm(r) PROVE LetIn
  BY <1>5 DEF BeginConfirm, Goes, Asks
<1>6. ASSUME NEW r \in Request, BeginInitiate(r) PROVE LetIn
  BY <1>6 DEF BeginInitiate, Goes, Asks
<1>7. ASSUME NEW r \in Request, Refuse(r) PROVE LetIn
  BY <1>7 DEF Refuse, Goes, Asks
<1>8. ASSUME NEW r \in Request, FindByPassword(r) PROVE LetIn
  BY <1>8 DEF FindByPassword, Goes
<1>9. ASSUME NEW r \in Request, WrongPassword(r) PROVE LetIn
  BY <1>9 DEF WrongPassword, Goes
<1>10. ASSUME NEW r \in Request, FindByRefreshToken(r) PROVE LetIn
  BY <1>10 DEF FindByRefreshToken, Goes
<1>11. ASSUME NEW r \in Request, FindByChangeToken(r) PROVE LetIn
  BY <1>11 DEF FindByChangeToken, Goes
<1>12. ASSUME NEW r \in Request, FindUser(r) PROVE LetIn
  BY <1>12 DEF FindUser, Goes
<1>13. ASSUME NEW r \in Request, EmailFree(r) PROVE LetIn
  BY <1>13 DEF EmailFree, Goes
<1>14. ASSUME NEW r \in Request, CreateUser(r) PROVE LetIn
  BY <1>14 DEF CreateUser, Goes, Writes
<1>15. ASSUME NEW r \in Request, Sign(r) PROVE LetIn
  BY <1>15 DEF Sign, Goes
<1>16. ASSUME NEW r \in Request, WriteToken(r) PROVE LetIn
  BY <1>16 DEF WriteToken, Goes, Writes
<1>17. ASSUME NEW r \in Request, ClearToken(r) PROVE LetIn
  BY <1>17 DEF ClearToken, Goes, Writes
<1>18. ASSUME NEW r \in Request, ResetPassword(r) PROVE LetIn
  BY <1>18 DEF ResetPassword, Goes, Writes
<1>19. ASSUME NEW r \in Request, WriteChange(r) PROVE LetIn
  BY <1>19 DEF WriteChange, Goes, Writes
<1>20. ASSUME NEW r \in Request, ChangePassword(r) PROVE LetIn
  BY <1>20 DEF ChangePassword, Goes, Writes
<1>21. ASSUME NEW r \in Request, Revoke(r) PROVE LetIn
  BY <1>21 DEF Revoke, Goes, Writes
<1>22. ASSUME NEW r \in Request, Reply(r) PROVE LetIn
  BY <1>22 DEF Reply, Goes
<1>23. ASSUME NEW r \in Request, ReplyConfirmed(r) PROVE LetIn
  BY <1>23 DEF ReplyConfirmed, Goes
<1>24. ASSUME NEW r \in Request, Fail(r) PROVE LetIn
  BY <1>24 DEF Fail
<1>25. CASE Tick
  BY <1>25 DEF Tick
<1>26. CASE DayPasses
  BY <1>26 DEF DayPasses
<1>27. CASE Restart
  BY <1>27 DEF Restart
<1>28. CASE UNCHANGED vars
  BY <1>28 DEF vars
<1> QED
  BY <1>1, <1>2, <1>3, <1>4, <1>5, <1>6, <1>7, <1>8, <1>9, <1>10, <1>11, <1>12, <1>13,
       <1>14, <1>15, <1>16, <1>17, <1>18, <1>19, <1>20, <1>21, <1>22, <1>23, <1>24,
       <1>25, <1>26, <1>27, <1>28 DEF Next, Step

-----------------------------------------------------------------------------
(* One lemma per part of the invariant                                     *)

LEMMA NextFresh == TypeOK /\ Flow /\ Fresh /\ [Next]_vars => Fresh'
<1> SUFFICES ASSUME TypeOK, Flow, Fresh, [Next]_vars,
                    NEW f \in Field, NEW r \in Request, f \in wrote'[r]
             PROVE  WrittenSince(r, f, row[f])'
  BY DEF Fresh
<1>1. Kept
  BY StepKept
<1>2. pc[r] # "idle" /\ f \in wrote[r] => began'[r] = began[r]
  BY <1>1 DEF Kept
<1>3. ASSUME f \in wrote[r], row'[f] = row[f]
      PROVE  WrittenSince(r, f, row[f])'
  <2>1. PICK m \in Request : f \in wrote[m] /\ m \notin began[r] /\ Value(m, f) = row[f]
    BY <1>3 DEF Fresh, WrittenSince
  <2>2. pc[r] # "idle"
    BY <1>3 DEF Flow
  <2>3. f \in wrote'[m] /\ m \notin began'[r] /\ Value(m, f)' = row'[f]
    BY <1>1, <1>2, <1>3, <2>1, <2>2 DEF Kept
  <2> QED
    BY <2>3 DEF WrittenSince
<1>4. CASE UNCHANGED <<row, wrote>>
  BY <1>3, <1>4
<1>5. ASSUME NEW w \in Request, NEW F \in SUBSET Field,
             pc[w] \in Waiting,
             wrote' = [wrote EXCEPT ![w] = wrote[w] \cup F],
             \A g \in F : row'[g] = Value(w, g)',
             \A g \in Field \ F : row'[g] = row[g]
      PROVE  WrittenSince(r, f, row[f])'
  <2>1. CASE f \in F
    <3>1. f \in wrote'[w] /\ Value(w, f)' = row'[f]
      BY <1>5, <2>1 DEF TypeOK
    <3>2. pc[r] # "idle"
      <4>1. CASE r = w
        BY <1>5, <4>1 DEF Waiting
      <4>2. CASE r # w
        BY <1>5, <4>2 DEF Flow, TypeOK
      <4> QED
        BY <4>1, <4>2
    <3>3. w \notin began'[r]
      BY <1>1, <1>5, <3>2 DEF Kept, Flow, Waiting
    <3> QED
      BY <3>1, <3>3 DEF WrittenSince
  <2>2. CASE f \notin F
    BY <1>3, <1>5, <2>2 DEF TypeOK
  <2> QED
    BY <2>1, <2>2
<1> QED
  BY <1>4, <1>5, StepRowWritten DEF RowWritten

LEMMA NextSuperseded ==
    TypeOK /\ Flow /\ Fresh /\ SupersededRefused /\ [Next]_vars => SupersededRefused'
<1> SUFFICES ASSUME TypeOK, Flow, Fresh, SupersededRefused, [Next]_vars,
                    NEW q \in Request, op'[q] \in DOMAIN Key, pc'[q] \in Past,
                    NEW r \in began'[q], Key[op'[q]] \in Promised[op'[r]]
             PROVE  WrittenSince(r, Key[op[q]], given[q])'
  BY DEF SupersededRefused, Past
<1>1. Kept /\ LetIn
  BY StepKept, StepLetIn
<1>2. DOMAIN Key = {"login", "initiate", "refresh", "confirm"} /\ \A o \in DOMAIN Key : Key[o] \in Field
  BY DEF Key, Field
<1>3. pc[q] \in Past \/ (pc[q] = "find" /\ row[Key[op[q]]] = given[q])
  BY <1>1, <1>2 DEF LetIn
<1>4. op'[q] = op[q] /\ given'[q] = given[q] /\ began'[q] = began[q]
  BY <1>1, <1>3 DEF Kept, Past
<1>5. r \in Request /\ pc[r] = "done"
  BY <1>4 DEF Flow, TypeOK
<1>6. op'[r] = op[r] /\ began'[r] = began[r]
  BY <1>1, <1>5 DEF Kept
<1>0. PICK f \in Field : f = Key[op[q]]
  BY <1>2, <1>4
<1>7. f \in Field /\ f \in Promised[op[r]]
  BY <1>0, <1>2, <1>4, <1>6
<1>8. WrittenSince(r, f, given[q])
  <2>1. CASE pc[q] \in Past
    BY <1>0, <1>4, <1>6, <2>1 DEF SupersededRefused, Past
  <2>2. CASE pc[q] = "find" /\ row[f] = given[q]
    <3>1. f \in wrote[r]
      BY <1>5, <1>7 DEF Flow
    <3> QED
      BY <1>5, <1>7, <2>2, <3>1 DEF Fresh
  <2> QED
    BY <1>0, <1>3, <2>1, <2>2
<1>9. PICK m \in Request : f \in wrote[m] /\ m \notin began[r] /\ Value(m, f) = given[q]
  BY <1>8 DEF WrittenSince
<1>10. f \in wrote'[m] /\ m \notin began'[r] /\ Value(m, f)' = given'[q]
  BY <1>1, <1>4, <1>6, <1>7, <1>9 DEF Kept
<1>11. Key[op'[q]] = f
  BY <1>0, <1>4
<1> QED
  BY <1>10, <1>11 DEF WrittenSince

\* Trying looks at the counter's variables and two facts about pc; most steps
\* change none.
TryingUndisturbed ==
    /\ UNCHANGED <<tries, missed, counted>>
    /\ \A q \in Request :
          /\ pc[q] = "failed" => pc'[q] = "failed"
          /\ pc'[q] = "find" /\ op'[q] = "initiate" => pc[q] = "find" /\ op[q] = "initiate"

LEMMA TryingFrame == TypeOK /\ Trying /\ TryingUndisturbed => Trying'
BY DEF TypeOK, Trying, TryingUndisturbed

LEMMA NextTrying == TypeOK /\ Flow /\ Trying /\ [Next]_vars => Trying'
<1> SUFFICES ASSUME TypeOK, Flow, Trying, [Next]_vars PROVE Trying'
  OBVIOUS
<1> USE SessionsAssumption DEF TypeOK, Waiting, store, limit, request
<1>1. ASSUME NEW r \in Request, BeginRefresh(r) PROVE Trying'
  BY <1>1, TryingFrame DEF BeginRefresh, Goes, Asks, TryingUndisturbed
<1>2. ASSUME NEW r \in Request, BeginLogin(r) PROVE Trying'
  BY <1>2, TryingFrame DEF BeginLogin, Goes, Asks, TryingUndisturbed
<1>3. ASSUME NEW r \in Request, BeginLogout(r) PROVE Trying'
  BY <1>3, TryingFrame DEF BeginLogout, Goes, Asks, TryingUndisturbed
<1>4. ASSUME NEW r \in Request, BeginUnasked(r) PROVE Trying'
  BY <1>4, TryingFrame DEF BeginUnasked, Goes, Asks, TryingUndisturbed
<1>5. ASSUME NEW r \in Request, BeginConfirm(r) PROVE Trying'
  BY <1>5, TryingFrame DEF BeginConfirm, Goes, Asks, TryingUndisturbed
<1>6. ASSUME NEW r \in Request, BeginInitiate(r) PROVE Trying'
  <2>1. /\ pc[r] = "idle" /\ pc' = [pc EXCEPT ![r] = "find"]
        /\ \A q \in Request \ {r} : op'[q] = op[q]
        /\ counted' = [counted EXCEPT ![r] = missed']
        /\ missed' = missed \/ missed' = {}
    BY <1>6 DEF BeginInitiate, Goes, Asks
  <2>2. IsFiniteSet(missed') /\ Cardinality(missed') <= tries' /\ Cardinality(missed')
       < MaxTries
    <3>1. CASE tries > 0 /\ dayPast
      BY <1>6, <3>1, FS_EmptySet DEF BeginInitiate
    <3>2. CASE ~(tries > 0 /\ dayPast)
      <4>1. missed' = missed /\ tries' = tries /\ tries < MaxTries
        BY <1>6, <3>2 DEF BeginInitiate, UnderLimit
      <4>2. IsFiniteSet(missed) /\ Cardinality(missed) <= tries /\ Cardinality(missed)
       \in Nat
        BY FS_CardinalityType DEF Trying
      <4> QED
        BY <4>1, <4>2
    <3> QED
      BY <3>1, <3>2
  <2>3. r \notin missed /\ \A q \in missed' : pc'[q] = "failed" /\ counted'[q] = counted[q]
    BY <2>1 DEF Trying
  <2>4. \A r0 \in Request :
           /\ \A q \in counted'[r0] : pc'[q] = "failed"
           /\ pc'[r0] = "find" /\ op'[r0] = "initiate" =>
                 IsFiniteSet(counted'[r0]) /\ Cardinality(counted'[r0]) < MaxTries
    BY <2>1, <2>2, <2>3 DEF Trying
  <2>5. ASSUME NEW S \in SUBSET missed',
               \A m1, m2 \in S : m1 = m2 \/ m1 \in counted'[m2] \/ m2 \in counted'[m1]
        PROVE  Cardinality(S) <= MaxTries
    BY <2>1, <2>3, <2>5 DEF Trying
  <2> QED
    BY <2>2, <2>3, <2>4, <2>5 DEF Trying
<1>7. ASSUME NEW r \in Request, Refuse(r) PROVE Trying'
  BY <1>7, TryingFrame DEF Refuse, Goes, Asks, TryingUndisturbed
<1>8. ASSUME NEW r \in Request, FindByPassword(r) PROVE Trying'
  BY <1>8, TryingFrame DEF FindByPassword, Goes, TryingUndisturbed
<1>9. ASSUME NEW r \in Request, WrongPassword(r) PROVE Trying'
  <2>1. /\ pc[r] = "find" /\ op[r] = "initiate" /\ pc' = [pc EXCEPT ![r] = "failed"]
        /\ missed' = missed \cup {r} /\ tries' = tries + 1
        /\ counted' = counted /\ op' = op
    BY <1>9 DEF WrongPassword, Goes
  <2>2. r \notin missed /\ \A q \in missed : r \notin counted[q]
    BY <2>1 DEF Trying
  <2>3. IsFiniteSet(missed') /\ Cardinality(missed') <= tries'
    <3>1. IsFiniteSet(missed) /\ Cardinality(missed) <= tries /\ Cardinality(missed) \in Nat
      BY FS_CardinalityType DEF Trying
    <3>2. IsFiniteSet(missed \cup {r}) /\ Cardinality(missed \cup {r}) =
       Cardinality(missed) + 1
      BY <2>2, <3>1, FS_AddElement
    <3> QED
      BY <2>1, <3>1, <3>2
  <2>4. \A r0 \in Request :
           /\ \A q \in counted'[r0] : pc'[q] = "failed"
           /\ pc'[r0] = "find" /\ op'[r0] = "initiate" =>
                 IsFiniteSet(counted'[r0]) /\ Cardinality(counted'[r0]) < MaxTries
    BY <2>1 DEF Trying
  <2>5. ASSUME NEW S \in SUBSET missed',
               \A m1, m2 \in S : m1 = m2 \/ m1 \in counted[m2] \/ m2 \in counted[m1]
        PROVE  Cardinality(S) <= MaxTries
    <3>1. CASE r \notin S
      <4>1. S \in SUBSET missed
        BY <2>1, <3>1
      <4> QED
        BY <2>5, <4>1 DEF Trying
    <3>2. CASE r \in S
      <4>1. S \ {r} \in SUBSET counted[r]
        BY <2>1, <2>2, <2>5, <3>2
      <4>2. /\ IsFiniteSet(counted[r]) /\ Cardinality(counted[r]) \in Nat
            /\ Cardinality(counted[r]) < MaxTries
        BY <2>1, FS_CardinalityType DEF Trying
      <4>3. IsFiniteSet(S \ {r}) /\ Cardinality(S \ {r}) <= Cardinality(counted[r])
        BY <4>1, <4>2, FS_Subset
      <4>4. Cardinality((S \ {r}) \cup {r}) = Cardinality(S \ {r}) + 1
        BY <4>3, FS_AddElement
      <4>5. (S \ {r}) \cup {r} = S /\ Cardinality(S \ {r}) \in Nat
        BY <3>2, <4>3, FS_CardinalityType
      <4>6. Cardinality(S) = Cardinality(S \ {r}) + 1
        BY <4>4, <4>5
      <4> QED
        BY <4>2, <4>3, <4>5, <4>6
    <3> QED
      BY <3>1, <3>2
  <2>6. \A q \in missed' : pc'[q] = "failed"
    BY <2>1 DEF Trying
  <2> QED
    BY <2>1, <2>3, <2>4, <2>5, <2>6 DEF Trying
<1>10. ASSUME NEW r \in Request, FindByRefreshToken(r) PROVE Trying'
  BY <1>10, TryingFrame DEF FindByRefreshToken, Goes, TryingUndisturbed
<1>11. ASSUME NEW r \in Request, FindByChangeToken(r) PROVE Trying'
  BY <1>11, TryingFrame DEF FindByChangeToken, Goes, TryingUndisturbed
<1>12. ASSUME NEW r \in Request, FindUser(r) PROVE Trying'
  BY <1>12, TryingFrame DEF FindUser, Goes, TryingUndisturbed
<1>13. ASSUME NEW r \in Request, EmailFree(r) PROVE Trying'
  BY <1>13, TryingFrame DEF EmailFree, Goes, TryingUndisturbed
<1>14. ASSUME NEW r \in Request, CreateUser(r) PROVE Trying'
  BY <1>14, TryingFrame DEF CreateUser, Goes, TryingUndisturbed
<1>15. ASSUME NEW r \in Request, Sign(r) PROVE Trying'
  BY <1>15, TryingFrame DEF Sign, Goes, TryingUndisturbed
<1>16. ASSUME NEW r \in Request, WriteToken(r) PROVE Trying'
  BY <1>16, TryingFrame DEF WriteToken, Goes, TryingUndisturbed
<1>17. ASSUME NEW r \in Request, ClearToken(r) PROVE Trying'
  BY <1>17, TryingFrame DEF ClearToken, Goes, TryingUndisturbed
<1>18. ASSUME NEW r \in Request, ResetPassword(r) PROVE Trying'
  BY <1>18, TryingFrame DEF ResetPassword, Goes, TryingUndisturbed
<1>19. ASSUME NEW r \in Request, WriteChange(r) PROVE Trying'
  BY <1>19, TryingFrame DEF WriteChange, Goes, TryingUndisturbed
<1>20. ASSUME NEW r \in Request, ChangePassword(r) PROVE Trying'
  BY <1>20, TryingFrame DEF ChangePassword, Goes, TryingUndisturbed
<1>21. ASSUME NEW r \in Request, Revoke(r) PROVE Trying'
  BY <1>21, TryingFrame DEF Revoke, Goes, TryingUndisturbed
<1>22. ASSUME NEW r \in Request, Reply(r) PROVE Trying'
  BY <1>22, TryingFrame DEF Reply, Goes, TryingUndisturbed
<1>23. ASSUME NEW r \in Request, ReplyConfirmed(r) PROVE Trying'
  <2>1. /\ missed' = {} /\ tries' = 0 /\ counted' = counted
        /\ \A q \in Request :
              /\ pc[q] = "failed" => pc'[q] = "failed"
              /\ pc'[q] = "find" => pc[q] = "find" /\ op'[q] = op[q]
    BY <1>23 DEF ReplyConfirmed, Goes
  <2>2. Cardinality({}) = 0 /\ IsFiniteSet({}) /\ SUBSET {} = {{}}
    BY FS_EmptySet
  <2>3. \A r0 \in Request :
           /\ \A q \in counted'[r0] : pc'[q] = "failed"
           /\ pc'[r0] = "find" /\ op'[r0] = "initiate" =>
                 IsFiniteSet(counted'[r0]) /\ Cardinality(counted'[r0]) < MaxTries
    BY <2>1 DEF Trying
  <2> QED
    BY <2>1, <2>2, <2>3 DEF Trying
<1>24. ASSUME NEW r \in Request, Fail(r) PROVE Trying'
  BY <1>24, TryingFrame DEF Fail, TryingUndisturbed
<1>25. CASE Tick
  BY <1>25, TryingFrame DEF Tick, TryingUndisturbed
<1>26. CASE DayPasses
  BY <1>26, TryingFrame DEF DayPasses, TryingUndisturbed
<1>27. CASE Restart
  <2>1. /\ missed' = {} /\ tries' = 0 /\ counted' = counted
        /\ \A q \in Request :
              /\ pc[q] = "failed" => pc'[q] = "failed"
              /\ pc'[q] = "find" => pc[q] = "find" /\ op'[q] = op[q]
    BY <1>27 DEF Restart
  <2>2. Cardinality({}) = 0 /\ IsFiniteSet({}) /\ SUBSET {} = {{}}
    BY FS_EmptySet
  <2>3. \A r0 \in Request :
           /\ \A q \in counted'[r0] : pc'[q] = "failed"
           /\ pc'[r0] = "find" /\ op'[r0] = "initiate" =>
                 IsFiniteSet(counted'[r0]) /\ Cardinality(counted'[r0]) < MaxTries
    BY <2>1 DEF Trying
  <2> QED
    BY <2>1, <2>2, <2>3 DEF Trying
<1>28. CASE UNCHANGED vars
  BY <1>28, TryingFrame DEF vars, TryingUndisturbed
<1> QED
  BY <1>1, <1>2, <1>3, <1>4, <1>5, <1>6, <1>7, <1>8, <1>9, <1>10, <1>11, <1>12, <1>13,
       <1>14, <1>15, <1>16, <1>17, <1>18, <1>19, <1>20, <1>21, <1>22, <1>23, <1>24,
       <1>25, <1>26, <1>27, <1>28 DEF Next, Step

-----------------------------------------------------------------------------
(* The invariant, and the properties it implies                            *)

LEMMA InitIInv == Init => IInv
<1> SUFFICES ASSUME Init PROVE IInv
  OBVIOUS
<1> USE SessionsAssumption
<1>1. TypeOK
  <2>1. row \in [password : Password \cup {Null}, token : RefreshToken \cup {Null},
                 change : ChangeToken \cup {Null}]
    BY DEF Init, RefreshToken, ChangeToken, Second, Field
  <2>2. clock \in Second
    BY DEF Init, Second
  <2>3. 0 \in Second
    BY DEF Second
  <2> QED
    BY <2>1, <2>2, <2>3 DEF Init, TypeOK, Op, Waiting
<1>2. \A r \in Request : pc[r] = "idle" /\ op[r] = "logout" /\ wrote[r] = {} /\ began[r] = {}
                         /\ counted[r] = {}
  BY DEF Init
<1>3. Flow
  BY <1>2 DEF Flow
<1>4. Fresh
  BY <1>2 DEF Fresh
<1>5. SupersededRefused
  BY <1>2 DEF SupersededRefused
<1>6. Trying
  <2>1. missed = {} /\ tries = 0
    BY DEF Init
  <2>2. Cardinality({}) = 0 /\ IsFiniteSet({}) /\ SUBSET {} = {{}}
    BY FS_EmptySet
  <2> QED
    BY <1>2, <2>1, <2>2 DEF Trying
<1> QED
  BY <1>1, <1>3, <1>4, <1>5, <1>6 DEF IInv

LEMMA NextIInv == IInv /\ [Next]_vars => IInv'
BY NextTypeOK, NextFlow, NextFresh, NextSuperseded, NextTrying DEF IInv

LEMMA InductiveInvariant == Spec => []IInv
<1>1. QED
  BY InitIInv, NextIInv, PTL DEF Spec

(* Every variable keeps its type: every statement of every handler leaves  *)
(* the row, the counter and the requests in their sets.                    *)
THEOREM TypeCorrect == Spec => []TypeOK
<1>1. IInv => TypeOK
  BY DEF IInv
<1> QED
  BY <1>1, InductiveInvariant, PTL

(* Nobody is let in with a password or a token that had been replaced, and *)
(* not written again, before they began.                                   *)
THEOREM SupersededIsRefused == Spec => []SupersededRefused
<1>1. IInv => SupersededRefused
  BY DEF IInv
<1> QED
  BY <1>1, InductiveInvariant, PTL

(* What a login, a refresh, a logout, a reset or a password change has     *)
(* confirmed is undone only by requests it did not come after.             *)
THEOREM ConfirmedWritesStay == Spec => []ConfirmedStays
<1>1. IInv => ConfirmedStays
  <2> SUFFICES ASSUME IInv, NEW r \in Request, pc[r] = "done", NEW f \in Promised[op[r]]
               PROVE  WrittenSince(r, f, row[f])
    BY DEF ConfirmedStays
  <2>1. f \in wrote[r] /\ wrote[r] \subseteq Field
    BY DEF IInv, Flow, TypeOK
  <2> QED
    BY <2>1 DEF IInv, Fresh
<1> QED
  BY <1>1, InductiveInvariant, PTL

(* More wrong passwords than the limit mean that two of them had passed    *)
(* the limit without either counting the other.                            *)
THEOREM TriesLimitHolds == Spec => []TriesExcessOverlaps
<1>1. IInv => TriesExcessOverlaps
  <2> SUFFICES ASSUME IInv, Cardinality(missed) > MaxTries
               PROVE  \E m1, m2 \in missed :
                         m1 # m2 /\ m1 \notin counted[m2] /\ m2 \notin counted[m1]
    BY DEF TriesExcessOverlaps
  <2>1. Cardinality(missed) \in Nat
    BY FS_CardinalityType DEF IInv, Trying
  <2>2. ~ (Cardinality(missed) <= MaxTries)
    BY <2>1, SessionsAssumption
  <2> QED
    BY <2>2 DEF IInv, Trying
<1> QED
  BY <1>1, InductiveInvariant, PTL

-----------------------------------------------------------------------------
(* The implementation of SessionsPromise                                   *)

\* What r has written by the time it is at pc[r], exactly.
Exactly ==
    \A r \in Request :
        /\ pc[r] \in {"sign", "write"} =>
              wrote[r] = IF op[r] = "register" THEN {"password"} ELSE {}
        /\ pc[r] = "revoke" => wrote[r] = {"password", "change"}
        /\ pc[r] \in {"reply", "done"} => wrote[r] = Promised[op[r]]

\* A request asks what SessionsPromise knows.
Asking == \A r \in Request : Asked[r] \in Promise!Ask

LEMMA NextExactly == TypeOK /\ Flow /\ Exactly /\ [Next]_vars => Exactly'
<1> SUFFICES ASSUME TypeOK, Flow, Exactly, [Next]_vars PROVE Exactly'
  OBVIOUS
<1> USE SessionsAssumption DEF TypeOK, Op, Waiting, Minting, Field, Flow, Exactly, Promised,
       store, limit, request
<1>1. ASSUME NEW r \in Request, BeginRefresh(r) PROVE Exactly'
  BY <1>1 DEF BeginRefresh, Goes, Asks
<1>2. ASSUME NEW r \in Request, BeginLogin(r) PROVE Exactly'
  BY <1>2 DEF BeginLogin, Goes, Asks
<1>3. ASSUME NEW r \in Request, BeginLogout(r) PROVE Exactly'
  BY <1>3 DEF BeginLogout, Goes, Asks
<1>4. ASSUME NEW r \in Request, BeginUnasked(r) PROVE Exactly'
  BY <1>4 DEF BeginUnasked, Goes, Asks
<1>5. ASSUME NEW r \in Request, BeginConfirm(r) PROVE Exactly'
  BY <1>5 DEF BeginConfirm, Goes, Asks
<1>6. ASSUME NEW r \in Request, BeginInitiate(r) PROVE Exactly'
  BY <1>6 DEF BeginInitiate, Goes, Asks
<1>7. ASSUME NEW r \in Request, Refuse(r) PROVE Exactly'
  BY <1>7 DEF Refuse, Goes, Asks
<1>8. ASSUME NEW r \in Request, FindByPassword(r) PROVE Exactly'
  BY <1>8 DEF FindByPassword, Goes
<1>9. ASSUME NEW r \in Request, WrongPassword(r) PROVE Exactly'
  BY <1>9 DEF WrongPassword, Goes
<1>10. ASSUME NEW r \in Request, FindByRefreshToken(r) PROVE Exactly'
  BY <1>10 DEF FindByRefreshToken, Goes
<1>11. ASSUME NEW r \in Request, FindByChangeToken(r) PROVE Exactly'
  BY <1>11 DEF FindByChangeToken, Goes
<1>12. ASSUME NEW r \in Request, FindUser(r) PROVE Exactly'
  BY <1>12 DEF FindUser, Goes
<1>13. ASSUME NEW r \in Request, EmailFree(r) PROVE Exactly'
  BY <1>13 DEF EmailFree, Goes
<1>14. ASSUME NEW r \in Request, CreateUser(r) PROVE Exactly'
  BY <1>14 DEF CreateUser, Goes, Writes
<1>15. ASSUME NEW r \in Request, Sign(r) PROVE Exactly'
  BY <1>15 DEF Sign, Goes
<1>16. ASSUME NEW r \in Request, WriteToken(r) PROVE Exactly'
  BY <1>16 DEF WriteToken, Goes, Writes
<1>17. ASSUME NEW r \in Request, ClearToken(r) PROVE Exactly'
  BY <1>17 DEF ClearToken, Goes, Writes
<1>18. ASSUME NEW r \in Request, ResetPassword(r) PROVE Exactly'
  BY <1>18 DEF ResetPassword, Goes, Writes
<1>19. ASSUME NEW r \in Request, WriteChange(r) PROVE Exactly'
  BY <1>19 DEF WriteChange, Goes, Writes
<1>20. ASSUME NEW r \in Request, ChangePassword(r) PROVE Exactly'
  BY <1>20 DEF ChangePassword, Goes, Writes
<1>21. ASSUME NEW r \in Request, Revoke(r) PROVE Exactly'
  BY <1>21 DEF Revoke, Goes, Writes
<1>22. ASSUME NEW r \in Request, Reply(r) PROVE Exactly'
  BY <1>22 DEF Reply, Goes
<1>23. ASSUME NEW r \in Request, ReplyConfirmed(r) PROVE Exactly'
  BY <1>23 DEF ReplyConfirmed, Goes
<1>24. ASSUME NEW r \in Request, Fail(r) PROVE Exactly'
  BY <1>24 DEF Fail, Goes
<1>25. CASE Tick
  BY <1>25 DEF Tick
<1>26. CASE DayPasses
  BY <1>26 DEF DayPasses
<1>27. CASE Restart
  BY <1>27 DEF Restart
<1>28. CASE UNCHANGED vars
  BY <1>28 DEF vars
<1> QED
  BY <1>1, <1>2, <1>3, <1>4, <1>5, <1>6, <1>7, <1>8, <1>9, <1>10, <1>11, <1>12,
       <1>13, <1>14, <1>15, <1>16, <1>17, <1>18, <1>19, <1>20, <1>21, <1>22, <1>23,
       <1>24, <1>25, <1>26, <1>27, <1>28 DEF Next, Step

LEMMA AskedAs ==
    ASSUME TypeOK, NEW r \in Request, NEW o, NEW x, NEW p, Asks(r, o, x, p)
    PROVE  Asked' = [Asked EXCEPT ![r] = [op |-> o, given |-> x, new |-> p]]
BY DEF Asks, Asked, TypeOK

\* What each kind of request can ask.
LEMMA BeginsAsk ==
    ASSUME TypeOK, Flow, NEW r \in Request,
           \/ BeginRefresh(r) \/ BeginLogin(r) \/ BeginLogout(r) \/ BeginUnasked(r)
           \/ BeginConfirm(r) \/ BeginInitiate(r) \/ Refuse(r)
    PROVE  \E a \in Promise!Ask :
              /\ Asked' = [Asked EXCEPT ![r] = a]
              /\ a.op = op'[r]
              /\ UNCHANGED <<row, wrote>>
<1> DEFINE Arrives(o, x, p) == Asks(r, o, x, p) /\ [op |-> o, given |-> x, new |-> p] \in Promise!Ask
<1>1. SUFFICES \E o, x, p : Arrives(o, x, p)
  <2>1. PICK o, x, p : Arrives(o, x, p)
    BY <1>1
  <2>2. Asked' = [Asked EXCEPT ![r] = [op |-> o, given |-> x, new |-> p]]
    BY <2>1, AskedAs
  <2>3. op'[r] = o /\ UNCHANGED <<row, wrote>>
    BY <2>1 DEF Asks, store, TypeOK
  <2> QED
    BY <2>1, <2>2, <2>3
<1>2. CASE BeginRefresh(r)
  <2>1. PICK t \in Second : Asks(r, "refresh", <<Null, t>>, Null)
    <3>1. PICK t \in {0} \cup {second[q] : q \in {m \in Request : pc[m] = "done" /\ op[m] \in Minting}} :
             Asks(r, "refresh", <<Null, t>>, Null)
      BY <1>2 DEF BeginRefresh
    <3>2. 0 \in Second /\ \A q \in Request : second[q] \in Second
      BY SessionsAssumption DEF TypeOK, Second
    <3> QED
      BY <3>1, <3>2
  <2>2. <<Null, t>> \in RefreshToken
    BY <2>1 DEF RefreshToken
  <2>3. [op |-> "refresh", given |-> <<Null, t>>, new |-> Null] \in Promise!Ask
    BY <2>2 DEF Promise!Ask
  <2> QED
    BY <2>1, <2>3
<1>3. CASE BeginLogin(r)
  <2>1. PICK p \in Password : Asks(r, "login", p, Null)
    BY <1>3 DEF BeginLogin
  <2>2. [op |-> "login", given |-> p, new |-> Null] \in Promise!Ask
    BY DEF Promise!Ask
  <2> QED
    BY <2>1, <2>2
<1>4. CASE BeginLogout(r)
  <2>1. Asks(r, "logout", Null, Null)
    BY <1>4 DEF BeginLogout
  <2>2. [op |-> "logout", given |-> Null, new |-> Null] \in Promise!Ask
    BY DEF Promise!Ask
  <2> QED
    BY <2>1, <2>2
<1>5. CASE BeginUnasked(r)
  <2>1. PICK o \in {"register", "reset"}, p \in Password : Asks(r, o, Null, p)
    BY <1>5 DEF BeginUnasked
  <2>2. [op |-> o, given |-> Null, new |-> p] \in Promise!Ask
    BY DEF Promise!Ask
  <2> QED
    BY <2>1, <2>2
<1>6. CASE BeginConfirm(r)
  <2>1. PICK q \in Request :
           /\ op[q] = "initiate" /\ "change" \in wrote[q]
           /\ Asks(r, "confirm", <<new[q], second[q]>>, new[q])
    BY <1>6 DEF BeginConfirm
  <2>2. new[q] \in Password /\ second[q] \in Second
    BY <2>1 DEF Flow, TypeOK
  <2>3. [op |-> "confirm", given |-> <<new[q], second[q]>>, new |-> new[q]] \in Promise!Ask
    BY <2>2 DEF Promise!Ask
  <2> QED
    BY <2>1, <2>3
<1>7. CASE BeginInitiate(r) \/ Refuse(r)
  <2>1. PICK x \in Password, p \in Password : Asks(r, "initiate", x, p)
    BY <1>7 DEF BeginInitiate, Refuse
  <2>2. [op |-> "initiate", given |-> x, new |-> p] \in Promise!Ask
    BY DEF Promise!Ask
  <2> QED
    BY <2>1, <2>2
<1> QED
  BY <1>2, <1>3, <1>4, <1>5, <1>6, <1>7

LEMMA NextAsking == TypeOK /\ Flow /\ Asking /\ [Next]_vars => Asking'
<1> SUFFICES ASSUME TypeOK, Flow, Asking, [Next]_vars PROVE Asking'
  OBVIOUS
<1>1. ASSUME NEW r \in Request,
             \/ BeginRefresh(r) \/ BeginLogin(r) \/ BeginLogout(r) \/ BeginUnasked(r)
             \/ BeginConfirm(r) \/ BeginInitiate(r) \/ Refuse(r)
      PROVE  Asking'
  <2>1. PICK a \in Promise!Ask : Asked' = [Asked EXCEPT ![r] = a]
    BY <1>1, BeginsAsk
  <2>2. ASSUME NEW q \in Request PROVE Asked'[q] \in Promise!Ask
    BY <2>1 DEF Asking, Asked
  <2> QED
    BY <2>2 DEF Asking
<1>2. CASE UNCHANGED <<op, given, new>>
  BY <1>2 DEF Asking, Asked
<1>3. ASSUME NEW r \in Request,
             \/ FindByPassword(r) \/ WrongPassword(r) \/ FindByRefreshToken(r)
             \/ FindByChangeToken(r) \/ FindUser(r) \/ EmailFree(r) \/ Sign(r)
      PROVE  UNCHANGED <<op, given, new>>
  BY <1>3 DEF request, FindByPassword, WrongPassword, FindByRefreshToken, FindByChangeToken,
     FindUser, EmailFree, Sign
<1>4. ASSUME NEW r \in Request,
             \/ CreateUser(r) \/ WriteToken(r) \/ ClearToken(r) \/ ResetPassword(r)
             \/ WriteChange(r) \/ ChangePassword(r) \/ Revoke(r)
      PROVE  UNCHANGED <<op, given, new>>
  BY <1>4 DEF request, CreateUser, WriteToken, ClearToken, ResetPassword, WriteChange,
     ChangePassword, Revoke
<1>5. ASSUME \/ \E r \in Request : Reply(r) \/ ReplyConfirmed(r) \/ Fail(r)
             \/ Tick \/ DayPasses \/ Restart \/ UNCHANGED vars
      PROVE  UNCHANGED <<op, given, new>>
  BY <1>5 DEF request, vars, Reply, ReplyConfirmed, Fail, Tick, DayPasses, Restart
<1> QED
  BY <1>1, <1>2, <1>3, <1>4, <1>5 DEF Next, Step

PromiseInv == IInv /\ Exactly /\ Asking

LEMMA PromiseInvariant == Spec => []PromiseInv
<1>1. Init => Exactly /\ Asking
  <2> SUFFICES ASSUME Init PROVE Exactly /\ Asking
    OBVIOUS
  <2>1. Exactly
    BY DEF Init, Exactly
  <2>2. Asked = [r \in Request |-> [op |-> "logout", given |-> Null, new |-> Null]]
    BY DEF Init, Asked
  <2>3. [op |-> "logout", given |-> Null, new |-> Null] \in Promise!Ask
    BY DEF Promise!Ask
  <2> QED
    BY <2>1, <2>2, <2>3 DEF Asking
<1>2. IInv /\ Exactly /\ Asking /\ [Next]_vars => (Exactly /\ Asking)'
  BY NextExactly, NextAsking DEF IInv
<1> QED
  BY <1>1, <1>2, InductiveInvariant, PTL DEF Spec, PromiseInv

Seen == <<row, Asked, Phase, wrote>>

LEMMA PhaseMoves ==
    ASSUME TypeOK, NEW r \in Request, NEW from, NEW to, Goes(r, from, to)
    PROVE  /\ Phase[r] = PhaseAt(from)
           /\ Phase' = [Phase EXCEPT ![r] = PhaseAt(to)]
<1>1. pc[r] = from /\ pc' = [q \in Request |-> IF q = r THEN to ELSE pc[q]]
  BY DEF Goes, TypeOK
<1>2. Phase' = [q \in Request |-> IF q = r THEN PhaseAt(to) ELSE PhaseAt(pc[q])]
  BY <1>1 DEF Phase
<1> QED
  BY <1>1, <1>2 DEF Phase

LEMMA PhaseStays ==
    ASSUME TypeOK, NEW r \in Request, NEW from, NEW to, Goes(r, from, to),
           PhaseAt(from) = PhaseAt(to)
    PROVE  Phase' = Phase
<1>1. Phase' = [Phase EXCEPT ![r] = PhaseAt(to)] /\ Phase[r] = PhaseAt(to)
  BY PhaseMoves
<1> QED
  BY <1>1 DEF Phase

LEMMA ArrivePromised ==
    ASSUME PromiseInv, NEW r \in Request,
           \/ BeginRefresh(r) \/ BeginLogin(r) \/ BeginLogout(r) \/ BeginUnasked(r)
           \/ BeginConfirm(r) \/ BeginInitiate(r) \/ Refuse(r)
    PROVE  Promise!Arrive(r)
<1>1. PICK a \in Promise!Ask :
         Asked' = [Asked EXCEPT ![r] = a] /\ a.op = op'[r] /\ UNCHANGED <<row, wrote>>
  BY BeginsAsk DEF PromiseInv, IInv
<1>2. Asked'[r].op = op'[r]
  BY <1>1 DEF Asked
<1>3. \/ op'[r] # "logout" /\ Goes(r, "idle", "find")
      \/ op'[r] = "logout" /\ row.password # Null /\ Goes(r, "idle", "write")
      \/ op'[r] = "initiate" /\ Goes(r, "idle", "failed")
  BY DEF BeginRefresh, BeginLogin, BeginLogout, BeginUnasked, BeginConfirm, BeginInitiate, Refuse,
         Asks, PromiseInv, IInv, TypeOK
<1>4. /\ PhaseAt("idle") = "new" /\ PhaseAt("find") = "asked"
      /\ PhaseAt("write") = "let" /\ PhaseAt("failed") = "over"
  BY DEF PhaseAt, Waiting
<1>5. /\ Phase[r] = "new"
      /\ \/ op'[r] # "logout" /\ Phase' = [Phase EXCEPT ![r] = "asked"]
         \/ op'[r] = "logout" /\ row.password # Null /\ Phase' = [Phase EXCEPT ![r] = "let"]
         \/ op'[r] = "initiate" /\ Phase' = [Phase EXCEPT ![r] = "over"]
  BY <1>3, <1>4, PhaseMoves DEF PromiseInv, IInv
<1> QED
  BY <1>1, <1>2, <1>5 DEF Promise!Arrive, Promise!Moves

LEMMA LetInPromised ==
    ASSUME PromiseInv, NEW r \in Request,
           \/ FindByPassword(r) \/ FindByRefreshToken(r) \/ FindByChangeToken(r)
           \/ FindUser(r) \/ EmailFree(r)
    PROVE  Promise!LetIn(r)
<1>1. \E to \in {"sign", "write", "create"} : Goes(r, "find", to)
  BY DEF FindByPassword, FindByRefreshToken, FindByChangeToken, FindUser, EmailFree
<1>2. Phase[r] = "asked" /\ Phase' = [Phase EXCEPT ![r] = "let"]
  BY <1>1, PhaseMoves DEF PromiseInv, IInv, PhaseAt, Waiting
<1>3. /\ op[r] \in {"login", "initiate"} => row.password = given[r]
      /\ op[r] = "refresh" => row.token = given[r]
      /\ op[r] = "confirm" => row.change = given[r]
      /\ op[r] = "register" => row.password = Null
      /\ op[r] = "reset" => row.password # Null
  BY DEF FindByPassword, FindByRefreshToken, FindByChangeToken, FindUser, EmailFree
<1>4. UNCHANGED <<row, op, given, new, wrote>>
  BY DEF FindByPassword, FindByRefreshToken, FindByChangeToken, FindUser, EmailFree, store, request
<1>5. UNCHANGED <<row, Asked, wrote>>
  BY <1>4 DEF Asked
<1>6. Asked[r].op = op[r] /\ Asked[r].given = given[r]
  BY DEF Asked
<1>7. op[r] \in DOMAIN Promise!Match => row[Promise!Match[op[r]]] = given[r]
  BY <1>3 DEF Promise!Match
<1> QED
  BY <1>2, <1>3, <1>5, <1>6, <1>7 DEF Promise!LetIn, Promise!Moves

\* Columns that r had not written, with the values that r writes.
LEMMA WritePromised ==
    ASSUME PromiseInv, NEW r \in Request, NEW F \in SUBSET Field,
           NEW from \in Waiting \ {"find"}, NEW to \in Waiting \ {"find"}, Goes(r, from, to),
           F \subseteq Promised[op[r]] \ wrote[r],
           op[r] = "register" /\ "password" \in F => row.password = Null,
           row' = [f \in Field |-> IF f \in F THEN row'[f] ELSE row[f]],
           \A f \in F : row'[f] = Value(r, f),
           Writes(r, F), UNCHANGED <<op, given, new>>
    PROVE  Promise!Write(r, F)
<1>1. PhaseAt(from) = "let" /\ PhaseAt(to) = "let"
  BY DEF PhaseAt, Waiting
<1>2. Phase[r] = "let" /\ Phase' = Phase
  BY <1>1, PhaseMoves, PhaseStays DEF PromiseInv, IInv
<1>3. Asked' = Asked /\ Asked[r].op = op[r] /\ Asked[r].new = new[r]
  BY DEF Asked
<1>4. ASSUME NEW f \in F PROVE row'[f] \in Promise!Worth(Asked[r], f)
  <2>1. row'[f] = Value(r, f) /\ f \in Field /\ second[r] \in Second
    BY DEF PromiseInv, IInv, TypeOK
  <2>2. CASE f = "password"
    BY <1>3, <2>1, <2>2 DEF Value, Promise!Worth
  <2>3. CASE f = "token"
    BY <1>3, <2>1, <2>3 DEF Value, Promise!Worth, Minting, RefreshToken
  <2>4. CASE f = "change"
    BY <1>3, <2>1, <2>4 DEF Value, Promise!Worth
  <2> QED
    BY <2>1, <2>2, <2>3, <2>4 DEF Field
<1>5. wrote' = [wrote EXCEPT ![r] = wrote[r] \cup F]
  BY DEF Writes
<1>6. F \subseteq Promise!Columns[Asked[r].op] \ wrote[r]
  BY <1>3 DEF Promised, Promise!Columns
<1>7. Promise!Column = Field
  BY DEF Field, Promise!Column
<1> QED
  BY <1>2, <1>3, <1>4, <1>5, <1>6, <1>7 DEF Promise!Write

LEMMA RowColumns == TypeOK => DOMAIN row = Field /\ row = [f \in Field |-> row[f]]
BY DEF TypeOK, Field

LEMMA WritesPromised ==
    ASSUME PromiseInv, NEW r \in Request,
           \/ CreateUser(r) \/ WriteToken(r) \/ ClearToken(r) \/ ResetPassword(r)
           \/ WriteChange(r) \/ ChangePassword(r) \/ Revoke(r)
    PROVE  \E F \in SUBSET Field : Promise!Write(r, F)
<1> USE DEF Field, Waiting, Promised, Value, Minting, store, limit, request, PromiseInv, IInv
<1>1. row = [f \in Field |-> row[f]]
  BY RowColumns
<1>2. CASE CreateUser(r)
  <2> DEFINE F == {"password"}
  <2>1. Goes(r, "create", "sign") /\ Writes(r, F) /\ UNCHANGED <<op, given, new>>
    BY <1>2 DEF CreateUser
  <2>2. F \subseteq Promised[op[r]] \ wrote[r]
    BY <2>1 DEF Goes, Flow
  <2>3. row.password = Null /\ row' = [row EXCEPT !.password = new[r]]
    BY <1>2 DEF CreateUser
  <2>4. row' = [f \in Field |-> IF f \in F THEN row'[f] ELSE row[f]]
    BY <1>1, <2>3
  <2>5. \A f \in F : row'[f] = Value(r, f)
    BY <1>1, <2>3
  <2>6. Promise!Write(r, F)
    BY <2>1, <2>2, <2>3, <2>4, <2>5, WritePromised
  <2> QED
    BY <2>6
<1>3. CASE WriteToken(r)
  <2> DEFINE F == {"token"}
  <2>1. Goes(r, "write", "reply") /\ Writes(r, F) /\ UNCHANGED <<op, given, new>>
    BY <1>3 DEF WriteToken
  <2>2. F \subseteq Promised[op[r]] \ wrote[r]
    BY <1>3, <2>1 DEF WriteToken, Goes, Exactly
  <2>3. row' = [row EXCEPT !.token = <<Null, second[r]>>] /\ op[r] \in Minting
    BY <1>3 DEF WriteToken
  <2>4. row' = [f \in Field |-> IF f \in F THEN row'[f] ELSE row[f]]
    BY <1>1, <2>3
  <2>5. \A f \in F : row'[f] = Value(r, f)
    BY <1>1, <2>3
  <2>6. Promise!Write(r, F)
    BY <2>1, <2>2, <2>4, <2>5, WritePromised
  <2> QED
    BY <2>6
<1>4. CASE ClearToken(r)
  <2> DEFINE F == {"token"}
  <2>1. Goes(r, "write", "reply") /\ Writes(r, F) /\ UNCHANGED <<op, given, new>>
    BY <1>4 DEF ClearToken
  <2>2. F \subseteq Promised[op[r]] \ wrote[r]
    BY <1>4, <2>1 DEF ClearToken, Goes, Exactly
  <2>3. row' = [row EXCEPT !.token = Null] /\ op[r] = "logout"
    BY <1>4 DEF ClearToken
  <2>4. row' = [f \in Field |-> IF f \in F THEN row'[f] ELSE row[f]]
    BY <1>1, <2>3
  <2>5. \A f \in F : row'[f] = Value(r, f)
    BY <1>1, <2>3
  <2>6. Promise!Write(r, F)
    BY <2>1, <2>2, <2>4, <2>5, WritePromised
  <2> QED
    BY <2>6
<1>5. CASE ResetPassword(r)
  <2> DEFINE F == {"password"}
  <2>1. Goes(r, "write", "reply") /\ Writes(r, F) /\ UNCHANGED <<op, given, new>>
    BY <1>5 DEF ResetPassword
  <2>2. F \subseteq Promised[op[r]] \ wrote[r]
    BY <1>5, <2>1 DEF ResetPassword, Goes, Exactly
  <2>3. row' = [row EXCEPT !.password = new[r]] /\ op[r] = "reset"
    BY <1>5 DEF ResetPassword
  <2>4. row' = [f \in Field |-> IF f \in F THEN row'[f] ELSE row[f]]
    BY <1>1, <2>3
  <2>5. \A f \in F : row'[f] = Value(r, f)
    BY <1>1, <2>3
  <2>6. Promise!Write(r, F)
    BY <2>1, <2>2, <2>3, <2>4, <2>5, WritePromised
  <2> QED
    BY <2>6
<1>6. CASE WriteChange(r)
  <2> DEFINE F == {"change"}
  <2>1. Goes(r, "write", "reply") /\ Writes(r, F) /\ UNCHANGED <<op, given, new>>
    BY <1>6 DEF WriteChange
  <2>2. F \subseteq Promised[op[r]] \ wrote[r]
    BY <1>6, <2>1 DEF WriteChange, Goes, Exactly
  <2>3. row' = [row EXCEPT !.change = <<new[r], second[r]>>] /\ op[r] = "initiate"
    BY <1>6 DEF WriteChange
  <2>4. row' = [f \in Field |-> IF f \in F THEN row'[f] ELSE row[f]]
    BY <1>1, <2>3
  <2>5. \A f \in F : row'[f] = Value(r, f)
    BY <1>1, <2>3
  <2>6. Promise!Write(r, F)
    BY <2>1, <2>2, <2>4, <2>5, WritePromised
  <2> QED
    BY <2>6
<1>7. CASE ChangePassword(r)
  <2> DEFINE F == {"password", "change"}
  <2>1. Goes(r, "write", "revoke") /\ Writes(r, F) /\ UNCHANGED <<op, given, new>>
    BY <1>7 DEF ChangePassword
  <2>2. F \subseteq Promised[op[r]] \ wrote[r]
    BY <1>7, <2>1 DEF ChangePassword, Goes, Exactly
  <2>3. row' = [row EXCEPT !.password = new[r], !.change = Null] /\ op[r] = "confirm"
    BY <1>7 DEF ChangePassword
  <2>4. row' = [f \in Field |-> IF f \in F THEN row'[f] ELSE row[f]]
    BY <1>1, <2>3
  <2>5. \A f \in F : row'[f] = Value(r, f)
    BY <1>1, <2>3
  <2>6. Promise!Write(r, F)
    BY <2>1, <2>2, <2>3, <2>4, <2>5, WritePromised
  <2> QED
    BY <2>6
<1>8. CASE Revoke(r)
  <2> DEFINE F == {"token"}
  <2>1. Goes(r, "revoke", "reply") /\ Writes(r, F) /\ UNCHANGED <<op, given, new>>
    BY <1>8 DEF Revoke
  <2>2. op[r] = "confirm" /\ F \subseteq Promised[op[r]] \ wrote[r]
    BY <2>1 DEF Goes, Flow, Exactly
  <2>3. row' = [row EXCEPT !.token = Null]
    BY <1>8 DEF Revoke
  <2>4. row' = [f \in Field |-> IF f \in F THEN row'[f] ELSE row[f]]
    BY <1>1, <2>3
  <2>5. \A f \in F : row'[f] = Value(r, f)
    BY <1>1, <2>2, <2>3
  <2>6. Promise!Write(r, F)
    BY <2>1, <2>2, <2>4, <2>5, WritePromised
  <2> QED
    BY <2>6
<1> QED
  BY <1>2, <1>3, <1>4, <1>5, <1>6, <1>7, <1>8

LEMMA TellPromised ==
    ASSUME PromiseInv, NEW r \in Request, Reply(r) \/ ReplyConfirmed(r)
    PROVE  Promise!Tell(r)
<1>1. Goes(r, "reply", "done")
  BY DEF Reply, ReplyConfirmed
<1>2. Phase[r] = "let" /\ Phase' = [Phase EXCEPT ![r] = "told"]
  BY <1>1, PhaseMoves DEF PromiseInv, IInv, PhaseAt, Waiting
<1>3. UNCHANGED <<row, op, given, new, wrote>>
  BY DEF Reply, ReplyConfirmed, store, request
<1>4. wrote[r] = Promise!Columns[op[r]]
  BY <1>1 DEF Goes, PromiseInv, Exactly, Promised, Promise!Columns
<1>5. Asked' = Asked /\ Asked[r].op = op[r]
  BY <1>3 DEF Asked
<1> QED
  BY <1>2, <1>3, <1>4, <1>5 DEF Promise!Tell, Promise!Moves

LEMMA GiveUpPromised ==
    ASSUME PromiseInv, NEW r \in Request, WrongPassword(r) \/ Fail(r)
    PROVE  Promise!GiveUp({r})
<1>1. \E from \in Waiting : Goes(r, from, "failed")
  BY DEF WrongPassword, Fail, Goes, Waiting
<1>2. Phase[r] \in {"asked", "let"} /\ Phase' = [Phase EXCEPT ![r] = "over"]
  BY <1>1, PhaseMoves DEF PromiseInv, IInv, Waiting, PhaseAt
<1>3. Phase' = [q \in Request |->
                  IF q \in {r} /\ Phase[q] \in {"asked", "let"} THEN "over" ELSE Phase[q]]
  BY <1>2 DEF Phase
<1>4. UNCHANGED <<row, op, given, new, wrote>>
  BY DEF WrongPassword, Fail, store, request
<1>5. UNCHANGED <<row, Asked, wrote>>
  BY <1>4 DEF Asked
<1> QED
  BY <1>3, <1>5 DEF Promise!GiveUp

LEMMA RestartPromised ==
    ASSUME PromiseInv, Restart
    PROVE  Promise!GiveUp(Request)
<1>1. ASSUME NEW q \in Request
      PROVE  PhaseAt(pc'[q]) = IF PhaseAt(pc[q]) \in {"asked", "let"}
                               THEN "over" ELSE PhaseAt(pc[q])
  <2>1. pc'[q] = IF pc[q] \in Waiting THEN "failed" ELSE pc[q]
    BY DEF Restart
  <2>2. pc[q] \in {"idle", "done", "failed"} \cup Waiting
    BY DEF PromiseInv, IInv, TypeOK
  <2> QED
    BY <2>1, <2>2 DEF PhaseAt, Waiting
<1>2. Phase' = [q \in Request |->
                  IF q \in Request /\ Phase[q] \in {"asked", "let"} THEN "over" ELSE Phase[q]]
  BY <1>1 DEF Phase
<1>3. UNCHANGED <<row, op, given, new, wrote>>
  BY DEF Restart, store, request
<1>4. UNCHANGED <<row, Asked, wrote>>
  BY <1>3 DEF Asked
<1> QED
  BY <1>2, <1>4 DEF Promise!GiveUp

\* Signing, the clock and the counter are not seen.
LEMMA Unseen ==
    ASSUME PromiseInv, (\E r \in Request : Sign(r)) \/ Tick \/ DayPasses \/ UNCHANGED vars
    PROVE  UNCHANGED Seen
<1>1. Phase' = Phase
  <2>1. ASSUME NEW r \in Request, Sign(r) PROVE Phase' = Phase
    <3>1. Goes(r, "sign", "write") /\ PhaseAt("sign") = PhaseAt("write")
      BY <2>1 DEF Sign, PhaseAt, Waiting
    <3> QED
      BY <3>1, PhaseStays DEF PromiseInv, IInv
  <2>2. CASE UNCHANGED pc
    BY <2>2 DEF Phase
  <2> QED
    BY <2>1, <2>2 DEF Tick, DayPasses, vars
<1>2. UNCHANGED <<row, op, given, new, wrote>>
  BY DEF Sign, Tick, DayPasses, vars, store, request
<1> QED
  BY <1>1, <1>2 DEF Seen, Asked

LEMMA StepKeepsPromise == PromiseInv /\ [Next]_vars => [Promise!Next]_Seen
<1> SUFFICES ASSUME PromiseInv, [Next]_vars PROVE Promise!Next \/ UNCHANGED Seen
  OBVIOUS
<1>1. ASSUME NEW r \in Request,
             \/ BeginRefresh(r) \/ BeginLogin(r) \/ BeginLogout(r) \/ BeginUnasked(r)
             \/ BeginConfirm(r) \/ BeginInitiate(r) \/ Refuse(r)
      PROVE  Promise!Next
  BY <1>1, ArrivePromised DEF Promise!Next
<1>2. ASSUME NEW r \in Request,
             \/ FindByPassword(r) \/ FindByRefreshToken(r) \/ FindByChangeToken(r)
             \/ FindUser(r) \/ EmailFree(r)
      PROVE  Promise!Next
  BY <1>2, LetInPromised DEF Promise!Next
<1>3. ASSUME NEW r \in Request,
             \/ CreateUser(r) \/ WriteToken(r) \/ ClearToken(r) \/ ResetPassword(r)
             \/ WriteChange(r) \/ ChangePassword(r) \/ Revoke(r)
      PROVE  Promise!Next
  <2>1. Promise!Column = Field
    BY DEF Field, Promise!Column
  <2> QED
    BY <1>3, <2>1, WritesPromised DEF Promise!Next
<1>4. ASSUME NEW r \in Request, Reply(r) \/ ReplyConfirmed(r) PROVE Promise!Next
  BY <1>4, TellPromised DEF Promise!Next
<1>5. ASSUME NEW r \in Request, WrongPassword(r) \/ Fail(r) PROVE Promise!Next
  <2>1. Promise!GiveUp({r})
    BY <1>5, GiveUpPromised
  <2> QED
    BY <2>1 DEF Promise!Next
<1>6. CASE Restart
  <2>1. Promise!GiveUp(Request)
    BY <1>6, RestartPromised
  <2> QED
    BY <2>1 DEF Promise!Next
<1>7. CASE (\E r \in Request : Sign(r)) \/ Tick \/ DayPasses \/ UNCHANGED vars
  BY <1>7, Unseen
<1> QED
  BY <1>1, <1>2, <1>3, <1>4, <1>5, <1>6, <1>7 DEF Next, Step

(* Registering, logging in, refreshing, logging out, resetting and         *)
(* changing the password, statement by statement and against each other,   *)
(* are what SessionsPromise says: one look that lets in, each column of    *)
(* the operation written once, and an answer after the last of them.       *)
THEOREM SessionsKeepPromise == Spec => KeepsPromise
<1>1. Init => Promise!Init
  <2> SUFFICES ASSUME Init PROVE Promise!Init
    OBVIOUS
  <2>1. Phase = [r \in Request |-> "new"]
    <3>1. PhaseAt("idle") = "new"
      BY DEF PhaseAt, Waiting
    <3> QED
      BY <3>1 DEF Init, Phase
  <2>2. Asked \in [Request -> Promise!Ask]
    <3>1. [op |-> "logout", given |-> Null, new |-> Null] \in Promise!Ask
      BY DEF Promise!Ask
    <3> QED
      BY <3>1 DEF Init, Asked
  <2>3. row \in [password : Password, token : RefreshToken \cup {Null}, change : {Null}]
                 \cup [password : {Null}, token : {Null}, change : {Null}]
    <3>1. <<Null, 0>> \in RefreshToken
      BY SessionsAssumption DEF RefreshToken, Second
    <3>2. CASE row \in [password : Password, token : {<<Null, 0>>, Null}, change : {Null}]
      BY <3>1, <3>2
    <3>3. CASE row = [f \in Field |-> Null]
      BY <3>3 DEF Field
    <3> QED
      BY <3>2, <3>3 DEF Init
  <2> QED
    BY <2>1, <2>2, <2>3 DEF Init, Promise!Init
<1>2. PromiseInv /\ [Next]_vars => [Promise!Next]_(Promise!promise)
  BY StepKeepsPromise DEF Promise!promise, Seen
<1> QED
  BY <1>1, <1>2, PromiseInvariant, PTL DEF Spec, KeepsPromise, Promise!Spec

=============================================================================
