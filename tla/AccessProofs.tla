---------------------------- MODULE AccessProofs ----------------------------
(***************************************************************************)
(* Theorems about the components that MCIdempotency puts side by side, for *)
(* any sets of requests, rows and codes: idempotency keys, the row of a    *)
(* user, the closure of an account, one-time codes.                        *)
(***************************************************************************)
EXTENDS MCIdempotency, TLAPS

----------------------------------------------------------------------------
(* Idempotency keys. *)

(* A request in flight has a key and a hash, and its handler has run once  *)
(* it stores its answer.                                                   *)
InFlight(r) ==
    /\ pc[r] \in {"findByKey", "handle", "load", "write", "ok"} =>
          key[r] \in Keys /\ hash[r] \in Hashes
    /\ pc[r] \in {"load", "write"} => r \in executed /\ answer[r] = r
    /\ r \in executed => pc[r] \notin {"idle", "findByKey", "handle"}
    /\ pc[r] = "write" /\ dirty[r] # None /\ rowResponse[key[r]] = None =>
          r \in cleaned

(* A request that was answered has left a row, unless its store failed or  *)
(* its key was deleted.                                                    *)
Answered(r) ==
    pc[r] = "ok" =>
        /\ rowResponse[key[r]] # None \/ r \in unsaved \cup cleaned
        /\ answer[r] \in executed /\ key[answer[r]] = key[r]

(* A handler runs only for a request that found no row: whoever was        *)
(* answered before the request came has lost its own.                      *)
Alone(r) ==
    /\ \A q \in before[r] : pc[q] = "ok"
    /\ pc[r] = "handle" \/ r \in executed =>
          \A q \in before[r] : key[q] = key[r] => q \in unsaved \cup cleaned

RowsReal == \A k \in Keys :
                rowResponse[k] # None =>
                    rowResponse[k] \in executed /\ key[rowResponse[k]] = k

IInv == /\ TypeOK
        /\ \A r \in Requests : InFlight(r)
        /\ \A r \in Requests : Answered(r)
        /\ \A r \in Requests : Alone(r)
        /\ RowsReal

(* The inductive invariant holds initially. *)
LEMMA IInvInit == Init => IInv
  <1> SUFFICES ASSUME Init PROVE IInv
    OBVIOUS
  <1> USE IdempotencyAssumption DEF Init
  <1>1. TypeOK
    BY DEF TypeOK, Steps
  <1>2. \A r \in Requests : InFlight(r) /\ Answered(r) /\ Alone(r)
    BY DEF InFlight, Answered, Alone
  <1>3. RowsReal
    BY DEF RowsReal
  <1> QED BY <1>1, <1>2, <1>3 DEF IInv

(* Every step preserves the inductive invariant. *)
LEMMA IInvStep == IInv /\ [Next]_vars => IInv'
  <1> SUFFICES ASSUME IInv, [Next]_vars PROVE IInv'
    OBVIOUS
  <1> USE IdempotencyAssumption DEF IInv, TypeOK, Steps, Outcomes, table, history
  <1>1. ASSUME NEW r \in Requests, RefuseKey(r) PROVE IInv'
    <2>1. TypeOK'
      BY <1>1 DEF RefuseKey, Goto
    <2>2. \A q \in Requests : InFlight(q)'
      BY <1>1 DEF RefuseKey, Goto, InFlight
    <2>3. \A q \in Requests : Answered(q)'
      BY <1>1 DEF RefuseKey, Goto, InFlight, Answered, RowsReal
    <2>4. \A q \in Requests : Alone(q)'
      BY <1>1 DEF RefuseKey, Goto, InFlight, Answered, Alone
    <2>5. RowsReal'
      BY <1>1 DEF RefuseKey, Goto, InFlight, RowsReal
    <2> QED BY <2>1, <2>2, <2>3, <2>4, <2>5
  <1>2. ASSUME NEW r \in Requests, NEW k \in Keys, NEW h \in Hashes,
               canActivate(r, k, h)
         PROVE  IInv'
    <2>1. TypeOK'
      BY <1>2 DEF canActivate, Goto
    <2>2. \A q \in Requests : InFlight(q)'
      BY <1>2 DEF canActivate, Goto, InFlight
    <2>3. \A q \in Requests : Answered(q)'
      BY <1>2 DEF canActivate, Goto, InFlight, Answered, RowsReal
    <2>4. \A q \in Requests : Alone(q)'
      BY <1>2 DEF canActivate, Goto, InFlight, Answered, Alone
    <2>5. RowsReal'
      BY <1>2 DEF canActivate, Goto, InFlight, RowsReal
    <2> QED BY <2>1, <2>2, <2>3, <2>4, <2>5
  <1>3. ASSUME NEW r \in Requests, findByKey(r) PROVE IInv'
    <2>1. TypeOK'
      BY <1>3 DEF findByKey, Goto, InFlight
    <2>2. \A q \in Requests : InFlight(q)'
      BY <1>3 DEF findByKey, Goto, InFlight
    <2>3. \A q \in Requests : Answered(q)'
      BY <1>3 DEF findByKey, Goto, InFlight, Answered, RowsReal
    <2>4. \A q \in Requests : Alone(q)'
      BY <1>3 DEF findByKey, Goto, InFlight, Answered, Alone
    <2>5. RowsReal'
      BY <1>3 DEF findByKey, Goto, InFlight, RowsReal
    <2> QED BY <2>1, <2>2, <2>3, <2>4, <2>5
  <1>4. ASSUME NEW r \in Requests, handle(r) PROVE IInv'
    <2>1. TypeOK'
      BY <1>4 DEF handle, Goto
    <2>2. \A q \in Requests : InFlight(q)'
      BY <1>4 DEF handle, Goto, InFlight
    <2>3. \A q \in Requests : Answered(q)'
      BY <1>4 DEF handle, Goto, InFlight, Answered, RowsReal
    <2>4. \A q \in Requests : Alone(q)'
      BY <1>4 DEF handle, Goto, InFlight, Answered, Alone
    <2>5. RowsReal'
      BY <1>4 DEF handle, Goto, InFlight, RowsReal
    <2> QED BY <2>1, <2>2, <2>3, <2>4, <2>5
  <1>5. ASSUME NEW r \in Requests, LoadRow(r) PROVE IInv'
    <2>1. TypeOK'
      <3>1. PICK d \in (SUBSET Columns) \cup {None} :
               dirty' = [dirty EXCEPT ![r] = d]
        <4> DEFINE d == IF rowResponse[key[r]] = None THEN None
                        ELSE {c \in Columns : \/ c = "response"
                                              \/ rowHash[key[r]] # hash[r]}
        <4>1. d \in (SUBSET Columns) \cup {None}
          OBVIOUS
        <4>2. dirty' = [dirty EXCEPT ![r] = d]
          BY <1>5 DEF LoadRow
        <4> QED BY <4>1, <4>2
      <3> QED BY <1>5, <3>1 DEF LoadRow, Goto
    <2>2. \A q \in Requests : InFlight(q)'
      BY <1>5 DEF LoadRow, Goto, Columns, InFlight
    <2>3. \A q \in Requests : Answered(q)'
      BY <1>5 DEF LoadRow, Goto, Columns, InFlight, Answered, RowsReal
    <2>4. \A q \in Requests : Alone(q)'
      BY <1>5 DEF LoadRow, Goto, Columns, InFlight, Answered, Alone
    <2>5. RowsReal'
      BY <1>5 DEF LoadRow, Goto, Columns, InFlight, RowsReal
    <2> QED BY <2>1, <2>2, <2>3, <2>4, <2>5
  <1>6. ASSUME NEW r \in Requests, WriteRow(r) PROVE IInv'
    <2>1. TypeOK'
      BY <1>6 DEF WriteRow, Goto
    <2>2. \A q \in Requests : InFlight(q)'
      BY <1>6 DEF WriteRow, Goto, InFlight
    <2>3. \A q \in Requests : Answered(q)'
      BY <1>6 DEF WriteRow, Goto, InFlight, Answered, RowsReal
    <2>4. \A q \in Requests : Alone(q)'
      BY <1>6 DEF WriteRow, Goto, InFlight, Answered, Alone
    <2>5. RowsReal'
      BY <1>6 DEF WriteRow, Goto, InFlight, RowsReal
    <2> QED BY <2>1, <2>2, <2>3, <2>4, <2>5
  <1>7. ASSUME NEW r \in Requests, StoreError(r) PROVE IInv'
    <2>1. TypeOK'
      BY <1>7 DEF StoreError, Goto
    <2>2. \A q \in Requests : InFlight(q)'
      BY <1>7 DEF StoreError, Goto, InFlight
    <2>3. \A q \in Requests : Answered(q)'
      BY <1>7 DEF StoreError, Goto, InFlight, Answered, RowsReal
    <2>4. \A q \in Requests : Alone(q)'
      BY <1>7 DEF StoreError, Goto, InFlight, Answered, Alone
    <2>5. RowsReal'
      BY <1>7 DEF StoreError, Goto, InFlight, RowsReal
    <2> QED BY <2>1, <2>2, <2>3, <2>4, <2>5
  <1>8. ASSUME NEW r \in Requests, Error(r) PROVE IInv'
    <2>1. TypeOK'
      BY <1>8 DEF Error, Goto
    <2>2. \A q \in Requests : InFlight(q)'
      BY <1>8 DEF Error, Goto, InFlight
    <2>3. \A q \in Requests : Answered(q)'
      BY <1>8 DEF Error, Goto, InFlight, Answered, RowsReal
    <2>4. \A q \in Requests : Alone(q)'
      BY <1>8 DEF Error, Goto, InFlight, Answered, Alone
    <2>5. RowsReal'
      BY <1>8 DEF Error, Goto, InFlight, RowsReal
    <2> QED BY <2>1, <2>2, <2>3, <2>4, <2>5
  <1>9. ASSUME NEW k \in Keys, Expire(k) PROVE IInv'
    <2>1. TypeOK'
      BY <1>9 DEF Expire
    <2>2. \A q \in Requests : InFlight(q)'
      BY <1>9 DEF Expire, InFlight
    <2>3. \A q \in Requests : Answered(q)'
      BY <1>9 DEF Expire, InFlight, Answered, RowsReal
    <2>4. \A q \in Requests : Alone(q)'
      BY <1>9 DEF Expire, InFlight, Answered, Alone
    <2>5. RowsReal'
      BY <1>9 DEF Expire, InFlight, RowsReal
    <2> QED BY <2>1, <2>2, <2>3, <2>4, <2>5
  <1>10. CASE cleanup
    <2>1. TypeOK'
      BY <1>10 DEF cleanup
    <2>2. \A q \in Requests : InFlight(q)'
      BY <1>10 DEF cleanup, InFlight
    <2>3. \A q \in Requests : Answered(q)'
      BY <1>10 DEF cleanup, InFlight, Answered, RowsReal
    <2>4. \A q \in Requests : Alone(q)'
      BY <1>10 DEF cleanup, InFlight, Answered, Alone
    <2>5. RowsReal'
      BY <1>10 DEF cleanup, InFlight, RowsReal
    <2> QED BY <2>1, <2>2, <2>3, <2>4, <2>5
  <1>11. CASE Restart
    <2>1. TypeOK'
      BY <1>11 DEF Restart, Active
    <2>2. \A q \in Requests : InFlight(q)'
      BY <1>11 DEF Restart, Active, InFlight
    <2>3. \A q \in Requests : Answered(q)'
      BY <1>11 DEF Restart, Active, InFlight, Answered, RowsReal
    <2>4. \A q \in Requests : Alone(q)'
      BY <1>11 DEF Restart, Active, InFlight, Answered, Alone
    <2>5. RowsReal'
      BY <1>11 DEF Restart, Active, InFlight, RowsReal
    <2> QED BY <2>1, <2>2, <2>3, <2>4, <2>5
  <1>12. CASE UNCHANGED vars
    BY <1>12 DEF vars, InFlight, Answered, Alone, RowsReal
  <1> QED BY <1>1, <1>2, <1>3, <1>4, <1>5, <1>6, <1>7, <1>8, <1>9, <1>10, <1>11, <1>12 DEF Next, Step

(* The inductive invariant holds in every reachable state. *)
THEOREM IInvariance == Spec => []IInv
  BY IInvInit, IInvStep, PTL DEF Spec

(* The type invariant of the idempotency guard, interceptor and store. *)
THEOREM TypeCorrect == Spec => []TypeOK
  BY IInvariance, PTL DEF IInv

(* A request repeated after its answer is not executed again, whatever     *)
(* other requests with its key do meanwhile, unless the first answer was   *)
(* not stored or its key was deleted by the clean-up.                      *)
THEOREM NeverReexecuted == Spec => []NoReexecution
  <1>1. IInv => NoReexecution
    BY DEF IInv, TypeOK, Alone, NoReexecution
  <1> QED BY <1>1, IInvariance, PTL

(* Every answer is that of a handler that ran to its end for the key. *)
THEOREM RepliesAreReal == Spec => []AnswersAreReal
  <1>1. IInv => AnswersAreReal
    BY DEF IInv, Answered, AnswersAreReal
  <1> QED BY <1>1, IInvariance, PTL

----------------------------------------------------------------------------
(* Users. *)

(* Requests beyond their first look find a row; it is never removed. *)
Rowed == /\ \A v \in Visitors : task[v] \notin {"idle", "insert", "done"} => user # NoUser
         /\ \A v \in Held : entity[v] \in User

ResetsChosen == \A p \in resets : setAt[p] # -1

(* A password and the date it was set; a reset leaves the date of the last *)
(* password that was not one.                                              *)
Dated(u) ==
    /\ setAt[u.passwordHash] # -1
    /\ u.passwordHash \in resets \/ setAt[u.passwordHash] = u.passwordChangedAt
    /\ u.passwordChangedAt = 0 \/ \E q \in Passwords \ resets : setAt[q] = u.passwordChangedAt

(* Two users have one password exactly when they have one date. *)
Alike(u, w) == u.passwordHash = w.passwordHash <=> u.passwordChangedAt = w.passwordChangedAt

Both(c) == "passwordHash" \in c <=> "passwordChangedAt" \in c

(* The row and every entity that will be saved carry a password with its   *)
(* date, one date for one password, and an UPDATE writes both or neither.  *)
DatedTogether ==
    DatesDiffer /\ ~crossedReset =>
        /\ user # NoUser => Dated(user)
        /\ \A v \in Held : Dated(entity[v]) /\ Alike(entity[v], user)
        /\ \A v, w \in Held : Alike(entity[v], entity[w])
        /\ \A v \in Visitors : task[v] \in Writing => Both(columns[v])

UserInv == UserTypeOK /\ Rowed /\ ResetsChosen /\ DatedTogether

(* The inductive invariant of the user's row holds initially. *)
LEMMA UserInvInit == UserInit => UserInv
  <1> SUFFICES ASSUME UserInit PROVE UserInv
    OBVIOUS
  <1> USE UsersAssumption DEF UserInit
  <1>1. UserTypeOK
    <2>1. 1 \in 1..LastSecond /\ 0 \in 0..(MAX_FAILED_ATTEMPTS - 1) /\ -1 \in -1..LastSecond
      OBVIOUS
    <2>2. /\ patch \in [Visitors -> 0..(MAX_FAILED_ATTEMPTS - 1)]
          /\ bearer \in [Visitors -> Token \cup {NoToken}]
          /\ setAt \in [Passwords -> -1..LastSecond]
      BY <2>1
    <2>3. /\ entity \in [Visitors -> User \cup {NoUser}]
          /\ columns \in [Visitors -> SUBSET UserColumns]
          /\ task \in [Visitors -> {"idle"}]
      OBVIOUS
    <2> QED BY <2>1, <2>2, <2>3 DEF UserTypeOK
  <1>2. Rowed /\ ResetsChosen /\ DatedTogether
    BY DEF Rowed, ResetsChosen, DatedTogether, Held, Saving, Writing
  <1> QED BY <1>1, <1>2 DEF UserInv

(* A request that changes nothing that is saved: it turns to a step before *)
(* the entity is loaded, or after it was written.                          *)
LEMMA TurnStep ==
    ASSUME UserInv, NEW v \in Visitors,
           NEW t \in {"idle", "insert", "accept", "issue", "find", "ensure", "reset", "done"},
           task' = [task EXCEPT ![v] = t],
           t \in {"idle", "insert", "done"} \/ user # NoUser,
           UNCHANGED <<user, second, entity, columns, setAt, resetVars>>
    PROVE  Rowed' /\ ResetsChosen' /\ DatedTogether'
  <1>1. /\ Held' \subseteq Held
        /\ \A w \in Visitors : task'[w] \in Writing => task[w] \in Writing
    BY DEF UserInv, UserTypeOK, Held, Saving, Writing
  <1>2. Rowed' /\ ResetsChosen'
    BY <1>1 DEF UserInv, UserTypeOK, Rowed, ResetsChosen, resetVars
  <1>3. DatedTogether'
    BY <1>1 DEF UserInv, DatedTogether, DatesDiffer, Dated, Alike, resetVars
  <1> QED BY <1>2, <1>3

(* A new password for which every dated one keeps its date, whether it is  *)
(* set by a reset or not.                                                  *)
LEMMA ChosenOnce ==
    ASSUME UserTypeOK, ResetsChosen, NEW p \in Unchosen, NEW s \in 0..LastSecond,
           setAt' = [setAt EXCEPT ![p] = s], resets' \in {resets, resets \cup {p}}
    PROVE  /\ setAt' \in [Passwords -> -1..LastSecond]
           /\ ResetsChosen'
           /\ DatesDiffer' => DatesDiffer
           /\ \A u \in User : Dated(u) => Dated(u)'
           /\ setAt'[p] = s /\ p \notin resets /\ p \in Passwords
           /\ \A q \in Passwords \ {p} : setAt'[q] = setAt[q]
  <1> USE UsersAssumption DEF UserTypeOK, Unchosen
  <1>1. /\ setAt' \in [Passwords -> -1..LastSecond] /\ setAt'[p] = s /\ setAt[p] = -1
        /\ p \in Passwords /\ s # -1
    OBVIOUS
  <1>2. \A q \in Passwords \ {p} : setAt'[q] = setAt[q]
    OBVIOUS
  <1>3. ResetsChosen' /\ p \notin resets
    BY <1>1, <1>2 DEF ResetsChosen
  <1>4. DatesDiffer' => DatesDiffer
    BY <1>1, <1>2 DEF DatesDiffer
  <1>5. ASSUME NEW u \in User, Dated(u) PROVE Dated(u)'
    <2>1. u.passwordHash \in Passwords /\ u.passwordChangedAt \in 0..LastSecond
      BY DEF User
    <2>2. u.passwordHash # p
      BY <1>1, <1>5, <2>1 DEF Dated
    <2>3. \A q \in Passwords \ resets : setAt[q] = u.passwordChangedAt
             => q \in Passwords \ resets' /\ setAt'[q] = u.passwordChangedAt
      BY <1>1, <1>2, <2>1
    <2> QED BY <1>2, <1>5, <2>1, <2>2, <2>3 DEF Dated
  <1> QED BY <1>1, <1>2, <1>3, <1>4, <1>5

(* Loading the row and assigning what is not the password. *)
LEMMA LoadStep ==
    ASSUME UserInv, NEW v \in Visitors, NEW e \in User, user # NoUser,
           e.passwordHash = user.passwordHash, e.passwordChangedAt = user.passwordChangedAt,
           NEW t \in Saving,
           entity' = [entity EXCEPT ![v] = e], task' = [task EXCEPT ![v] = t],
           UNCHANGED <<user, second, columns, setAt, resetVars>>
    PROVE  entity' \in [Visitors -> User \cup {NoUser}] /\ Rowed' /\ ResetsChosen' /\ DatedTogether'
  <1>1. /\ entity' \in [Visitors -> User \cup {NoUser}] /\ entity'[v] = e
        /\ Held' \subseteq Held \cup {v}
        /\ \A w \in Visitors \ {v} : entity'[w] = entity[w] /\ task'[w] = task[w]
        /\ task'[v] \notin Writing
    BY DEF UserInv, UserTypeOK, Held, Saving, Writing
  <1>2. Rowed' /\ ResetsChosen'
    BY <1>1 DEF UserInv, UserTypeOK, Rowed, ResetsChosen, Held, resetVars
  <1>3. DatedTogether'
    <2> SUFFICES ASSUME DatesDiffer', ~crossedReset' PROVE DatedTogether'
      BY DEF DatedTogether
    <2>1. /\ DatesDiffer /\ ~crossedReset /\ Dated(user)
          /\ \A w \in Held : Dated(entity[w]) /\ Alike(entity[w], user)
          /\ \A w, x \in Held : Alike(entity[w], entity[x])
          /\ \A w \in Visitors : task[w] \in Writing => Both(columns[w])
      BY DEF UserInv, DatedTogether, DatesDiffer, resetVars
    <2>2. \A u : Dated(u) => Dated(u)'
      BY DEF Dated, resetVars
    <2>3. Dated(e) /\ Alike(e, e) /\ Alike(e, user) /\ \A w \in Held : Alike(entity[w], e) /\ Alike(e, entity[w])
      BY <2>1 DEF Dated, Alike
    <2>4. \A w \in Held' : w \in Visitors /\ (w = v \/ (w \in Held /\ entity'[w] = entity[w]))
      BY <1>1 DEF Held
    <2>5. \A w \in Held' : Dated(entity'[w]) /\ Alike(entity'[w], user)
      BY <1>1, <2>1, <2>3, <2>4
    <2>6. \A w, x \in Held' : Alike(entity'[w], entity'[x])
      BY <1>1, <2>1, <2>3, <2>4
    <2>7. \A w \in Visitors : task'[w] \in Writing => Both(columns'[w])
      BY <1>1, <2>1
    <2>8. Dated(user)' /\ \A w \in Held' : Dated(entity[w])'
      BY <2>1, <2>5 DEF Dated, resetVars
    <2> QED BY <2>5, <2>6, <2>7, <2>8 DEF DatedTogether, Alike
  <1> QED BY <1>1, <1>2, <1>3

(* Every step preserves it. *)
LEMMA UserInvStep == UserInv /\ [UserNext]_userVars => UserInv'
  <1> SUFFICES ASSUME UserInv, [UserNext]_userVars PROVE UserInv'
    OBVIOUS
  <1> USE UsersAssumption DEF UserInv
  <1>1. ASSUME NEW v \in Visitors,
               \/ register(v) \/ findForReset(v) \/ accept(v) \/ issueToken(v)
               \/ ensureAccepted(v) \/ Abandon(v)
        PROVE  UserInv'
    <2>1. UserTypeOK'
      <3>1. CASE issueToken(v)
        <4>1. [iat |-> second, type |-> "access"] \in Token
          BY DEF UserTypeOK, Token
        <4>2. bearer' \in [Visitors -> Token \cup {NoToken}]
          BY <3>1, <4>1 DEF issueToken, UserTypeOK
        <4> QED BY <3>1, <4>2 DEF issueToken, Turn, UserTypeOK, resetVars
      <3>2. CASE ~issueToken(v)
        BY <1>1, <3>2 DEF register, findForReset, accept, ensureAccepted, Abandon, Turn, UserTypeOK,
                              resetVars
      <3> QED BY <3>1, <3>2
    <2>2. PICK t \in {"insert", "reset", "issue", "done"} :
              /\ task' = [task EXCEPT ![v] = t] /\ (t \in {"insert", "done"} \/ user # NoUser)
              /\ UNCHANGED <<user, second, entity, columns, setAt, resetVars>>
      BY <1>1 DEF register, findForReset, accept, issueToken, ensureAccepted, Abandon, Turn, Rowed
    <2> QED BY <2>1, <2>2, TurnStep
  <1>2. ASSUME NEW v \in Visitors, NEW p \in Passwords, login(v, p) PROVE UserInv'
    <2>1. UserTypeOK'
      <3>1. user \in User /\ user.failedLoginAttempts \in 0..(MAX_FAILED_ATTEMPTS - 1)
        BY <1>2 DEF login, UserTypeOK, User
      <3> QED BY <1>2, <3>1 DEF login, Turn, UserTypeOK, resetVars
    <2>2. PICK t \in {"find", "ensure", "done"} :
              /\ task' = [task EXCEPT ![v] = t] /\ user # NoUser
              /\ UNCHANGED <<user, second, entity, columns, setAt, resetVars>>
      BY <1>2 DEF login, Turn
    <2> QED BY <2>1, <2>2, TurnStep
  <1>3. ASSUME NEW v \in Visitors, NEW p \in Unchosen, insertUser(v, p) PROVE UserInv'
    <2>1. CASE user # NoUser
      <3>1. /\ task' = [task EXCEPT ![v] = "done"]
            /\ UNCHANGED <<user, termsAccepted, second, usedRefreshTokens, patch, entity, columns,
                           bearer, setAt, resetVars>>
        BY <1>3, <2>1 DEF insertUser, Turn
      <3>2. UserTypeOK'
        BY <3>1 DEF UserTypeOK, resetVars
      <3> QED BY <3>1, <3>2, TurnStep
    <2>2. CASE user = NoUser
      <3>1. /\ user' = [email |-> "own", passwordHash |-> p, passwordChangedAt |-> 0,
                        failedLoginAttempts |-> 0, role |-> "user", isActive |-> TRUE]
            /\ setAt' = [setAt EXCEPT ![p] = 0]
            /\ task' = [task EXCEPT ![v] = "accept"]
            /\ UNCHANGED <<termsAccepted, second, usedRefreshTokens, patch, entity, columns, bearer>>
            /\ UNCHANGED <<resets, crossedReset>>
        BY <1>3, <2>2 DEF insertUser, Turn, resetVars
      <3>2. user' \in User /\ user' # NoUser
        <4>1. p \in Passwords /\ 0 \in 0..LastSecond /\ 0 \in 0..(MAX_FAILED_ATTEMPTS - 1)
          BY DEF Unchosen
        <4>2. user' \in User
          BY ONLY <3>1, <4>1 DEF User, UserRole
        <4> QED BY <4>2
      <3>3. /\ setAt' \in [Passwords -> -1..LastSecond] /\ setAt'[p] = 0 /\ p \in Passwords
            /\ ResetsChosen'
        <4>1. 0 \in 0..LastSecond
          OBVIOUS
        <4> QED BY <3>1, <4>1, ChosenOnce
      <3>4. UserTypeOK'
        BY <3>1, <3>2, <3>3 DEF UserTypeOK
      <3>5. Held' = {} /\ \A w \in Visitors : task'[w] \notin Writing
        BY <2>2, <3>1 DEF UserTypeOK, Rowed, Held, Saving, Writing
      <3>6. Rowed'
        BY <3>2, <3>5 DEF Rowed
      <3>7. DatedTogether'
        BY <3>1, <3>3, <3>5 DEF DatedTogether, Dated
      <3> QED BY <3>3, <3>4, <3>6, <3>7
    <2> QED BY <2>1, <2>2
  <1>4. ASSUME NEW v \in Visitors, find(v) PROVE UserInv'
    <2>1. user \in User /\ user # NoUser /\ patch[v] \in 0..(MAX_FAILED_ATTEMPTS - 1)
      BY <1>4 DEF find, UserTypeOK, Rowed
    <2> DEFINE e == [user EXCEPT !.failedLoginAttempts = patch[v]]
    <2>2. /\ e \in User
          /\ e.passwordHash = user.passwordHash /\ e.passwordChangedAt = user.passwordChangedAt
      BY <2>1 DEF User
    <2>3. PICK t \in Saving : task' = [task EXCEPT ![v] = t]
      BY <1>4 DEF find, Turn, Saving
    <2> HIDE DEF e
    <2>4. /\ entity' = [entity EXCEPT ![v] = e] /\ UNCHANGED <<user, second, columns, setAt, resetVars>>
          /\ UNCHANGED <<termsAccepted, usedRefreshTokens, patch, bearer>>
      BY <1>4 DEF find, e
    <2>5. entity' \in [Visitors -> User \cup {NoUser}] /\ Rowed' /\ ResetsChosen' /\ DatedTogether'
      BY <2>1, <2>2, <2>3, <2>4, LoadStep
    <2> QED BY <2>3, <2>4, <2>5 DEF UserTypeOK, resetVars, Saving
  <1>5. ASSUME NEW v \in Visitors, NEW e \in User, Loads(v, e), UNCHANGED setAt,
               e.passwordHash = user.passwordHash, e.passwordChangedAt = user.passwordChangedAt
        PROVE  UserInv'
    <2>1. entity' \in [Visitors -> User \cup {NoUser}] /\ Rowed' /\ ResetsChosen' /\ DatedTogether'
      BY <1>5, LoadStep DEF Loads, Turn, Saving
    <2> QED BY <1>5, <2>1 DEF Loads, Turn, UserTypeOK, resetVars
  <1>6. ASSUME NEW v \in Visitors, deleteUser(v) PROVE UserInv'
    <2>1. user \in User
      BY <1>6 DEF deleteUser, Loads, UserTypeOK
    <2>2. /\ [user EXCEPT !.email = "deleted"] \in User
          /\ [user EXCEPT !.email = "deleted"].passwordHash = user.passwordHash
          /\ [user EXCEPT !.email = "deleted"].passwordChangedAt = user.passwordChangedAt
      BY <2>1 DEF User
    <2> QED BY <1>5, <1>6, <2>2 DEF deleteUser
  <1>7. ASSUME NEW v \in Visitors, NEW active \in BOOLEAN, updateUserStatus(v, active) PROVE UserInv'
    <2>1. user \in User
      BY <1>7 DEF updateUserStatus, Loads, UserTypeOK
    <2>2. /\ [user EXCEPT !.isActive = active] \in User
          /\ [user EXCEPT !.isActive = active].passwordHash = user.passwordHash
          /\ [user EXCEPT !.isActive = active].passwordChangedAt = user.passwordChangedAt
      BY <2>1 DEF User
    <2> QED BY <1>5, <1>7, <2>2 DEF updateUserStatus
  <1>8. ASSUME NEW v \in Visitors, NEW r \in UserRole, updateUserRole(v, r) PROVE UserInv'
    <2>1. user \in User
      BY <1>8 DEF updateUserRole, Loads, UserTypeOK
    <2>2. /\ [user EXCEPT !.role = r] \in User
          /\ [user EXCEPT !.role = r].passwordHash = user.passwordHash
          /\ [user EXCEPT !.role = r].passwordChangedAt = user.passwordChangedAt
      BY <2>1 DEF User
    <2> QED BY <1>5, <1>8, <2>2 DEF updateUserRole
  <1>9. ASSUME NEW v \in Visitors, NEW p \in Unchosen, updatePassword(v, p) PROVE UserInv'
    <2>1. user \in User /\ user # NoUser /\ p \in Passwords /\ second \in 1..LastSecond
      BY <1>9 DEF updatePassword, Loads, UserTypeOK, Unchosen
    <2>2. PICK e \in User : /\ e = [user EXCEPT !.passwordHash = p, !.passwordChangedAt = second]
                            /\ e.passwordHash = p /\ e.passwordChangedAt = second
      <3> DEFINE d == [user EXCEPT !.passwordHash = p]
                 f == [user EXCEPT !.passwordHash = p, !.passwordChangedAt = second]
      <3>1. second \in 0..LastSecond
        BY <2>1
      <3>2. d \in User /\ d.passwordHash = p
        BY <2>1 DEF User
      <3>3. f = [d EXCEPT !.passwordChangedAt = second]
        BY DEF User
      <3>4. f \in User /\ f.passwordHash = p /\ f.passwordChangedAt = second
        <4> HIDE DEF d, f
        <4> QED BY <3>1, <3>2, <3>3 DEF User
      <3> QED BY <3>4
    <2>3. /\ entity' = [entity EXCEPT ![v] = e] /\ task' = [task EXCEPT ![v] = "save"]
          /\ setAt' = [setAt EXCEPT ![p] = second]
          /\ UNCHANGED <<user, termsAccepted, second, usedRefreshTokens, patch, columns, bearer>>
          /\ UNCHANGED <<resets, crossedReset>>
      BY <1>9, <2>2 DEF updatePassword, Loads, Turn, resetVars
    <2>4. /\ setAt' \in [Passwords -> -1..LastSecond] /\ setAt'[p] = second
          /\ ResetsChosen' /\ p \notin resets
          /\ DatesDiffer' => DatesDiffer
          /\ \A u \in User : Dated(u) => Dated(u)'
          /\ \A q \in Passwords \ {p} : setAt'[q] = setAt[q]
      <3>1. second \in 0..LastSecond
        BY <2>1
      <3> QED BY <2>3, <3>1, ChosenOnce
    <2>5. UserTypeOK'
      BY <2>2, <2>3, <2>4 DEF UserTypeOK
    <2>6. /\ entity'[v] = e /\ task'[v] \notin Writing /\ Held' \subseteq Held \cup {v}
          /\ \A w \in Visitors \ {v} : entity'[w] = entity[w] /\ task'[w] = task[w]
      BY <2>3 DEF UserTypeOK, Held, Saving, Writing
    <2>7. Rowed'
      BY <2>1, <2>2, <2>3, <2>6 DEF Rowed, UserTypeOK, Held
    <2>8. Dated(e)'
      <3>1. p \in Passwords \ resets' /\ setAt'[p] = second /\ second # -1
        BY <2>1, <2>3, <2>4
      <3> QED BY <2>2, <2>3, <3>1 DEF Dated
    <2>9. DatedTogether'
      <3> SUFFICES ASSUME DatesDiffer', ~crossedReset' PROVE DatedTogether'
        BY DEF DatedTogether
      <3>1. /\ DatesDiffer /\ ~crossedReset /\ Dated(user)
            /\ \A w \in Held : Dated(entity[w]) /\ Alike(entity[w], user)
            /\ \A w, x \in Held : Alike(entity[w], entity[x])
            /\ \A w \in Visitors : task[w] \in Writing => Both(columns[w])
        BY <2>1, <2>3, <2>4 DEF DatedTogether
      <3>2. ASSUME NEW u \in User, Dated(u) PROVE Alike(e, u) /\ Alike(u, e)
        <4>1. u.passwordHash # p
          BY <2>1, <3>2 DEF Dated, Unchosen
        <4>2. u.passwordChangedAt # second
          <5>1. CASE u.passwordChangedAt = 0
            BY <2>1, <5>1
          <5>2. ASSUME NEW q \in Passwords \ resets, setAt[q] = u.passwordChangedAt
                PROVE  u.passwordChangedAt # second
            <6>1. q # p
              BY <5>2, <3>2, <2>1 DEF Unchosen, User
            <6>2. setAt'[q] = setAt[q] /\ setAt'[p] = second /\ second >= 1
              BY <2>1, <2>4, <5>2, <6>1
            <6>3. q \in Passwords \ resets' /\ p \in Passwords \ resets'
              BY <2>1, <2>3, <2>4, <5>2
            <6> QED BY <2>1, <5>2, <6>1, <6>2, <6>3 DEF DatesDiffer
          <5> QED BY <3>2, <5>1, <5>2 DEF Dated
        <4> QED BY <2>2, <4>1, <4>2 DEF Alike
      <3>3. \A w \in Held' : w \in Visitors /\ (w = v \/ (w \in Held /\ entity'[w] = entity[w]))
        BY <2>6 DEF Held
      <3>4. \A w \in Held : entity[w] \in User
        BY DEF Rowed
      <3>5. \A w \in Held' : Alike(entity'[w], user) /\ Dated(entity[w])'
        <4> SUFFICES ASSUME NEW w \in Held' PROVE Alike(entity'[w], user) /\ Dated(entity[w])'
          OBVIOUS
        <4>1. CASE w = v
          BY <2>1, <2>6, <2>8, <3>1, <3>2, <4>1 DEF Dated
        <4>2. CASE w \in Held /\ entity'[w] = entity[w]
          BY <2>4, <3>1, <3>4, <4>2 DEF Dated
        <4> QED BY <3>3, <4>1, <4>2
      <3>6. \A w, x \in Held' : Alike(entity'[w], entity'[x])
        <4>1. Alike(e, e)
          BY DEF Alike
        <4> QED BY <2>6, <3>1, <3>2, <3>3, <3>4, <4>1
      <3>7. \A w \in Visitors : task'[w] \in Writing => Both(columns'[w])
        BY <2>3, <2>6, <3>1
      <3>8. Dated(user)'
        BY <2>1, <2>3, <2>4, <3>1 DEF Dated
      <3> QED BY <2>3, <3>5, <3>6, <3>7, <3>8 DEF DatedTogether, Alike
    <2> QED BY <2>4, <2>5, <2>7, <2>9
  <1>10. ASSUME NEW v \in Visitors, compare(v) PROVE UserInv'
    <2>1. user \in User /\ user # NoUser /\ entity[v] \in User
      BY <1>10 DEF compare, UserTypeOK, Rowed, Held, Saving
    <2>2. UserTypeOK'
      BY <1>10 DEF compare, Turn, UserTypeOK, resetVars
    <2>3. PICK t \in Writing : task' = [task EXCEPT ![v] = t]
      BY <1>10 DEF compare, Turn, Writing
    <2>4. UNCHANGED <<user, entity, setAt, resets, crossedReset>> /\ task[v] \in Saving
      BY <1>10 DEF compare, Saving, resetVars
    <2>5. Held' = Held /\ v \in Held
      BY <2>3, <2>4 DEF Held, UserTypeOK, Saving, Writing
    <2>6. Rowed' /\ ResetsChosen'
      BY <2>1, <2>3, <2>4, <2>5 DEF Rowed, ResetsChosen, UserTypeOK
    <2>7. DatedTogether'
      <3> SUFFICES ASSUME DatesDiffer', ~crossedReset' PROVE DatedTogether'
        BY DEF DatedTogether
      <3>1. /\ DatesDiffer /\ ~crossedReset /\ Dated(user)
            /\ \A w \in Held : Dated(entity[w]) /\ Alike(entity[w], user)
            /\ \A w, x \in Held : Alike(entity[w], entity[x])
            /\ \A w \in Visitors : task[w] \in Writing => Both(columns[w])
        BY <2>1, <2>4 DEF DatedTogether, DatesDiffer
      <3>2. Both(columns'[v])
        <4>1. columns'[v] = {k \in UserColumns : entity[v][k] # user[k]}
          BY <1>10 DEF compare, UserTypeOK
        <4> QED BY <2>5, <3>1, <4>1 DEF UserColumns, Alike, Both
      <3>3. \A w \in Visitors \ {v} : columns'[w] = columns[w] /\ task'[w] = task[w]
        BY <1>10, <2>3 DEF compare, UserTypeOK
      <3>4. \A w \in Visitors : task'[w] \in Writing => Both(columns'[w])
        BY <3>1, <3>2, <3>3
      <3>5. Dated(user)' /\ \A w \in Held : Dated(entity[w])'
        BY <2>4, <3>1 DEF Dated
      <3> QED BY <2>4, <2>5, <3>1, <3>4, <3>5 DEF DatedTogether, Alike
    <2> QED BY <2>2, <2>6, <2>7
  <1>11. ASSUME NEW v \in Visitors, write(v) PROVE UserInv'
    <2>1. v \in Held /\ task[v] \in Writing
      BY <1>11 DEF write, Held, Writing
    <2>2. user \in User /\ user # NoUser /\ entity[v] \in User
      BY <2>1, <1>11 DEF write, UserTypeOK, Rowed
    <2>3. /\ user' = [k \in UserColumns |-> IF k \in columns[v] THEN entity[v][k] ELSE user[k]]
          /\ UNCHANGED <<termsAccepted, second, usedRefreshTokens, patch, entity, columns, bearer, setAt>>
          /\ UNCHANGED <<resets, crossedReset>>
      BY <1>11 DEF write, resetVars
    <2>4. user' \in User /\ user' # NoUser
      BY <2>2, <2>3 DEF User, UserColumns
    <2>5. PICK t \in {"done", "ensure"} : task' = [task EXCEPT ![v] = t]
      BY <1>11 DEF write, Turn
    <2>6. UserTypeOK'
      BY <2>3, <2>4, <2>5 DEF UserTypeOK
    <2>7. /\ Held' \subseteq Held
          /\ \A w \in Visitors : task'[w] \in Writing => task[w] \in Writing
      BY <2>5 DEF Held, UserTypeOK, Saving, Writing
    <2>8. Rowed' /\ ResetsChosen'
      BY <2>2, <2>3, <2>4, <2>5, <2>7 DEF Rowed, ResetsChosen, UserTypeOK
    <2>9. DatedTogether'
      <3> SUFFICES ASSUME DatesDiffer', ~crossedReset' PROVE DatedTogether'
        BY DEF DatedTogether
      <3>1. /\ DatesDiffer /\ ~crossedReset /\ Dated(user)
            /\ \A w \in Held : Dated(entity[w]) /\ Alike(entity[w], user)
            /\ \A w, x \in Held : Alike(entity[w], entity[x])
            /\ \A w \in Visitors : task[w] \in Writing => Both(columns[w])
        BY <2>2, <2>3 DEF DatedTogether, DatesDiffer
      <3>2. PICK u \in {user, entity[v]} :
                /\ user'.passwordHash = u.passwordHash
                /\ user'.passwordChangedAt = u.passwordChangedAt
        <4>1. /\ user'.passwordHash = IF "passwordHash" \in columns[v] THEN entity[v].passwordHash
                                      ELSE user.passwordHash
              /\ user'.passwordChangedAt = IF "passwordChangedAt" \in columns[v]
                                           THEN entity[v].passwordChangedAt ELSE user.passwordChangedAt
          BY <2>3 DEF UserColumns
        <4>2. Both(columns[v])
          BY <2>1, <3>1
        <4> QED BY <4>1, <4>2 DEF Both
      <3>3. Dated(u) /\ \A w \in Held : Alike(entity[w], u)
        BY <2>1, <3>1, <3>2
      <3>4. Dated(user)' /\ \A w \in Held : Dated(entity[w])'
        BY <2>3, <3>1, <3>2, <3>3 DEF Dated
      <3>5. \A w \in Held : Alike(entity[w], user)'
        BY <2>3, <3>2, <3>3 DEF Alike
      <3> QED BY <2>3, <2>7, <3>1, <3>4, <3>5 DEF DatedTogether, Alike
    <2> QED BY <2>6, <2>8, <2>9
  <1>12. ASSUME NEW v \in Visitors, NEW p \in Unchosen, storeReset(v, p) PROVE UserInv'
    <2>1. /\ user' = [user EXCEPT !.passwordHash = p]
          /\ setAt' = [setAt EXCEPT ![p] = second]
          /\ resets' = resets \cup {p}
          /\ crossedReset' = (crossedReset \/ Held # {})
          /\ task' = [task EXCEPT ![v] = "done"] /\ task[v] = "reset"
          /\ UNCHANGED <<termsAccepted, second, usedRefreshTokens, patch, entity, columns, bearer>>
      BY <1>12 DEF storeReset, Turn
    <2>2. user \in User /\ user # NoUser /\ p \in Passwords /\ second \in 0..LastSecond
      BY <2>1 DEF UserTypeOK, Rowed, Unchosen
    <2>3. /\ user' \in User /\ user' # NoUser /\ user'.passwordHash = p
          /\ user'.passwordChangedAt = user.passwordChangedAt
      BY <2>1, <2>2 DEF User
    <2>4. /\ setAt' \in [Passwords -> -1..LastSecond] /\ setAt'[p] = second
          /\ ResetsChosen'
          /\ DatesDiffer' => DatesDiffer
          /\ \A q \in Passwords \ {p} : setAt'[q] = setAt[q]
      BY <2>1, <2>2, ChosenOnce
    <2>5. UserTypeOK'
      BY <2>1, <2>2, <2>3, <2>4 DEF UserTypeOK
    <2>6. /\ Held' \subseteq Held
          /\ \A w \in Visitors : task'[w] \in Writing => w \in Held
      BY <2>1 DEF Held, UserTypeOK, Saving, Writing
    <2>7. Rowed'
      BY <2>1, <2>2, <2>3, <2>6 DEF Rowed, UserTypeOK
    <2>8. DatedTogether'
      <3> SUFFICES ASSUME DatesDiffer', ~crossedReset' PROVE DatedTogether'
        BY DEF DatedTogether
      <3>1. Held = {} /\ DatesDiffer /\ ~crossedReset
        BY <2>1, <2>4
      <3>2. Dated(user)
        BY <2>2, <3>1 DEF DatedTogether
      <3>3. user.passwordChangedAt = 0
            \/ \E q \in Passwords \ resets' : setAt'[q] = user.passwordChangedAt
        <4>1. ASSUME NEW q \in Passwords \ resets, setAt[q] = user.passwordChangedAt
              PROVE  q \in Passwords \ resets' /\ setAt'[q] = user.passwordChangedAt
          <5>1. q # p
            BY <2>2, <4>1 DEF Unchosen, User
          <5> QED BY <2>1, <2>4, <4>1, <5>1
        <4> QED BY <3>2, <4>1 DEF Dated
      <3>4. Dated(user)'
        BY <2>1, <2>2, <2>3, <2>4, <3>3 DEF Dated
      <3> QED BY <2>6, <3>1, <3>4 DEF DatedTogether
    <2> QED BY <2>4, <2>5, <2>7, <2>8
  <1>13. ASSUME NEW v \in Visitors, rotateRefreshToken(v) PROVE UserInv'
    BY <1>13 DEF rotateRefreshToken, UserTypeOK, Token, Rowed, ResetsChosen, DatedTogether,
                 DatesDiffer, Dated, Alike, Held, resetVars
  <1>14. CASE restartForgetsTokens \/ UserTick
    BY <1>14 DEF restartForgetsTokens, UserTick, UserTypeOK, Rowed, ResetsChosen, DatedTogether,
                 DatesDiffer, Dated, Alike, Held, resetVars
  <1>15. CASE UNCHANGED userVars
    BY <1>15 DEF userVars, UserTypeOK, Rowed, ResetsChosen, DatedTogether, DatesDiffer, Dated,
                 Alike, Held
  <1> QED BY <1>1, <1>2, <1>3, <1>4, <1>6, <1>7, <1>8, <1>9, <1>10, <1>11, <1>12, <1>13, <1>14,
             <1>15
          DEF UserNext

(* JwtStrategy accepts no token older than the password in the row,        *)
(* whatever requests overlap and whichever stale save comes last, as long  *)
(* as the password is not one that resetPassword stored and no reset fell  *)
(* while a request held the row: UsersService writes the hash and its date *)
(* together or not at all, also over a row that a reset left undated.      *)
THEOREM TokensPostdatePassword == UserSpec => []AcceptedTokensPostdatePassword
  <1>1. UserInv => AcceptedTokensPostdatePassword
    <2> SUFFICES ASSUME UserInv, NEW v \in Visitors, DatesDiffer, ~crossedReset, user # NoUser,
                        user.passwordHash \notin resets, bearer[v] # NoToken, validate(bearer[v])
                 PROVE  bearer[v].iat >= setAt[user.passwordHash]
      BY DEF AcceptedTokensPostdatePassword, Postdates
    <2>1. user \in User /\ Dated(user) /\ ~(bearer[v].iat < user.passwordChangedAt)
      BY DEF UserInv, UserTypeOK, DatedTogether, validate
    <2>2. bearer[v].iat \in Int /\ user.passwordChangedAt \in Int
      BY <2>1, UsersAssumption DEF UserInv, UserTypeOK, Token, User
    <2> QED BY <2>1, <2>2 DEF Dated
  <1> QED BY <1>1, UserInvInit, UserInvStep, PTL DEF UserSpec

----------------------------------------------------------------------------
(* AccountClosure. *)

(* The families are named by tokens that exist; a rotation under way holds *)
(* a row whose family is not cut off.                                      *)
TokensReal ==
    /\ \A t \in Rows : refreshTokens[t].familyId \in Rows
    /\ cutOff \subseteq Rows
    /\ \A k \in Clients : held[k] # NoRow =>
            held[k] \in Rows /\ refreshTokens[held[k]].familyId \notin cutOff

(* While nothing was credited late, there is still no wallet, as the       *)
(* closer found.                                                           *)
CheckHolds ==
    ~lateCredit => /\ \A k \in Closers : closing[k] = "checked" => accountBalance = NoRow
                   /\ ~account.isActive => accountBalance = NoRow

ClosureInv == ClosureTypeOK /\ RevocationIsFinal /\ TokensReal /\ CheckHolds

(* What revoking every row at once does to the rows. *)
LEMMA RevokeAllStep ==
    ASSUME ClosureInv, RevokeAll, held' = held
    PROVE  /\ refreshTokens' \in [TokenIds -> RefreshToken \cup {NoRow}] /\ cutOff' \subseteq TokenIds
           /\ RevocationIsFinal' /\ TokensReal'
  <1> USE ClosureAssumption DEF ClosureInv, ClosureTypeOK
  <1>1. ASSUME NEW t \in Rows
        PROVE  [refreshTokens[t] EXCEPT !.revoked = TRUE] \in RefreshToken
    BY DEF Rows, RefreshToken
  <1>2. refreshTokens' \in [TokenIds -> RefreshToken \cup {NoRow}]
    BY <1>1 DEF RevokeAll
  <1>3. Rows' = Rows
    BY <1>1 DEF RevokeAll, Rows
  <1>4. \A t \in Rows : /\ refreshTokens'[t].revoked = TRUE
                        /\ refreshTokens'[t].familyId = refreshTokens[t].familyId
                        /\ refreshTokens[t].familyId \in TokenIds
    BY DEF RevokeAll, Rows, RefreshToken
  <1>5. cutOff' \subseteq TokenIds
    <2>1. \A f \in cutOff' : f \in cutOff \/ \E t \in Rows : f = refreshTokens[t].familyId
      BY DEF RevokeAll
    <2> QED BY <1>4, <2>1
  <1>6. RevocationIsFinal'
    BY <1>3, <1>4 DEF RevocationIsFinal
  <1>7. TokensReal'
    <2>1. cutOff' \subseteq Rows
      BY DEF RevokeAll, TokensReal
    <2>2. \A k \in Clients : held[k] # NoRow => refreshTokens[held[k]].familyId \notin cutOff'
      BY DEF RevokeAll, TokensReal, Rotating
    <2> QED BY <1>3, <1>4, <2>1, <2>2 DEF TokensReal
  <1> QED BY <1>2, <1>5, <1>6, <1>7

(* The inductive invariant holds initially. *)
LEMMA ClosureInvInit == ClosureInit => ClosureInv
  <1> SUFFICES ASSUME ClosureInit PROVE ClosureInv
    OBVIOUS
  <1> USE ClosureAssumption DEF ClosureInit
  <1>1. accountBalance \in {NoRow} \cup 0..MaxBalance /\ account \in UserAccount
    BY DEF UserAccount
  <1>2. ClosureTypeOK
    BY <1>1 DEF ClosureTypeOK
  <1>3. RevocationIsFinal /\ TokensReal /\ CheckHolds
    BY DEF RevocationIsFinal, TokensReal, Rows, CheckHolds
  <1> QED BY <1>2, <1>3 DEF ClosureInv

(* Every step preserves it. *)
LEMMA ClosureInvStep == ClosureInv /\ [ClosureNext]_closureVars => ClosureInv'
  <1> SUFFICES ASSUME ClosureInv, [ClosureNext]_closureVars PROVE ClosureInv'
    OBVIOUS
  <1> USE ClosureAssumption DEF ClosureInv
  <1>1. ASSUME NEW t \in TokenIds, createToken(t) PROVE ClosureInv'
    <2>1. NewToken(t, NoRow) \in RefreshToken
      BY DEF NewToken, RefreshToken
    <2>2. ClosureTypeOK' /\ Rows' = Rows \cup {t}
      BY <1>1, <2>1 DEF createToken, ClosureTypeOK, Rows
    <2>3. /\ refreshTokens'[t].familyId = t
          /\ \A x \in Rows : refreshTokens'[x] = refreshTokens[x]
      BY <1>1 DEF createToken, ClosureTypeOK, NewToken, Rows
    <2>4. t \notin cutOff
      BY <1>1 DEF createToken, TokensReal
    <2>5. RevocationIsFinal' /\ TokensReal'
      BY <1>1, <2>2, <2>3, <2>4 DEF createToken, RevocationIsFinal, TokensReal
    <2>6. CheckHolds'
      BY <1>1 DEF createToken, CheckHolds
    <2> QED BY <2>2, <2>5, <2>6
  <1>2. ASSUME NEW t \in TokenIds, tokenExpires(t) PROVE ClosureInv'
    <2>1. [refreshTokens[t] EXCEPT !.expired = TRUE] \in RefreshToken
      BY <1>2 DEF tokenExpires, ClosureTypeOK, Rows, RefreshToken
    <2>2. ClosureTypeOK' /\ Rows' = Rows
      BY <1>2, <2>1 DEF tokenExpires, ClosureTypeOK, Rows
    <2>3. \A x \in Rows : /\ refreshTokens'[x].familyId = refreshTokens[x].familyId
                          /\ refreshTokens'[x].revoked = refreshTokens[x].revoked
      BY <1>2 DEF tokenExpires, ClosureTypeOK, Rows, RefreshToken
    <2>4. RevocationIsFinal' /\ TokensReal'
      BY <1>2, <2>2, <2>3 DEF tokenExpires, RevocationIsFinal, TokensReal
    <2>5. CheckHolds'
      BY <1>2 DEF tokenExpires, CheckHolds
    <2> QED BY <2>2, <2>4, <2>5
  <1>3. ASSUME NEW k \in Clients, NEW t \in TokenIds, rotateToken(k, t) PROVE ClosureInv'
    <2>1. ClosureTypeOK' /\ Rows' = Rows
      BY <1>3 DEF rotateToken, ClosureTypeOK, Rows
    <2>2. refreshTokens[t].familyId \notin cutOff
      BY <1>3 DEF rotateToken, Rotatable, RevocationIsFinal
    <2>3. RevocationIsFinal' /\ TokensReal'
      BY <1>3, <2>1, <2>2 DEF rotateToken, RevocationIsFinal, TokensReal, ClosureTypeOK
    <2>4. CheckHolds'
      BY <1>3 DEF rotateToken, CheckHolds
    <2> QED BY <2>1, <2>3, <2>4
  <1>4. ASSUME NEW k \in Clients, NEW t \in TokenIds, saveRotation(k, t) PROVE ClosureInv'
    <2> DEFINE h == held[k]
               f == refreshTokens[h].familyId
    <2>1. h \in Rows /\ f \in Rows /\ f \notin cutOff /\ t \notin Rows /\ h # t
      BY <1>4 DEF saveRotation, TokensReal
    <2>2. NewToken(f, h) \in RefreshToken /\ [refreshTokens[h] EXCEPT !.revoked = TRUE] \in RefreshToken
      BY <2>1 DEF NewToken, RefreshToken, Rows, ClosureTypeOK
    <2>3. refreshTokens' = [refreshTokens EXCEPT ![h] = [refreshTokens[h] EXCEPT !.revoked = TRUE],
                                                 ![t] = NewToken(f, h)]
      BY <1>4 DEF saveRotation
    <2>4. ClosureTypeOK' /\ Rows' = Rows \cup {t}
      <3> HIDE DEF h, f
      <3>1. refreshTokens' \in [TokenIds -> RefreshToken \cup {NoRow}]
        BY <2>1, <2>2, <2>3 DEF ClosureTypeOK
      <3>2. held' \in [Clients -> TokenIds \cup {NoRow}]
        BY <1>4 DEF saveRotation, ClosureTypeOK
      <3>3. Rows' = Rows \cup {t}
        BY <2>1, <2>2, <2>3 DEF Rows, ClosureTypeOK
      <3> QED BY <1>4, <3>1, <3>2, <3>3 DEF saveRotation, ClosureTypeOK
    <2>5. /\ refreshTokens'[t].familyId = f
          /\ \A x \in Rows : /\ refreshTokens'[x].familyId = refreshTokens[x].familyId
                             /\ refreshTokens[x].revoked => refreshTokens'[x].revoked
      BY <2>1, <2>3 DEF ClosureTypeOK, NewToken, Rows, RefreshToken
    <2>6. RevocationIsFinal' /\ TokensReal'
      <3> HIDE DEF h, f
      <3>1. cutOff' = cutOff /\ \A c \in Clients : held'[c] # NoRow => held'[c] = held[c]
        BY <1>4 DEF saveRotation, ClosureTypeOK
      <3>2. RevocationIsFinal'
        BY <2>1, <2>4, <2>5, <3>1 DEF RevocationIsFinal
      <3>3. TokensReal'
        BY <2>1, <2>4, <2>5, <3>1 DEF TokensReal
      <3> QED BY <3>2, <3>3
    <2>7. CheckHolds'
      BY <1>4 DEF saveRotation, CheckHolds
    <2> QED BY <2>4, <2>6, <2>7
  <1>5. ASSUME NEW k \in Clients, rotationFails(k) PROVE ClosureInv'
    BY <1>5 DEF rotationFails, ClosureTypeOK, RevocationIsFinal, TokensReal, Rows, CheckHolds
  <1>6. CASE revokeUserTokens
    BY <1>6, RevokeAllStep DEF revokeUserTokens, ClosureTypeOK, CheckHolds
  <1>7. ASSUME NEW k \in Closers, verifyRequest(k) \/ assertZeroBalance(k) \/ closureEnds(k)
        PROVE  ClosureInv'
    BY <1>7 DEF verifyRequest, assertZeroBalance, NoFunds, closureEnds, ClosureStep, ClosureTypeOK,
                RevocationIsFinal, TokensReal, Rows, CheckHolds
  <1>8. ASSUME NEW k \in Closers, saveClosed(k) PROVE ClosureInv'
    BY <1>8 DEF saveClosed, ClosureStep, ClosureTypeOK, UserAccount, RevocationIsFinal, TokensReal,
                Rows, CheckHolds
  <1>9. ASSUME NEW k \in Closers, revokeAndMail(k) PROVE ClosureInv'
    BY <1>9, RevokeAllStep DEF revokeAndMail, ClosureStep, ClosureTypeOK, CheckHolds
  <1>10. ASSUME NEW k \in Closers, NEW delivered \in BOOLEAN, sendFinalConfirmation(k, delivered)
         PROVE  ClosureInv'
    BY <1>10 DEF sendFinalConfirmation, ClosureStep, ClosureTypeOK, UserAccount, RevocationIsFinal,
                 TokensReal, Rows, CheckHolds
  <1>11. CASE retentionEnds \/ findDue
    <2>0. account \in UserAccount /\ purge \in BOOLEAN
      BY DEF ClosureTypeOK
    <2>1. account' \in UserAccount /\ purge' \in BOOLEAN /\ account'.isActive = account.isActive
      <3>1. CASE retentionEnds
        BY ONLY <3>1, <2>0 DEF retentionEnds, UserAccount
      <3>2. CASE findDue
        BY ONLY <3>2, <2>0 DEF findDue, UserAccount
      <3> QED BY ONLY <1>11, <3>1, <3>2
    <2>2. UNCHANGED <<refreshTokens, held, closing, accountBalance, cutOff, lateCredit>>
      BY <1>11 DEF retentionEnds, findDue
    <2>3. ClosureTypeOK'
      BY <2>1, <2>2 DEF ClosureTypeOK
    <2> QED BY <2>1, <2>2, <2>3 DEF RevocationIsFinal, TokensReal, Rows, CheckHolds
  <1>12. ASSUME NEW saved \in BOOLEAN, purgeExpiredPersonalData(saved) PROVE ClosureInv'
    BY <1>12 DEF purgeExpiredPersonalData, ClosureTypeOK, UserAccount, RevocationIsFinal, TokensReal,
                 Rows, CheckHolds
  <1>13. ASSUME NEW n \in 0..MaxBalance, walletMoves(n) PROVE ClosureInv'
    BY <1>13 DEF walletMoves, ClosureTypeOK, RevocationIsFinal, TokensReal, Rows, CheckHolds
  <1>14. CASE UNCHANGED closureVars
    BY <1>14 DEF closureVars, ClosureTypeOK, RevocationIsFinal, TokensReal, Rows, CheckHolds
  <1> QED BY <1>1, <1>2, <1>3, <1>4, <1>5, <1>6, <1>7, <1>8, <1>9, <1>10, <1>11, <1>12, <1>13,
             <1>14 DEF ClosureNext

(* Closing an account and revoking its tokens is for good: no family that  *)
(* was revoked outside a rotation has a usable token again, and a closed   *)
(* account has money only if it came after the check, for any number of    *)
(* requests and tokens.                                                    *)
THEOREM ClosuresAreFinal == ClosureSpec => []ClosureIsFinal
  <1>1. ClosureInv => ClosureIsFinal
    BY ClosureAssumption DEF ClosureInv, CheckHolds, ClosureIsFinal, ClosedAccountsAreEmpty
  <1> QED BY <1>1, ClosureInvInit, ClosureInvStep, PTL DEF ClosureSpec

----------------------------------------------------------------------------
(* One-time codes. *)

(* A check that has read its row writes it the way its store does, and no  *)
(* code beyond the last exists.                                            *)
ChecksFit ==
    \A k \in Checkers :
        /\ checking[k].write = "none" <=> checking[k].code = 0
        /\ checking[k].write = "save" => store = "otps"
        /\ checking[k].write \in {"count", "delete"} => store = "password_reset_tokens"
        /\ checking[k].write = "effect" => ~InTable
        /\ checking[k].write \in {"save", "count"} => checking[k].row \in Otp

NoneBeyondLast ==
    /\ \A n \in Stored : n <= lastCode
    /\ \A k \in Checkers : checking[k].code <= lastCode
    /\ \A n \in Numbers : judged[n] > 0 => n <= lastCode
    /\ \A n \in Numbers : acceptances[n] <= judged[n]
    /\ \A i \in Issuers : issuing[i] => InTable

(* Two checks of one code make it contended. *)
AloneUnlessContended ==
    \A k, l \in Checkers :
        k # l /\ checking[k].code = checking[l].code /\ checking[k].code # 0
            => checking[k].code \in contendedCodes

(* What the history says of a code is in its row, or in the row that the   *)
(* only check of it will write.                                            *)
Accounts(n, r) == /\ r.used \/ judged[n] <= r.attempts
                  /\ acceptances[n] > 0 => r.used

Counted ==
    InTable => \A n \in Numbers \ contendedCodes :
        /\ judged[n] <= MAX_ATTEMPTS
        /\ acceptances[n] <= 1
        /\ n \in Stored \ Checked => Accounts(n, codes[n])
        /\ \A k \in Checkers : checking[k].code = n /\ checking[k].write = "save"
                => Accounts(n, checking[k].row)
        /\ \A k \in Checkers : checking[k].code = n /\ checking[k].write = "count"
                => judged[n] <= checking[k].row.attempts

(* A reset token is consumed once. *)
ConsumedOnce ==
    store = "password_reset_tokens" => \A n \in Numbers :
        /\ acceptances[n] <= 1
        /\ n \in Stored /\ acceptances[n] > 0 => codes[n].used

(* A newer code was stored, or is about to be. *)
Superseded(n) == n < lastCode \/ \E i \in Issuers : issuing[i]

(* What is left of a superseded code cannot be accepted any more. *)
SupersededIsDead ==
    /\ ~InTable => Stored \subseteq {lastCode}
    /\ store = "otps" => \A n \in Stored \cup Checked :
            Superseded(n) => n \in contendedCodes \cup expiredCodes
    /\ store = "otps" => Checked \subseteq Stored \cup contendedCodes \cup expiredCodes
    /\ store = "password_reset_tokens" => \A n \in Stored :
            Superseded(n) => n \in contendedCodes \/ codes[n].used

CodesInv == /\ CodesTypeOK /\ ChecksFit /\ NoneBeyondLast /\ AloneUnlessContended
            /\ Counted /\ ConsumedOnce /\ SupersededIsDead /\ AcceptedIsNewest

(* The inductive invariant of the codes holds initially. *)
LEMMA CodesInvInit == CodesInit => CodesInv
  <1> SUFFICES ASSUME CodesInit PROVE CodesInv
    OBVIOUS
  <1> USE CodesAssumption DEF CodesInit
  <1>1. 0 \in 0..MaxCodes /\ 0 \in 0..MaxJudged /\ \A n \in Numbers : n # 0
    BY DEF Numbers
  <1>2. /\ Idle \in [code : 0..MaxCodes, write : Writes, row : Otp \cup {Absent}]
        /\ Idle.code = 0 /\ Idle.write = "none"
    BY <1>1 DEF Idle, Writes
  <1>3. CodesTypeOK
    BY <1>1, <1>2 DEF CodesTypeOK
  <1>4. Stored = {} /\ Checked = {}
    BY <1>2 DEF Stored, Checked
  <1>5. ChecksFit /\ NoneBeyondLast /\ AloneUnlessContended
    BY <1>2, <1>4 DEF ChecksFit, NoneBeyondLast, AloneUnlessContended, InTable
  <1>6. Counted /\ ConsumedOnce
    BY <1>2, <1>4 DEF Counted, ConsumedOnce
  <1>7. SupersededIsDead /\ AcceptedIsNewest
    BY <1>4 DEF SupersededIsDead, AcceptedIsNewest
  <1> QED BY <1>3, <1>5, <1>6, <1>7 DEF CodesInv

(* Rows are deleted, the checks go on, and what is deleted while it is     *)
(* checked is contended or has expired.                                    *)
LEMMA DeleteStep ==
    ASSUME CodesInv, NEW D, codes' = Without(D), InTable,
           contendedCodes \subseteq contendedCodes', contendedCodes' \subseteq Numbers,
           UNCHANGED <<store, emailVerified, expiredCodes, lastCode, checking, judged, acceptances,
                       outdated>>
    PROVE  /\ Stored' = Stored \ D /\ \A n \in Stored' : codes'[n] = codes[n]
           /\ Checked' = Checked
           /\ codes' \in [Numbers -> Otp \cup {Absent}]
           /\ ChecksFit' /\ AloneUnlessContended' /\ Counted' /\ ConsumedOnce' /\ AcceptedIsNewest'
  <1> USE DEF CodesInv
  <1>1. Stored' = Stored \ D /\ \A n \in Stored' : codes'[n] = codes[n]
    BY DEF Stored, Without
  <1>2. Checked' = Checked
    BY DEF Checked
  <1>3. codes' \in [Numbers -> Otp \cup {Absent}]
    BY DEF Without, CodesTypeOK
  <1>4. ChecksFit' /\ AloneUnlessContended' /\ AcceptedIsNewest'
    BY DEF ChecksFit, AloneUnlessContended, AcceptedIsNewest, InTable
  <1>5. Counted'
    BY <1>1, <1>2 DEF Counted, Accounts, InTable
  <1>6. ConsumedOnce'
    BY <1>1 DEF ConsumedOnce
  <1> QED BY <1>1, <1>2, <1>3, <1>4, <1>5, <1>6

(* A row is marked used, its attempts as they were. *)
LEMMA UseStep ==
    ASSUME CodesInv, NEW n \in Stored, codes' = [codes EXCEPT ![n].used = TRUE], InTable,
           UNCHANGED <<store, emailVerified, expiredCodes, lastCode, issuing, checking, judged,
                       contendedCodes>>
    PROVE  /\ codes' \in [Numbers -> Otp \cup {Absent}]
           /\ codes'[n].used /\ Stored' \subseteq Stored /\ Checked' = Checked
           /\ \A m \in Stored' : /\ codes'[m].attempts = codes[m].attempts
                                 /\ codes[m].used => codes'[m].used
           /\ ChecksFit' /\ AloneUnlessContended' /\ SupersededIsDead'
  <1> USE DEF CodesInv
  <1>1. n \in Numbers /\ codes[n] \in Otp
    BY DEF Stored, CodesTypeOK
  <1>2. /\ [codes[n] EXCEPT !.used = TRUE] \in Otp
        /\ [codes[n] EXCEPT !.used = TRUE].used
        /\ [codes[n] EXCEPT !.used = TRUE].attempts = codes[n].attempts
    BY <1>1 DEF Otp
  <1>3. codes'[n] = [codes[n] EXCEPT !.used = TRUE] /\ \A m \in Numbers \ {n} : codes'[m] = codes[m]
    BY <1>1 DEF CodesTypeOK
  <1>4. codes' \in [Numbers -> Otp \cup {Absent}]
    BY <1>1, <1>2 DEF CodesTypeOK
  <1>5. Stored' \subseteq Stored /\ Checked' = Checked
    BY <1>1, <1>3 DEF Stored, Checked
  <1>6. \A m \in Stored' : codes'[m].attempts = codes[m].attempts /\ (codes[m].used => codes'[m].used)
    BY <1>2, <1>3 DEF Stored
  <1>7. ChecksFit' /\ AloneUnlessContended'
    BY DEF ChecksFit, AloneUnlessContended, InTable
  <1>8. n \in Stored' \/ codes'[n] = Absent
    BY <1>1 DEF Stored
  <1>9. SupersededIsDead'
    <2>1. store = "otps" => Checked' \subseteq Stored' \cup contendedCodes' \cup expiredCodes'
      BY <1>1, <1>2, <1>3, <1>5, CodesAssumption DEF SupersededIsDead, Stored
    <2> QED BY <1>2, <1>3, <1>5, <1>6, <2>1 DEF SupersededIsDead, Superseded, InTable
  <1> QED BY <1>2, <1>3, <1>4, <1>5, <1>6, <1>7, <1>9

(* A check begins on a stored code: it is contended if it was checked.     *)
LEMMA BeginStep ==
    ASSUME CodesInv, NEW k \in Checkers, checking[k] = Idle, NEW n \in Stored,
           NEW c \in [code : 0..MaxCodes, write : Writes, row : Otp \cup {Absent}], c.code = n,
           checking' = [checking EXCEPT ![k] = c],
           contendedCodes' = contendedCodes \cup ({n} \cap Checked),
           UNCHANGED <<codes, lastCode>>
    PROVE  /\ n \in Numbers /\ n # 0 /\ codes[n] \in Otp /\ n <= lastCode
           /\ checking'[k] = c /\ \A l \in Checkers \ {k} : checking'[l] = checking[l]
           /\ checking' \in [Checkers -> [code : 0..MaxCodes, write : Writes, row : Otp \cup {Absent}]]
           /\ contendedCodes \subseteq contendedCodes' /\ contendedCodes' \subseteq Numbers
           /\ Stored' = Stored /\ Checked' = Checked \cup {n}
           /\ AloneUnlessContended'
           /\ n \notin contendedCodes' => n \notin Checked
           /\ \A l \in Checkers : checking'[l].code <= lastCode'
  <1> USE DEF CodesInv
  <1>1. n \in Numbers /\ n # 0 /\ codes[n] \in Otp /\ n <= lastCode
    BY CodesAssumption DEF Stored, CodesTypeOK, Numbers, NoneBeyondLast
  <1>2. checking'[k] = c /\ \A l \in Checkers \ {k} : checking'[l] = checking[l]
    BY DEF CodesTypeOK
  <1>3. checking' \in [Checkers -> [code : 0..MaxCodes, write : Writes, row : Otp \cup {Absent}]]
    BY DEF CodesTypeOK
  <1>4. contendedCodes \subseteq contendedCodes' /\ contendedCodes' \subseteq Numbers
    BY <1>1 DEF CodesTypeOK
  <1>5. Stored' = Stored
    BY DEF Stored
  <1>6. checking[k].code = 0
    BY DEF Idle
  <1>7. Checked' = Checked \cup {n}
    BY <1>1, <1>2, <1>6 DEF Checked
  <1>8. AloneUnlessContended'
    <2> SUFFICES ASSUME NEW a \in Checkers, NEW b \in Checkers, a # b,
                        checking'[a].code = checking'[b].code, checking'[a].code # 0
                 PROVE  checking'[a].code \in contendedCodes'
      BY DEF AloneUnlessContended
    <2>1. CASE a # k /\ b # k
      BY <1>2, <1>4, <2>1 DEF AloneUnlessContended
    <2>2. CASE a = k
      BY <1>2, <2>2 DEF Checked
    <2>3. CASE b = k
      BY <1>2, <2>3 DEF Checked
    <2> QED BY <2>1, <2>2, <2>3
  <1>9. \A l \in Checkers : checking'[l].code <= lastCode'
    BY <1>1, <1>2 DEF NoneBeyondLast
  <1> QED BY <1>1, <1>2, <1>3, <1>4, <1>5, <1>7, <1>8, <1>9

(* A comparison.  Another one is allowed only on a row that accounts for   *)
(* the earlier ones, unless the code is contended.                         *)
LEMMA JudgeStep ==
    ASSUME CodesInv, NEW k \in Checkers, checking[k] = Idle, NEW n \in Stored,
           NEW right \in BOOLEAN, NEW w \in {"save", "count", "effect"}, Judge(k, n, right, w),
           \/ w = "save" /\ store = "otps" /\ Verifiable(n)
           \/ w = "count" /\ store = "password_reset_tokens" /\ Verifiable(n) /\ ~right
           \/ w = "effect" /\ ~InTable /\ right
    PROVE  CodesInv'
  <1> USE CodesAssumption DEF CodesInv
  <1> DEFINE r == IF right THEN [codes[n] EXCEPT !.used = TRUE]
                  ELSE [codes[n] EXCEPT !.attempts = @ + 1]
             c == [code |-> n, write |-> w, row |-> r]
  <1>1. n \in Numbers /\ n # 0 /\ codes[n] \in Otp
    BY DEF Stored, CodesTypeOK, Numbers
  <1>2. /\ r \in Otp
        /\ right => r.used /\ r.attempts = codes[n].attempts
        /\ ~right => r.used = codes[n].used /\ r.attempts = codes[n].attempts + 1
    <2>1. codes[n].attempts \in 0..MAX_ATTEMPTS /\ codes[n].used \in BOOLEAN
      BY <1>1 DEF Otp
    <2>2. CASE right
      BY <1>1, <2>1, <2>2 DEF Otp
    <2>3. CASE ~right
      <3>1. codes[n].attempts + 1 \in 0..MAX_ATTEMPTS
        BY <2>1, <2>3 DEF Verifiable
      <3> QED BY <1>1, <2>1, <2>3, <3>1 DEF Otp
    <2> QED BY <2>2, <2>3
  <1> HIDE DEF r
  <1>3. /\ c \in [code : 0..MaxCodes, write : Writes, row : Otp \cup {Absent}]
        /\ c.code = n /\ c.write = w /\ c.row = r
    BY <1>1, <1>2 DEF Numbers, Writes
  <1> HIDE DEF c
  <1>4. /\ judged[n] < MaxJudged /\ judged' = [judged EXCEPT ![n] = @ + 1]
        /\ acceptances' = [acceptances EXCEPT ![n] = IF right THEN @ + 1 ELSE @]
        /\ outdated' = (IF right /\ n # lastCode THEN outdated \cup {n} ELSE outdated)
        /\ contendedCodes' = contendedCodes \cup ({n} \cap Checked)
        /\ checking' = [checking EXCEPT ![k] = c]
        /\ UNCHANGED <<store, emailVerified, expiredCodes, codes, lastCode, issuing>>
    BY DEF Judge, c, r
  <1>5. /\ n <= lastCode
        /\ checking'[k] = c /\ \A l \in Checkers \ {k} : checking'[l] = checking[l]
        /\ checking' \in [Checkers -> [code : 0..MaxCodes, write : Writes, row : Otp \cup {Absent}]]
        /\ contendedCodes \subseteq contendedCodes' /\ contendedCodes' \subseteq Numbers
        /\ Stored' = Stored /\ Checked' = Checked \cup {n}
        /\ AloneUnlessContended'
        /\ n \notin contendedCodes' => n \notin Checked
        /\ \A l \in Checkers : checking'[l].code <= lastCode'
    BY <1>3, <1>4, BeginStep
  <1>6. /\ judged'[n] = judged[n] + 1 /\ acceptances'[n] = (IF right THEN acceptances[n] + 1 ELSE acceptances[n])
        /\ \A m \in Numbers \ {n} : judged'[m] = judged[m] /\ acceptances'[m] = acceptances[m]
        /\ judged[n] \in 0..MaxJudged /\ acceptances[n] \in 0..MaxJudged /\ acceptances[n] <= judged[n]
    BY <1>1, <1>4 DEF CodesTypeOK, NoneBeyondLast
  <1>7. CodesTypeOK'
    <2>1. judged'[n] \in 0..MaxJudged /\ acceptances'[n] \in 0..MaxJudged
      BY <1>4, <1>6
    <2>2. judged' \in [Numbers -> 0..MaxJudged] /\ acceptances' \in [Numbers -> 0..MaxJudged]
      BY <1>1, <1>4, <1>6, <2>1 DEF CodesTypeOK
    <2> QED BY <1>1, <1>4, <1>5, <2>2 DEF CodesTypeOK
  <1>8. ChecksFit'
    BY <1>1, <1>2, <1>3, <1>4, <1>5 DEF ChecksFit, InTable
  <1>9. NoneBeyondLast'
    BY <1>4, <1>5, <1>6 DEF NoneBeyondLast, InTable
  <1>10. Counted'
    <2> SUFFICES ASSUME InTable, NEW m \in Numbers \ contendedCodes'
                 PROVE  /\ judged'[m] <= MAX_ATTEMPTS
                        /\ acceptances'[m] <= 1
                        /\ m \in Stored' \ Checked' => Accounts(m, codes[m])'
                        /\ \A l \in Checkers : checking'[l].code = m /\ checking'[l].write = "save"
                                => Accounts(m, checking[l].row)'
                        /\ \A l \in Checkers : checking'[l].code = m /\ checking'[l].write = "count"
                                => judged'[m] <= checking'[l].row.attempts
      BY <1>4 DEF Counted, InTable
    <2>1. CASE m # n
      BY <1>3, <1>4, <1>5, <1>6, <2>1 DEF Counted, Accounts
    <2>2. CASE m = n
      <3>1. n \notin Checked /\ Verifiable(n) /\ w # "effect"
        BY <1>5, <2>2
      <3>2. Accounts(n, codes[n])
        BY <1>1, <1>5, <2>2, <3>1 DEF Counted
      <3>3. judged[n] <= codes[n].attempts /\ acceptances[n] = 0 /\ codes[n].attempts < MAX_ATTEMPTS
        BY <1>1, <1>6, <3>1, <3>2 DEF Accounts, Verifiable, Otp
      <3>4. /\ judged'[n] <= MAX_ATTEMPTS /\ acceptances'[n] <= 1
            /\ r.used \/ judged'[n] <= r.attempts
            /\ acceptances'[n] > 0 => r.used
        BY <1>1, <1>2, <1>6, <3>3 DEF Otp
      <3>5. w = "count" => judged'[n] <= r.attempts
        BY <1>1, <1>2, <1>6, <3>1, <3>3 DEF Otp, InTable
      <3>6. \A l \in Checkers : checking'[l].code = n => l = k
        BY <1>1, <1>5, <3>1 DEF Checked
      <3> QED BY <1>3, <1>5, <2>2, <3>4, <3>5, <3>6 DEF Accounts
    <2> QED BY <2>1, <2>2
  <1>11. ConsumedOnce'
    BY <1>1, <1>4, <1>5, <1>6 DEF ConsumedOnce, InTable
  <1>12. SupersededIsDead'
    BY <1>4, <1>5 DEF SupersededIsDead, Superseded, InTable
  <1>13. AcceptedIsNewest'
    <2>1. ASSUME right, n # lastCode PROVE n \in contendedCodes
      <3>1. w = "save" /\ store = "otps" /\ Verifiable(n)
        BY <2>1 DEF SupersededIsDead
      <3>2. Superseded(n)
        BY <1>1, <1>5, <2>1 DEF Superseded, CodesTypeOK, Numbers
      <3> QED BY <3>1, <3>2 DEF SupersededIsDead, Verifiable
    <2> QED BY <1>4, <1>5, <2>1 DEF AcceptedIsNewest
  <1> QED BY <1>5, <1>7, <1>8, <1>9, <1>10, <1>11, <1>12, <1>13

(* A check writes and is over. *)
LEMMA WriteStep ==
    ASSUME CodesInv, NEW k \in Checkers, writeCheck(k) PROVE CodesInv'
  <1> USE CodesAssumption DEF CodesInv
  <1> DEFINE w == checking[k]
  <1>1. /\ w \in [code : 0..MaxCodes, write : Writes, row : Otp \cup {Absent}]
        /\ w.write # "none" /\ w.code # 0 /\ w.code \in Numbers /\ w.code \in Checked
        /\ checking' = [checking EXCEPT ![k] = Idle]
        /\ UNCHANGED <<store, expiredCodes, lastCode, issuing, judged, acceptances, contendedCodes,
                       outdated>>
    BY DEF writeCheck, CodesTypeOK, ChecksFit, Numbers, Checked, codeHistory
  <1>2. /\ Idle \in [code : 0..MaxCodes, write : Writes, row : Otp \cup {Absent}]
        /\ Idle.code = 0 /\ Idle.write = "none"
    BY DEF Idle, Writes
  <1>3. /\ checking'[k] = Idle /\ \A l \in Checkers \ {k} : checking'[l] = checking[l]
        /\ checking' \in [Checkers -> [code : 0..MaxCodes, write : Writes, row : Otp \cup {Absent}]]
    BY <1>1, <1>2 DEF CodesTypeOK
  <1>4. Checked' \subseteq Checked /\ Checked \subseteq Checked' \cup {w.code}
    BY <1>1, <1>2, <1>3 DEF Checked
  <1>5. emailVerified' \in BOOLEAN
    BY DEF writeCheck, CodesTypeOK
  <1>6. w.code \notin contendedCodes => w.code \notin Checked'
    BY <1>1, <1>2, <1>3 DEF Checked, AloneUnlessContended
  <1>7. /\ codes' \in [Numbers -> Otp \cup {Absent}]
        /\ \A n \in Numbers \ {w.code} : codes'[n] = codes[n]
        /\ w.write = "save" => codes'[w.code] = w.row /\ w.row \in Otp
        /\ w.write = "count" => \/ codes'[w.code] = codes[w.code] /\ w.code \notin Stored
                                \/ /\ codes'[w.code].attempts = w.row.attempts
                                   /\ codes'[w.code].used = codes[w.code].used
                                   /\ w.code \in Stored
        /\ w.write = "delete" => codes'[w.code] = Absent
        /\ w.write = "effect" => codes' = codes
    <2>1. CASE w.write = "save"
      <3>1. w.row \in Otp /\ codes' = [codes EXCEPT ![w.code] = w.row]
        BY <2>1 DEF writeCheck, ChecksFit
      <3> QED BY <1>1, <2>1, <3>1 DEF CodesTypeOK
    <2>2. CASE w.write = "count" /\ w.code \in Stored
      <3>1. w.row \in Otp /\ codes' = [codes EXCEPT ![w.code].attempts = w.row.attempts]
        BY <2>2 DEF writeCheck, ChecksFit
      <3>2. codes[w.code] \in Otp /\ w.row.attempts \in 0..MAX_ATTEMPTS
        BY <1>1, <2>2, <3>1 DEF Stored, CodesTypeOK, Otp
      <3>3. /\ [codes[w.code] EXCEPT !.attempts = w.row.attempts] \in Otp
            /\ [codes[w.code] EXCEPT !.attempts = w.row.attempts].attempts = w.row.attempts
            /\ [codes[w.code] EXCEPT !.attempts = w.row.attempts].used = codes[w.code].used
        BY <3>2 DEF Otp
      <3>4. /\ codes'[w.code] = [codes[w.code] EXCEPT !.attempts = w.row.attempts]
            /\ \A n \in Numbers \ {w.code} : codes'[n] = codes[n]
            /\ codes' \in [Numbers -> Otp \cup {Absent}]
        BY <1>1, <3>1, <3>3 DEF CodesTypeOK
      <3> QED BY <2>2, <3>3, <3>4
    <2>3. CASE w.write = "delete"
      <3>1. codes' = Without({w.code})
        BY <2>3 DEF writeCheck
      <3> QED BY <1>1, <2>3, <3>1 DEF Without, CodesTypeOK
    <2>4. CASE w.write = "effect" \/ (w.write = "count" /\ w.code \notin Stored)
      <3>1. codes' = codes
        BY <2>4 DEF writeCheck
      <3> QED BY <2>4, <3>1 DEF CodesTypeOK
    <2> QED BY <1>1, <2>1, <2>2, <2>3, <2>4 DEF Writes
  <1>8. /\ Stored' \subseteq Stored \cup (IF w.write = "save" THEN {w.code} ELSE {})
        /\ store = "otps" => Stored \subseteq Stored'
    <2>1. w.write = "delete" \/ w.write = "count" => store # "otps"
      BY DEF ChecksFit
    <2> QED BY <1>1, <1>7, <2>1 DEF Stored, Writes
  <1>9. CodesTypeOK'
    BY <1>1, <1>3, <1>5, <1>7 DEF CodesTypeOK
  <1>10. ChecksFit' /\ AloneUnlessContended' /\ AcceptedIsNewest'
    BY <1>1, <1>2, <1>3 DEF ChecksFit, AloneUnlessContended, AcceptedIsNewest, InTable
  <1>11. NoneBeyondLast'
    <2>1. w.code <= lastCode /\ 0 <= lastCode
      BY DEF NoneBeyondLast, CodesTypeOK
    <2> QED BY <1>1, <1>2, <1>3, <1>8, <2>1 DEF NoneBeyondLast, InTable
  <1>12. Counted'
    <2> SUFFICES ASSUME InTable, NEW m \in Numbers \ contendedCodes, m \in Stored' \ Checked'
                 PROVE  Accounts(m, codes[m])'
      BY <1>1, <1>2, <1>3 DEF Counted, Accounts, InTable
    <2>1. CASE m # w.code
      BY <1>1, <1>4, <1>7, <1>8, <2>1 DEF Counted, Accounts
    <2>2. CASE m = w.code
      <3>1. CASE w.write = "save"
        BY <1>1, <1>7, <2>2, <3>1 DEF Counted, Accounts
      <3>2. CASE w.write = "count"
        <4>1. m \in Stored /\ judged[m] <= w.row.attempts
          BY <1>8, <2>2, <3>2 DEF Counted
        <4>2. acceptances[m] > 0 => codes[m].used
          BY <3>2, <4>1 DEF ConsumedOnce, ChecksFit
        <4> QED BY <1>1, <1>7, <2>2, <3>2, <4>1, <4>2 DEF Accounts
      <3>3. CASE w.write \in {"delete", "effect"}
        BY <1>7, <2>2, <3>3 DEF Stored, ChecksFit
      <3> QED BY <1>1, <3>1, <3>2, <3>3 DEF Writes
    <2> QED BY <2>1, <2>2
  <1>13. \A n \in Stored' : store = "password_reset_tokens" => n \in Stored /\ codes'[n].used = codes[n].used
    BY <1>1, <1>7, <1>8 DEF ChecksFit, Stored, Writes
  <1>14. ConsumedOnce'
    BY <1>1, <1>13 DEF ConsumedOnce
  <1>15. SupersededIsDead'
    <2>1. ~InTable => Stored' \subseteq {lastCode'}
      BY <1>1, <1>8 DEF SupersededIsDead, ChecksFit, InTable
    <2>2. store = "otps" => Checked' \subseteq Stored' \cup contendedCodes' \cup expiredCodes'
      BY <1>1, <1>4, <1>8 DEF SupersededIsDead
    <2>3. store = "otps" => Stored' \cup Checked' \subseteq Stored \cup Checked
      BY <1>1, <1>4, <1>8
    <2> QED BY <1>1, <1>13, <2>1, <2>2, <2>3 DEF SupersededIsDead, Superseded, InTable
  <1> QED BY <1>9, <1>10, <1>11, <1>12, <1>14, <1>15

(* Every step preserves the invariant. *)
LEMMA CodesInvStep == CodesInv /\ [CodesNext]_codeVars => CodesInv'
  <1> SUFFICES ASSUME CodesInv, [CodesNext]_codeVars PROVE CodesInv'
    OBVIOUS
  <1> USE CodesAssumption DEF CodesInv
  <1>1. ASSUME NEW i \in Issuers, deleteEarlier(i) PROVE CodesInv'
    <2> USE <1>1 DEF deleteEarlier
    <2>1. contendedCodes' \subseteq Numbers /\ Doomed \subseteq Stored
      BY DEF CodesTypeOK, Doomed, Stored
    <2>2. /\ Stored' = Stored \ Doomed /\ \A n \in Stored' : codes'[n] = codes[n]
          /\ Checked' = Checked
          /\ codes' \in [Numbers -> Otp \cup {Absent}]
          /\ ChecksFit' /\ AloneUnlessContended' /\ Counted' /\ ConsumedOnce' /\ AcceptedIsNewest'
      BY <2>1, DeleteStep
    <2>3. CodesTypeOK'
      BY <2>1, <2>2 DEF CodesTypeOK
    <2>4. NoneBeyondLast'
      BY <2>2 DEF NoneBeyondLast, InTable, CodesTypeOK
    <2>5. SupersededIsDead'
      <3>1. CASE store = "otps"
        <4>1. Stored' = {}
          BY <2>2, <3>1 DEF Doomed
        <4>2. Checked' \subseteq contendedCodes' \cup expiredCodes'
          BY <2>2, <3>1 DEF SupersededIsDead, Doomed
        <4> QED BY <3>1, <4>1, <4>2 DEF SupersededIsDead, InTable
      <3>2. CASE store # "otps"
        <4>1. \A n \in Stored' : codes'[n].used
          BY <2>2, <3>2 DEF Doomed
        <4> QED BY <3>2, <4>1 DEF SupersededIsDead, InTable
      <3> QED BY <3>1, <3>2
    <2> QED BY <2>2, <2>3, <2>4, <2>5
  <1>2. ASSUME NEW i \in Issuers, generate(i) PROVE CodesInv'
    <2>0. PICK n : n = lastCode + 1
      OBVIOUS
    <2>1. /\ n \in Numbers /\ lastCode' = n /\ lastCode < n
          /\ n \in 0..MaxCodes /\ lastCode \in 0..MaxCodes
          /\ n \notin Stored /\ n \notin Checked /\ judged[n] = 0 /\ acceptances[n] = 0
      <3>1. n \in Numbers /\ lastCode' = n /\ lastCode < n /\ lastCode \in Nat /\ n \in 0..MaxCodes
            /\ lastCode \in 0..MaxCodes
        BY <1>2, <2>0 DEF generate, CodesTypeOK, Numbers
      <3>2. n \notin Stored /\ n \notin Checked
        BY <3>1 DEF NoneBeyondLast, Checked, CodesTypeOK
      <3>3. judged[n] = 0 /\ acceptances[n] = 0
        BY <3>1 DEF NoneBeyondLast, CodesTypeOK
      <3> QED BY <3>1, <3>2, <3>3
    <2>2. /\ codes' = [codes EXCEPT ![n] = NewCode]
          /\ issuing' = [issuing EXCEPT ![i] = FALSE]
          /\ contendedCodes' = IF Others(i) = {} THEN contendedCodes ELSE contendedCodes \cup {n}
          /\ UNCHANGED <<store, emailVerified, expiredCodes, checking, judged, acceptances, outdated>>
          /\ InTable /\ issuing[i]
      BY <1>2, <2>1 DEF generate, NoneBeyondLast
    <2>3. NewCode \in Otp /\ NewCode # Absent /\ NewCode.attempts = 0 /\ NewCode.used = FALSE
      <3>1. 0 \in 0..MAX_ATTEMPTS
        OBVIOUS
      <3>2. NewCode \in Otp
        BY <3>1 DEF NewCode, Otp
      <3> QED BY <3>2 DEF NewCode
    <2>4. /\ codes'[n] = NewCode /\ \A m \in Numbers \ {n} : codes'[m] = codes[m]
          /\ Stored' = Stored \cup {n} /\ Checked' = Checked
          /\ codes' \in [Numbers -> Otp \cup {Absent}]
      BY <2>1, <2>2, <2>3 DEF CodesTypeOK, Stored, Checked
    <2>5. /\ contendedCodes \subseteq contendedCodes' /\ contendedCodes' \subseteq Numbers
          /\ contendedCodes' \subseteq contendedCodes \cup {n}
      BY <2>1, <2>2 DEF CodesTypeOK
    <2>6. CodesTypeOK'
      BY <2>1, <2>2, <2>4, <2>5 DEF CodesTypeOK
    <2>7. ChecksFit' /\ AloneUnlessContended' /\ AcceptedIsNewest'
      BY <2>2, <2>5 DEF ChecksFit, AloneUnlessContended, AcceptedIsNewest, InTable
    <2>8. NoneBeyondLast'
      <3>1. \A m \in Numbers : m <= lastCode => m <= lastCode'
        BY <2>1 DEF Numbers
      <3>2. \A k \in Checkers : checking'[k].code <= lastCode'
        BY <2>1, <2>2 DEF NoneBeyondLast, CodesTypeOK
      <3>3. \A m \in Stored' : m <= lastCode'
        BY <2>1, <2>4, <3>1 DEF NoneBeyondLast, Stored, Numbers
      <3> QED BY <2>2, <3>1, <3>2, <3>3 DEF NoneBeyondLast, InTable
    <2>9. Counted'
      BY <2>1, <2>2, <2>3, <2>4, <2>5 DEF Counted, Accounts, InTable
    <2>10. ConsumedOnce'
      BY <2>1, <2>2, <2>4 DEF ConsumedOnce, Stored
    <2>11. SupersededIsDead'
      <3>1. \A m \in Numbers : Superseded(m)
        BY <2>2 DEF Superseded
      <3>2. ASSUME Superseded(n)' PROVE n \in contendedCodes'
        <4>1. ~(n < lastCode')
          BY <2>1
        <4>2. PICK j \in Issuers : issuing'[j]
          BY <3>2, <4>1, <2>1 DEF Superseded
        <4>3. j \in Others(i)
          BY <2>2, <4>2 DEF Others, CodesTypeOK
        <4> QED BY <2>2, <4>3
      <3>3. store = "otps" => \A m \in Stored \cup Checked : m \in contendedCodes \cup expiredCodes
        BY <3>1 DEF SupersededIsDead, Stored, Superseded
      <3>4. store = "password_reset_tokens" =>
                \A m \in Stored : m # n /\ codes'[m] = codes[m] /\ (m \in contendedCodes \/ codes[m].used)
        BY <2>1, <2>4, <3>1 DEF SupersededIsDead, Stored
      <3>5. store' = "otps" => \A m \in Stored' \cup Checked' :
                Superseded(m)' => m \in contendedCodes' \cup expiredCodes'
        BY <2>2, <2>4, <2>5, <3>2, <3>3
      <3>6. store' = "otps" => Checked' \subseteq Stored' \cup contendedCodes' \cup expiredCodes'
        BY <2>2, <2>4, <2>5 DEF SupersededIsDead
      <3>7. store' = "password_reset_tokens" => \A m \in Stored' :
                Superseded(m)' => m \in contendedCodes' \/ codes'[m].used
        BY <2>2, <2>4, <2>5, <3>2, <3>4
      <3> QED BY <2>2, <3>5, <3>6, <3>7 DEF SupersededIsDead, InTable
    <2> QED BY <2>6, <2>7, <2>8, <2>9, <2>10, <2>11
  <1>3. ASSUME NEW i \in Issuers, issueFails(i) PROVE CodesInv'
    <2>1. /\ UNCHANGED <<store, emailVerified, expiredCodes, codes, lastCode, checking, judged,
                         acceptances, contendedCodes, outdated>>
          /\ issuing' \in [Issuers -> BOOLEAN] /\ \A j \in Issuers : issuing'[j] => issuing[j]
      BY <1>3 DEF issueFails, codeHistory, CodesTypeOK
    <2>2. Stored' = Stored /\ Checked' = Checked
      BY <2>1 DEF Stored, Checked
    <2> QED BY <2>1, <2>2 DEF CodesTypeOK, ChecksFit, NoneBeyondLast, AloneUnlessContended, Counted,
               Accounts, ConsumedOnce, SupersededIsDead, Superseded, AcceptedIsNewest, InTable
  <1>4. CASE forgotPassword \/ sendEmailVerification
    <2> DEFINE n == lastCode + 1
    <2>1. ~InTable /\ overwriteHash
      BY <1>4 DEF forgotPassword, sendEmailVerification, InTable
    <2>2. /\ n \in Numbers /\ lastCode' = n /\ lastCode < n /\ lastCode \in 0..MaxCodes
          /\ n \in 0..MaxCodes
          /\ UNCHANGED <<store, emailVerified, expiredCodes, issuing, checking, judged, acceptances,
                         contendedCodes, outdated>>
      BY <2>1 DEF overwriteHash, CodesTypeOK, Numbers, codeHistory
    <2> HIDE DEF n
    <2>3. codes' = [Without(Stored) EXCEPT ![n] = NewCode]
      BY <2>1, <2>2 DEF overwriteHash
    <2>4. codes' \in [Numbers -> Otp \cup {Absent}] /\ Stored' \subseteq {n}
      <3>1. 0 \in 0..MAX_ATTEMPTS
        OBVIOUS
      <3>2. NewCode \in Otp
        BY <3>1 DEF NewCode, Otp
      <3> QED BY <2>2, <2>3, <3>2 DEF Without, Stored, CodesTypeOK
    <2>5. CodesTypeOK'
      BY <2>2, <2>4 DEF CodesTypeOK
    <2>6. ChecksFit' /\ AloneUnlessContended' /\ AcceptedIsNewest'
      BY <2>2 DEF ChecksFit, AloneUnlessContended, AcceptedIsNewest, InTable
    <2>7. NoneBeyondLast'
      <3>1. \A m \in Numbers : m <= lastCode => m <= lastCode'
        BY <2>2 DEF Numbers
      <3>2. \A k \in Checkers : checking'[k].code <= lastCode'
        BY <2>2 DEF NoneBeyondLast, CodesTypeOK
      <3> QED BY <2>1, <2>2, <2>4, <3>1, <3>2 DEF NoneBeyondLast, InTable, Numbers
    <2> QED BY <2>1, <2>2, <2>4, <2>5, <2>6, <2>7
            DEF Counted, ConsumedOnce, SupersededIsDead, InTable
  <1>5. ASSUME NEW k \in Checkers, NEW n \in Numbers, validateToken(k, n) PROVE CodesInv'
    <2>1. store = "password_reset_tokens" /\ checking[k] = Idle /\ n \in Stored
      BY <1>5 DEF validateToken
    <2>2. CASE Verifiable(n) /\ Judge(k, n, FALSE, "count")
      BY <2>1, <2>2, JudgeStep
    <2>3. CASE ~Verifiable(n)
      <3> DEFINE c == [code |-> n, write |-> "delete", row |-> Absent]
      <3>1. /\ checking' = [checking EXCEPT ![k] = c]
            /\ contendedCodes' = contendedCodes \cup ({n} \cap Checked)
            /\ UNCHANGED <<store, emailVerified, expiredCodes, codes, lastCode, issuing, judged,
                           acceptances, outdated>>
        BY <1>5, <2>3 DEF validateToken
      <3>2. /\ c \in [code : 0..MaxCodes, write : Writes, row : Otp \cup {Absent}]
            /\ c.code = n /\ c.write = "delete"
        BY DEF Writes, Numbers
      <3> HIDE DEF c
      <3>3. /\ n <= lastCode /\ n # 0
            /\ checking'[k] = c /\ \A l \in Checkers \ {k} : checking'[l] = checking[l]
            /\ checking' \in [Checkers -> [code : 0..MaxCodes, write : Writes, row : Otp \cup {Absent}]]
            /\ contendedCodes \subseteq contendedCodes' /\ contendedCodes' \subseteq Numbers
            /\ Stored' = Stored /\ Checked' = Checked \cup {n}
            /\ AloneUnlessContended'
            /\ \A l \in Checkers : checking'[l].code <= lastCode'
        BY <2>1, <3>1, <3>2, BeginStep
      <3>4. CodesTypeOK'
        BY <3>1, <3>3 DEF CodesTypeOK
      <3>5. ChecksFit' /\ AcceptedIsNewest'
        BY <2>1, <3>1, <3>2, <3>3 DEF ChecksFit, AcceptedIsNewest, InTable
      <3>6. NoneBeyondLast'
        BY <3>1, <3>3 DEF NoneBeyondLast, InTable
      <3>7. Counted' /\ ConsumedOnce'
        BY <3>1, <3>2, <3>3 DEF Counted, ConsumedOnce, Accounts, InTable
      <3>8. SupersededIsDead'
        BY <2>1, <3>1, <3>3 DEF SupersededIsDead, Superseded, InTable
      <3> QED BY <3>3, <3>4, <3>5, <3>6, <3>7, <3>8
    <2> QED BY <1>5, <2>2, <2>3 DEF validateToken
  <1>6. ASSUME NEW k \in Checkers, NEW n \in Numbers, resetPassword(k, n) \/ verifyEmail(k, n)
        PROVE  CodesInv'
    <2>1. /\ ~InTable /\ checking[k] = Idle /\ n \in Stored /\ Judge(k, n, TRUE, "effect")
      BY <1>6 DEF resetPassword, verifyEmail, InTable
    <2> QED BY <2>1, JudgeStep
  <1>7. ASSUME NEW k \in Checkers, NEW n \in Numbers, NEW right \in BOOLEAN, verify(k, n, right)
        PROVE  CodesInv'
    BY <1>7, JudgeStep DEF verify, Newest
  <1>8. ASSUME NEW n \in Numbers, consumeToken(n) PROVE CodesInv'
    <2>1. /\ store = "password_reset_tokens" /\ InTable /\ n \in Stored /\ judged[n] > 0
          /\ codes' = [codes EXCEPT ![n].used = TRUE]
          /\ UNCHANGED <<store, emailVerified, expiredCodes, lastCode, issuing, checking, judged,
                         contendedCodes>>
      BY <1>8 DEF consumeToken, InTable
    <2>2. /\ codes' \in [Numbers -> Otp \cup {Absent}]
          /\ codes'[n].used /\ Stored' \subseteq Stored /\ Checked' = Checked
          /\ \A m \in Stored' : /\ codes'[m].attempts = codes[m].attempts
                                /\ codes[m].used => codes'[m].used
          /\ ChecksFit' /\ AloneUnlessContended' /\ SupersededIsDead'
      BY <2>1, UseStep
    <2>3. /\ acceptances'[n] = (IF codes[n].used THEN acceptances[n] ELSE acceptances[n] + 1)
          /\ \A m \in Numbers \ {n} : acceptances'[m] = acceptances[m]
          /\ acceptances[n] \in 0..MaxJudged /\ judged[n] \in 0..MaxJudged
          /\ acceptances' = [acceptances EXCEPT ![n] = acceptances'[n]]
      BY <1>8 DEF consumeToken, CodesTypeOK
    <2>4. acceptances'[n] \in 0..1
      BY <2>1, <2>3 DEF ConsumedOnce
    <2>5. acceptances' \in [Numbers -> 0..MaxJudged]
      BY <2>3, <2>4 DEF CodesTypeOK
    <2>6. outdated' \subseteq Numbers
      BY <1>8 DEF consumeToken, CodesTypeOK
    <2>7. CodesTypeOK'
      BY <2>1, <2>2, <2>5, <2>6 DEF CodesTypeOK
    <2>8. NoneBeyondLast'
      BY <2>1, <2>2, <2>3, <2>4 DEF NoneBeyondLast, InTable, CodesTypeOK
    <2>9. ConsumedOnce'
      BY <2>1, <2>2, <2>3, <2>4 DEF ConsumedOnce, Stored
    <2>10. Counted'
      <3> SUFFICES ASSUME NEW m \in Numbers \ contendedCodes
                   PROVE  /\ judged[m] <= MAX_ATTEMPTS
                          /\ acceptances'[m] <= 1
                          /\ m \in Stored' \ Checked => Accounts(m, codes[m])'
                          /\ \A l \in Checkers : checking[l].code = m /\ checking[l].write = "count"
                                => judged[m] <= checking[l].row.attempts
        BY <2>1, <2>2 DEF Counted, ChecksFit
      <3>1. CASE m = n
        BY <2>1, <2>2, <2>4, <3>1 DEF Counted, Accounts
      <3>2. CASE m # n
        BY <2>1, <2>2, <2>3, <3>2 DEF Counted, Accounts
      <3> QED BY <3>1, <3>2
    <2>11. AcceptedIsNewest'
      <3>1. ASSUME n # lastCode, ~codes[n].used PROVE n \in contendedCodes
        <4>1. Superseded(n)
          BY <2>1, <3>1 DEF Superseded, NoneBeyondLast, Numbers, CodesTypeOK
        <4> QED BY <2>1, <3>1, <4>1 DEF SupersededIsDead
      <3> QED BY <1>8, <3>1 DEF consumeToken, AcceptedIsNewest
    <2> QED BY <2>2, <2>7, <2>8, <2>9, <2>10, <2>11
  <1>9. ASSUME NEW n \in Numbers, invalidate(n) PROVE CodesInv'
    <2>1. /\ store = "otps" /\ InTable /\ n \in Stored
          /\ codes' = [codes EXCEPT ![n].used = TRUE]
          /\ UNCHANGED <<store, emailVerified, expiredCodes, lastCode, issuing, checking, judged,
                         acceptances, contendedCodes, outdated>>
      BY <1>9 DEF invalidate, InTable, codeHistory
    <2>2. /\ codes' \in [Numbers -> Otp \cup {Absent}]
          /\ codes'[n].used /\ Stored' \subseteq Stored /\ Checked' = Checked
          /\ \A m \in Stored' : /\ codes'[m].attempts = codes[m].attempts
                                /\ codes[m].used => codes'[m].used
          /\ ChecksFit' /\ AloneUnlessContended' /\ SupersededIsDead'
      BY <2>1, UseStep
    <2>3. CodesTypeOK' /\ NoneBeyondLast' /\ AcceptedIsNewest' /\ ConsumedOnce'
      BY <2>1, <2>2 DEF CodesTypeOK, NoneBeyondLast, AcceptedIsNewest, ConsumedOnce, InTable
    <2>4. Counted'
      BY <2>1, <2>2 DEF Counted, Accounts, InTable
    <2> QED BY <2>2, <2>3, <2>4
  <1>10. ASSUME NEW n \in Numbers, codeExpires(n) PROVE CodesInv'
    <2>1. /\ UNCHANGED <<store, emailVerified, codes, lastCode, issuing, checking, judged,
                         acceptances, contendedCodes, outdated>>
          /\ expiredCodes \subseteq expiredCodes' /\ expiredCodes' \subseteq Numbers
      BY <1>10 DEF codeExpires, codeHistory, CodesTypeOK
    <2>2. Stored' = Stored /\ Checked' = Checked
      BY <2>1 DEF Stored, Checked
    <2> QED BY <2>1, <2>2 DEF CodesTypeOK, ChecksFit, NoneBeyondLast, AloneUnlessContended, Counted,
               Accounts, ConsumedOnce, SupersededIsDead, Superseded, AcceptedIsNewest, InTable
  <1>11. CASE purgeSensitiveAuthArtifacts
    <2> USE <1>11 DEF purgeSensitiveAuthArtifacts, codeHistory
    <2>1. contendedCodes' \subseteq Numbers
      BY DEF CodesTypeOK
    <2>2. /\ Stored' = Stored \ expiredCodes /\ \A n \in Stored' : codes'[n] = codes[n]
          /\ Checked' = Checked
          /\ codes' \in [Numbers -> Otp \cup {Absent}]
          /\ ChecksFit' /\ AloneUnlessContended' /\ Counted' /\ ConsumedOnce' /\ AcceptedIsNewest'
      BY <2>1, DeleteStep
    <2>3. CodesTypeOK' /\ NoneBeyondLast'
      BY <2>2 DEF CodesTypeOK, NoneBeyondLast, InTable
    <2>4. SupersededIsDead'
      BY <2>2 DEF SupersededIsDead, Superseded, InTable
    <2> QED BY <2>2, <2>3, <2>4
  <1>12. CASE UNCHANGED codeVars
    <2>1. Stored' = Stored /\ Checked' = Checked
      BY <1>12 DEF codeVars, Stored, Checked
    <2> QED BY <1>12, <2>1 DEF codeVars, codeHistory, CodesTypeOK, ChecksFit, NoneBeyondLast,
               AloneUnlessContended, Counted, Accounts, ConsumedOnce, SupersededIsDead, Superseded,
               AcceptedIsNewest, InTable
  <1> QED BY <1>1, <1>2, <1>3, <1>4, <1>5, <1>6, <1>7, <1>8, <1>9, <1>10, <1>11, <1>12, WriteStep
          DEF CodesNext

(* In every store a code is judged and accepted no oftener and no longer   *)
(* than it should, unless two requests worked on its row at once, however  *)
(* issuers, checkers, purges and expiries interleave.                      *)
THEOREM CodesOneTime == CodesSpec => []CodesAreOneTime
  <1>1. CodesInv => CodesAreOneTime
    BY DEF CodesInv, Counted, CodesAreOneTime, JudgementsBounded, AcceptedOnceUnlessContended, InTable
  <1> QED BY <1>1, CodesInvInit, CodesInvStep, PTL DEF CodesSpec

----------------------------------------------------------------------------
(* The four side by side. *)

(* Every variable keeps its type, in each of the four components.          *)
THEOREM AccessTypes == MCSpec => []MCTypeOK
  <1> DEFINE Inv == focus \in Parts /\ IInv /\ UserInv /\ ClosureInv /\ CodesInv
  <1>1. MCInit => Inv
    BY IInvInit, UserInvInit, ClosureInvInit, CodesInvInit DEF MCInit
  <1>2. Inv /\ [MCNext]_MCVars => Inv'
    <2> SUFFICES ASSUME Inv, [MCNext]_MCVars PROVE Inv'
      OBVIOUS
    <2>1. /\ [Next]_vars /\ [UserNext]_userVars /\ [ClosureNext]_closureVars
          /\ [CodesNext]_codeVars /\ UNCHANGED focus
      <3>1. CASE MCNext
        BY <3>1 DEF MCNext
      <3>2. CASE UNCHANGED MCVars
        BY <3>2 DEF MCVars
      <3> QED BY <3>1, <3>2
    <2> QED BY <2>1, IInvStep, UserInvStep, ClosureInvStep, CodesInvStep
  <1>3. Inv => MCTypeOK
    BY PartsAssumption DEF MCTypeOK, IInv, UserInv, ClosureInv, CodesInv
  <1> QED BY <1>1, <1>2, <1>3, PTL DEF MCSpec
============================================================================
