------------------------------- MODULE Users -------------------------------
(***************************************************************************)
(* The row of one user: registration and login (src/auth/auth.service.ts), *)
(* UsersService (src/users), the reset by mail (src/modules/auth), the     *)
(* changes of AdminService (src/admin) and the tokens that JwtStrategy     *)
(* accepts.  Every change but the reset loads the whole user and saves it  *)
(* later: save() selects the row again and updates the columns that differ *)
(* from the loaded entity, so it may also write back what another request  *)
(* has changed.  Users share no row: one is enough.                        *)
(* The entity that src/modules/auth imports is not in the repository; it   *)
(* is taken to be that of the same table.                                  *)
(* Names and languages are left out.  lockedUntil is left out too: the     *)
(* failure that should store it raises an error before (see login).        *)
(***************************************************************************)
EXTENDS Integers

CONSTANTS Visitors,             \* requests
          Passwords,            \* hashes; each is chosen once
          MAX_FAILED_ATTEMPTS,
          LastSecond,           \* bound of the clock
          NoUser

VARIABLES user,                 \* the row, or NoUser
          termsAccepted,        \* a row of terms_acceptances exists
          second,               \* the clock, in the seconds of a token's iat
          usedRefreshTokens,    \* in memory
          task,                 \* per visitor: its step
          patch,                \* per visitor: what it will assign to the entity
          entity,               \* per visitor: the entity it will save
          columns,              \* per visitor: the columns its UPDATE writes
          bearer,               \* per visitor: the token it was given
          setAt,                \* history: when each password was set; -1: never
          resets,               \* history: the passwords that resetPassword stored
          crossedReset          \* history: one was stored while a request held an entity

userVars == <<user, termsAccepted, second, usedRefreshTokens, task, patch, entity,
              columns, bearer, setAt, resets, crossedReset>>
resetVars == <<resets, crossedReset>>

UserRole == {"admin", "user", "compliance"}

User == [email : {"own", "deleted"},
         passwordHash : Passwords,
         passwordChangedAt : 0..LastSecond,         \* 0: null
         failedLoginAttempts : 0..(MAX_FAILED_ATTEMPTS - 1),
         role : UserRole,
         isActive : BOOLEAN]

ASSUME UsersAssumption ==
    /\ MAX_FAILED_ATTEMPTS \in Nat \ {0}
    /\ LastSecond \in Nat \ {0}
    /\ NoUser \notin User

UserColumns == {"email", "passwordHash", "passwordChangedAt", "failedLoginAttempts",
                "role", "isActive"}

Token == [iat : 1..LastSecond, type : {"access", "refresh"}]
NoToken == [iat |-> 0, type |-> "access"]

UserInit ==
    /\ user = NoUser
    /\ termsAccepted = FALSE
    /\ second = 1
    /\ usedRefreshTokens = {}
    /\ task = [v \in Visitors |-> "idle"]
    /\ patch = [v \in Visitors |-> 0]
    /\ entity = [v \in Visitors |-> NoUser]
    /\ columns = [v \in Visitors |-> {}]
    /\ bearer = [v \in Visitors |-> NoToken]
    /\ setAt = [p \in Passwords |-> -1]
    /\ resets = {}
    /\ crossedReset = FALSE

Unchosen == {p \in Passwords : setAt[p] = -1}
Turn(v, t) == task' = [task EXCEPT ![v] = t]

----------------------------------------------------------------------------
(* register(): look for the email, insert (the index on email is unique),  *)
(* accept the terms, log, issue a token.                                   *)

register(v) ==
    /\ task[v] = "idle" /\ user = NoUser
    /\ Turn(v, "insert")
    /\ UNCHANGED <<user, termsAccepted, second, usedRefreshTokens, patch, entity, columns,
                   bearer, setAt, resetVars>>

insertUser(v, p) ==
    /\ task[v] = "insert"
    /\ IF user = NoUser
       THEN /\ user' = [email |-> "own", passwordHash |-> p, passwordChangedAt |-> 0,
                        failedLoginAttempts |-> 0, role |-> "user", isActive |-> TRUE]
            /\ setAt' = [setAt EXCEPT ![p] = 0]
            /\ Turn(v, "accept")
       ELSE Turn(v, "done") /\ UNCHANGED <<user, setAt>>
    /\ UNCHANGED <<termsAccepted, second, usedRefreshTokens, patch, entity, columns, bearer,
                   resetVars>>

accept(v) ==
    /\ task[v] = "accept"
    /\ termsAccepted' = TRUE
    /\ Turn(v, "issue")
    /\ UNCHANGED <<user, second, usedRefreshTokens, patch, entity, columns, bearer, setAt, resetVars>>

issueToken(v) ==
    /\ task[v] = "issue"
    /\ bearer' = [bearer EXCEPT ![v] = [iat |-> second, type |-> "access"]]
    /\ Turn(v, "done")
    /\ UNCHANGED <<user, termsAccepted, second, usedRefreshTokens, patch, entity, columns, setAt, resetVars>>

----------------------------------------------------------------------------
(* login(): the decision is taken on the row read first; the counter is    *)
(* then stored by UsersService.update, which loads the row again.  Storing *)
(* the lock names an undeclared variable: the failure that reaches the     *)
(* limit raises an error and stores nothing.                               *)

login(v, p) ==
    /\ task[v] = "idle" /\ user # NoUser /\ user.email = "own"
    /\ LET failures == user.failedLoginAttempts + 1 IN
       \/ /\ p # user.passwordHash /\ failures >= MAX_FAILED_ATTEMPTS
          /\ Turn(v, "done") /\ patch' = patch
       \/ /\ p # user.passwordHash /\ failures < MAX_FAILED_ATTEMPTS
          /\ patch' = [patch EXCEPT ![v] = failures]
          /\ Turn(v, "find")
       \/ /\ p = user.passwordHash /\ user.failedLoginAttempts > 0
          /\ patch' = [patch EXCEPT ![v] = 0]
          /\ Turn(v, "find")
       \/ /\ p = user.passwordHash /\ user.failedLoginAttempts = 0
          /\ Turn(v, "ensure") /\ patch' = patch
    /\ UNCHANGED <<user, termsAccepted, second, usedRefreshTokens, entity, columns, bearer, setAt, resetVars>>

(* findById and Object.assign of UsersService.update. *)
find(v) ==
    /\ task[v] = "find"
    /\ entity' = [entity EXCEPT ![v] = [user EXCEPT !.failedLoginAttempts = patch[v]]]
    /\ Turn(v, IF patch[v] = 0 THEN "saveThenEnsure" ELSE "save")
    /\ UNCHANGED <<user, termsAccepted, second, usedRefreshTokens, patch, columns, bearer, setAt, resetVars>>

(* The checks after the password: terms, deactivation, audit log. *)
ensureAccepted(v) ==
    /\ task[v] = "ensure" /\ termsAccepted
    /\ Turn(v, "issue")
    /\ UNCHANGED <<user, termsAccepted, second, usedRefreshTokens, patch, entity, columns,
                   bearer, setAt, resetVars>>

(* A refusal, an error or a restart, at any step. *)
Abandon(v) ==
    /\ task[v] \notin {"idle", "done"}
    /\ Turn(v, "done")
    /\ UNCHANGED <<user, termsAccepted, second, usedRefreshTokens, patch, entity, columns,
                   bearer, setAt, resetVars>>

----------------------------------------------------------------------------
(* The other changes of the row: load and assign ... *)

Loads(v, e) ==
    /\ task[v] = "idle" /\ user # NoUser
    /\ entity' = [entity EXCEPT ![v] = e]
    /\ Turn(v, "save")
    /\ UNCHANGED <<user, termsAccepted, second, usedRefreshTokens, patch, columns, bearer,
                   resetVars>>

(* Mutant: the date of the change is forgotten. *)
updatePasswordUndated(v, p) ==
    /\ Loads(v, [user EXCEPT !.passwordHash = p])
    /\ setAt' = [setAt EXCEPT ![p] = second]

updatePassword(v, p) ==
    /\ Loads(v, [user EXCEPT !.passwordHash = p, !.passwordChangedAt = second])
    /\ setAt' = [setAt EXCEPT ![p] = second]

(* The entity has no delete column: softDelete raises an error afterwards. *)
deleteUser(v) == Loads(v, [user EXCEPT !.email = "deleted"]) /\ UNCHANGED setAt

updateUserStatus(v, active) == Loads(v, [user EXCEPT !.isActive = active]) /\ UNCHANGED setAt

updateUserRole(v, r) == Loads(v, [user EXCEPT !.role = r]) /\ UNCHANGED setAt

(* ... and save(): SELECT, then UPDATE of the columns that differ. *)
compare(v) ==
    /\ task[v] \in {"save", "saveThenEnsure"}
    /\ columns' = [columns EXCEPT ![v] = {k \in UserColumns : entity[v][k] # user[k]}]
    /\ Turn(v, IF task[v] = "save" THEN "write" ELSE "writeThenEnsure")
    /\ UNCHANGED <<user, termsAccepted, second, usedRefreshTokens, patch, entity, bearer, setAt, resetVars>>

write(v) ==
    /\ task[v] \in {"write", "writeThenEnsure"}
    /\ user' = [k \in UserColumns |-> IF k \in columns[v] THEN entity[v][k] ELSE user[k]]
    /\ Turn(v, IF task[v] = "write" THEN "done" ELSE "ensure")
    /\ UNCHANGED <<termsAccepted, second, usedRefreshTokens, patch, entity, columns, bearer, setAt, resetVars>>

----------------------------------------------------------------------------
(* resetPassword(): find the user by email, check the token of the mail,   *)
(* and UPDATE the hash alone: the date of the change is not written, and   *)
(* the token, set to undefined, stays usable until it expires.             *)

Saving == {"save", "saveThenEnsure"}
Writing == {"write", "writeThenEnsure"}
Held == {v \in Visitors : task[v] \in Saving \cup Writing}

findForReset(v) ==
    /\ task[v] = "idle" /\ user # NoUser /\ user.email = "own"
    /\ Turn(v, "reset")
    /\ UNCHANGED <<user, termsAccepted, second, usedRefreshTokens, patch, entity, columns,
                   bearer, setAt, resetVars>>

storeReset(v, p) ==
    /\ task[v] = "reset"
    /\ user' = [user EXCEPT !.passwordHash = p]
    /\ setAt' = [setAt EXCEPT ![p] = second]
    /\ resets' = resets \cup {p}
    /\ crossedReset' = (crossedReset \/ Held # {})
    /\ Turn(v, "done")
    /\ UNCHANGED <<termsAccepted, second, usedRefreshTokens, patch, entity, columns, bearer>>

----------------------------------------------------------------------------
(* rotateRefreshToken() runs without an await.  Two tokens with one content*)
(* and one second are the same string.                                     *)
rotateRefreshToken(v) ==
    /\ bearer[v] # NoToken
    /\ bearer[v] \notin usedRefreshTokens
    /\ usedRefreshTokens' = usedRefreshTokens \cup {bearer[v]}
    /\ bearer' = [bearer EXCEPT ![v] = [iat |-> second, type |-> "refresh"]]
    /\ UNCHANGED <<user, termsAccepted, second, task, patch, entity, columns, setAt, resetVars>>

restartForgetsTokens ==
    /\ usedRefreshTokens # {}
    /\ usedRefreshTokens' = {}
    /\ UNCHANGED <<user, termsAccepted, second, task, patch, entity, columns, bearer, setAt, resetVars>>

(* JwtStrategy.validate. *)
validate(t) == user # NoUser /\ ~(t.iat < user.passwordChangedAt)

UserTick ==
    /\ second < LastSecond
    /\ second' = second + 1
    /\ UNCHANGED <<user, termsAccepted, usedRefreshTokens, task, patch, entity, columns,
                   bearer, setAt, resetVars>>

UserNext ==
    \/ \E v \in Visitors :
        \/ register(v) \/ findForReset(v) \/ accept(v) \/ issueToken(v) \/ find(v) \/ ensureAccepted(v)
        \/ Abandon(v) \/ deleteUser(v) \/ compare(v) \/ write(v) \/ rotateRefreshToken(v)
        \/ \E p \in Passwords : login(v, p)
        \/ \E p \in Unchosen : insertUser(v, p) \/ updatePassword(v, p) \/ storeReset(v, p)
        \/ \E active \in BOOLEAN : updateUserStatus(v, active)
        \/ \E r \in UserRole : updateUserRole(v, r)
    \/ restartForgetsTokens
    \/ UserTick

UserSpec == UserInit /\ [][UserNext]_userVars

----------------------------------------------------------------------------
(* Type invariant. *)
UserTypeOK ==
    /\ user \in User \cup {NoUser}
    /\ termsAccepted \in BOOLEAN
    /\ second \in 1..LastSecond
    /\ usedRefreshTokens \subseteq Token
    /\ task \in [Visitors -> {"idle", "insert", "accept", "issue", "find", "ensure", "save",
                              "saveThenEnsure", "write", "writeThenEnsure", "reset", "done"}]
    /\ patch \in [Visitors -> 0..(MAX_FAILED_ATTEMPTS - 1)]
    /\ entity \in [Visitors -> User \cup {NoUser}]
    /\ columns \in [Visitors -> SUBSET UserColumns]
    /\ bearer \in [Visitors -> Token \cup {NoToken}]
    /\ setAt \in [Passwords -> -1..LastSecond]
    /\ resets \subseteq Passwords
    /\ crossedReset \in BOOLEAN

(* Two passwords set at one instant have one date: save() would then write *)
(* the hash alone.                                                         *)
DatesDiffer == \A p, q \in Passwords \ resets : p # q /\ setAt[p] = setAt[q] => setAt[p] < 1

(* An accepted token is not older than the password in the row. *)
Postdates(v) ==
    bearer[v] # NoToken /\ validate(bearer[v]) => bearer[v].iat >= setAt[user.passwordHash]

(* A token that validate() accepts is not older than the password in the   *)
(* row was set, although stale saves may bring an old password back: the   *)
(* hash and its date are written together by every writer but              *)
(* resetPassword.  Excepted are passwords that a reset has stored, a reset *)
(* that fell while another request held the row's entity (its save may     *)
(* restore one column of the two) and two passwords of the same date.      *)
AcceptedTokensPostdatePassword ==
    \A v \in Visitors :
        DatesDiffer /\ ~crossedReset /\ user # NoUser /\ user.passwordHash \notin resets
            => Postdates(v)

(* What jwt.strategy.spec.ts says of every password change: a token issued *)
(* before it is rejected.  resetPassword does not date the change, so the  *)
(* tokens issued before it are still accepted, with no requests            *)
(* overlapping and no two dates equal.                                     *)
PasswordChangeEndsTokens ==
    \A v \in Visitors : DatesDiffer /\ ~crossedReset => Postdates(v)
============================================================================
