--------------------------- MODULE WalletsProofs ---------------------------
(***************************************************************************)
(* Theorems about Wallets, for any set of accounts, currencies, requests   *)
(* and amounts.                                                            *)
(***************************************************************************)
EXTENDS Wallets, MoneyProofs, FiniteSetTheorems

(***************************************************************************)
(* The inductive invariant.                                                *)
(***************************************************************************)
(* A request that has started works on a key of the table. *)
KeyOK == \A r \in Requests : Active(r) => key[r] \in Keys

(* Only updateCustomization reloads and updates, and it does so with the   *)
(* balance of a row it found; rows are never deleted.                      *)
CustomizerOK ==
    \A r \in Requests : pc[r] \in {"reload", "update"} =>
        /\ r \in Customizers
        /\ wallet[r] \in Nat
        /\ balance[key[r]] # None

(* A row lock belongs to a request that works on that row and is between   *)
(* its FOR UPDATE (or its INSERT) and its commit.                          *)
LockIsHeld ==
    \A k \in Keys : lock[k] # None =>
        /\ key[lock[k]] = k
        /\ pc[lock[k]] \in {"save", "commit"}
        /\ pc[lock[k]] = "save" => wallet[lock[k]] # None

(* A delta is committed by the last step of its request, and a request     *)
(* that is about to commit has a balance to commit.                        *)
AppliedOK == /\ \A r \in applied : pc[r] \in Outcomes /\ key[r] \in Keys
             /\ \A r \in Requests : pc[r] = "commit" => newBalance(r) >= 0

WInv == /\ TypeOK
        /\ KeyOK
        /\ CustomizerOK
        /\ LockIsHeld
        /\ ReadIsCurrent
        /\ AppliedOK
        /\ BalanceNonNegative

(* The rounded sum is a whole number of cents. *)
LEMMA NewBalanceType ==
    ASSUME NEW b \in Int, NEW d \in Int
    PROVE  NewBalance(b, d) \in Int
  <1>1. SubUnits * b + d \in Int
    BY HalfCentAssumption DEF SubUnits
  <1> QED BY <1>1, RoundCentsError DEF NewBalance

LEMMA WInvInit == Init => WInv
  <1> SUFFICES ASSUME Init PROVE WInv
    OBVIOUS
  <1> USE WalletsAssumption DEF Init
  <1>1. TypeOK
    BY DEF TypeOK, Steps
  <1>2. KeyOK /\ CustomizerOK /\ LockIsHeld /\ ReadIsCurrent /\ AppliedOK
    BY DEF KeyOK, Active, Steps, CustomizerOK, LockIsHeld, ReadIsCurrent,
           AppliedOK
  <1>3. BalanceNonNegative
    BY DEF BalanceNonNegative, Balance, OrZero
  <1> QED BY <1>1, <1>2, <1>3 DEF WInv

LEMMA WInvStep == WInv /\ [Next]_vars => WInv'
  <1> SUFFICES ASSUME WInv, [Next]_vars PROVE WInv'
    OBVIOUS
  <1> USE WalletsAssumption
  <1>1. ASSUME NEW r \in Requests, NEW a \in Accounts, NEW s \in Spellings,
               NEW d \in Deltas, adjustBalance(r, a, s, d)
        PROVE  WInv'
    <2>1. <<a, CodeOf[s]>> \in Keys \/ ~isSupported(s)
      BY DEF isSupported, Keys
    <2>2. TypeOK'
      BY <1>1, <2>1 DEF WInv, adjustBalance, Goto, TypeOK, rows, Steps, Outcomes
    <2>3. KeyOK' /\ CustomizerOK' /\ LockIsHeld' /\ ReadIsCurrent' /\ AppliedOK'
      BY <1>1, <2>1 DEF WInv, adjustBalance, Goto, TypeOK, rows, Steps, Outcomes,
         KeyOK, Active, CustomizerOK, LockIsHeld, ReadIsCurrent, AppliedOK,
         newBalance
    <2>4. BalanceNonNegative'
      BY <1>1 DEF WInv, adjustBalance, rows, BalanceNonNegative, Balance
    <2> QED BY <2>2, <2>3, <2>4 DEF WInv
  <1>2. ASSUME NEW r \in Requests, FindOneForUpdate(r)
        PROVE  WInv'
    <2>1. key[r] \in Keys
      BY <1>2 DEF WInv, KeyOK, Active, FindOneForUpdate, Steps
    <2>2. TypeOK'
      BY <1>2, <2>1 DEF WInv, FindOneForUpdate, Goto, TypeOK, rows, Steps
    <2>3. KeyOK' /\ CustomizerOK' /\ LockIsHeld' /\ ReadIsCurrent' /\ AppliedOK'
      BY <1>2, <2>1 DEF WInv, FindOneForUpdate, Goto, TypeOK, rows, Steps,
         Outcomes, KeyOK, Active, CustomizerOK, LockIsHeld, ReadIsCurrent,
         AppliedOK, newBalance
    <2>4. BalanceNonNegative'
      BY <1>2 DEF WInv, FindOneForUpdate, rows, BalanceNonNegative, Balance
    <2> QED BY <2>2, <2>3, <2>4 DEF WInv
  <1>3. ASSUME NEW r \in Requests, SaveWallet(r)
        PROVE  WInv'
    <2>1. key[r] \in Keys
      BY <1>3 DEF WInv, KeyOK, Active, SaveWallet, Steps
    <2>2. TypeOK'
      BY <1>3, <2>1 DEF WInv, SaveWallet, Goto, Unlocked, TypeOK, rows, locals,
         Steps, Outcomes
    <2>3. KeyOK' /\ CustomizerOK' /\ LockIsHeld'
      BY <1>3, <2>1 DEF WInv, SaveWallet, Goto, Unlocked, TypeOK, rows, locals,
         Steps, Outcomes, KeyOK, Active, CustomizerOK, LockIsHeld
    <2>a. \A q \in Requests : newBalance(q)' = newBalance(q)
      BY <1>3 DEF SaveWallet, locals, newBalance
    <2>b. AppliedOK'
      BY <1>3, <2>a DEF WInv, SaveWallet, Goto, TypeOK, rows, locals, Outcomes,
         AppliedOK
    <2>4. ReadIsCurrent'
      BY <1>3, <2>1 DEF WInv, SaveWallet, Goto, Unlocked, TypeOK, rows, locals,
         ReadIsCurrent, KeyOK, Active, Steps
    <2>5. BalanceNonNegative'
      BY <1>3 DEF WInv, SaveWallet, rows, BalanceNonNegative, Balance
    <2> QED BY <2>2, <2>3, <2>b, <2>4, <2>5 DEF WInv
  <1>4. ASSUME NEW r \in Requests, Commit(r)
        PROVE  WInv'
    <2>1. key[r] \in Keys
      BY <1>4 DEF WInv, KeyOK, Active, Commit, Steps
    <2>2. newBalance(r) \in Int /\ newBalance(r) >= 0
      <3>1. OrZero(wallet[r]) \in Int /\ delta[r] \in Int
        BY DEF WInv, TypeOK, OrZero
      <3>2. newBalance(r) \in Int
        BY <3>1, NewBalanceType DEF newBalance
      <3>3. newBalance(r) >= 0
        BY <1>4 DEF Commit, WInv, AppliedOK
      <3> QED BY <3>2, <3>3
    <2>3. TypeOK'
      BY <1>4, <2>1, <2>2 DEF WInv, Commit, Goto, Unlocked, TypeOK, locals,
         Outcomes
    <2>4. KeyOK' /\ CustomizerOK' /\ LockIsHeld'
      BY <1>4, <2>1, <2>2 DEF WInv, Commit, Goto, Unlocked, TypeOK, locals,
         Steps, Outcomes, KeyOK, Active, CustomizerOK, LockIsHeld
    <2>5. ReadIsCurrent'
      BY <1>4, <2>1 DEF WInv, Commit, Goto, Unlocked, TypeOK, locals,
         ReadIsCurrent, KeyOK, Active, Steps
    <2>6. AppliedOK'
      BY <1>4, <2>1 DEF WInv, Commit, Goto, TypeOK, locals, AppliedOK, Outcomes,
         newBalance
    <2>7. BalanceNonNegative'
      BY <1>4, <2>1, <2>2 DEF WInv, Commit, TypeOK, BalanceNonNegative, Balance,
         OrZero
    <2> QED BY <2>3, <2>4, <2>5, <2>6, <2>7 DEF WInv
  <1>5. ASSUME NEW r \in Requests, DatabaseError(r)
        PROVE  WInv'
    <2>1. TypeOK'
      BY <1>5 DEF WInv, DatabaseError, Goto, Unlocked, TypeOK, rows, locals,
         Outcomes
    <2>2. KeyOK' /\ CustomizerOK' /\ LockIsHeld' /\ AppliedOK'
      BY <1>5 DEF WInv, DatabaseError, Goto, Unlocked, TypeOK, rows, locals,
         Steps, Outcomes, KeyOK, Active, CustomizerOK, LockIsHeld, AppliedOK,
         newBalance
    <2>3. ReadIsCurrent'
      BY <1>5 DEF WInv, DatabaseError, Goto, Unlocked, TypeOK, rows, locals,
         ReadIsCurrent, KeyOK, Active, Steps
    <2>4. BalanceNonNegative'
      BY <1>5 DEF WInv, DatabaseError, rows, BalanceNonNegative, Balance
    <2> QED BY <2>1, <2>2, <2>3, <2>4 DEF WInv
  <1>6. ASSUME NEW a \in Accounts, NEW t \in Thresholds, setAutoSweepConfig(a, t)
        PROVE  WInv'
    <2>1. TypeOK'
      BY <1>6 DEF WInv, setAutoSweepConfig, TypeOK, rows, locals
    <2>2. KeyOK' /\ CustomizerOK' /\ LockIsHeld' /\ ReadIsCurrent' /\ AppliedOK'
      BY <1>6 DEF WInv, setAutoSweepConfig, rows, locals, KeyOK, Active,
         CustomizerOK, LockIsHeld, ReadIsCurrent, AppliedOK, newBalance
    <2>3. BalanceNonNegative'
      BY <1>6 DEF WInv, setAutoSweepConfig, rows, BalanceNonNegative, Balance
    <2> QED BY <2>1, <2>2, <2>3 DEF WInv
  <1>7. ASSUME NEW r \in Requests, NEW a \in Accounts, NEW s \in Spellings,
               processAutoSweep(r, a, s)
        PROVE  WInv'
    <2>1. <<a, CodeOf[s]>> \in Keys \/ ~isSupported(s)
      BY DEF isSupported, Keys
    <2>a. sweepConfig[a] \in Int \/ sweepConfig[a] = None
      <3>1. sweepConfig[a] \in Thresholds \/ sweepConfig[a] = None
        BY DEF WInv, TypeOK
      <3>2. \A t \in Thresholds : t \in Nat
        BY Zenon
      <3>3. \A t \in Nat : t \in Int
        OBVIOUS
      <3> QED BY ONLY <3>1, <3>2, <3>3, Zenon
    <2>2. TypeOK'
      BY <1>7, <2>1, <2>a DEF WInv, processAutoSweep, Goto, TypeOK, rows, Steps,
         Outcomes
    <2>3. KeyOK' /\ CustomizerOK' /\ LockIsHeld'
      BY <1>7, <2>1 DEF WInv, processAutoSweep, Goto, TypeOK, rows, Steps,
         Outcomes, KeyOK, Active, CustomizerOK, LockIsHeld
    <2>4. ReadIsCurrent' /\ AppliedOK'
      BY <1>7 DEF WInv, processAutoSweep, Goto, TypeOK, rows, Outcomes,
         ReadIsCurrent, AppliedOK, newBalance
    <2>5. BalanceNonNegative'
      BY <1>7 DEF WInv, processAutoSweep, rows, BalanceNonNegative, Balance
    <2> QED BY <2>2, <2>3, <2>4, <2>5 DEF WInv
  <1>8. ASSUME NEW r \in Requests, GetBalanceThenSweep(r)
        PROVE  WInv'
    <2> DEFINE excess == OrZero(balance[key[r]]) - delta[r]
               amount == -(SubUnits * excess)
    <2>1. key[r] \in Keys
      BY <1>8 DEF WInv, KeyOK, Active, GetBalanceThenSweep, Steps
    <2>2. excess \in Int
      BY <2>1 DEF WInv, TypeOK, OrZero
    <2>3. amount \in Int
      BY <2>2, HalfCentAssumption DEF SubUnits
    <2>4. /\ pc[r] = "getBalance"
          /\ \/ Goto(r, "findOne") /\ delta' = [delta EXCEPT ![r] = amount]
             \/ Goto(r, "ok") /\ UNCHANGED delta
          /\ UNCHANGED <<rows, lock, sweepConfig, key, wallet, walletLabel, dirty>>
      BY <1>8 DEF GetBalanceThenSweep
    <2> HIDE DEF excess, amount
    <2>5. TypeOK'
      BY <2>3, <2>4 DEF WInv, Goto, TypeOK, rows, Steps, Outcomes
    <2>6. KeyOK' /\ CustomizerOK' /\ LockIsHeld' /\ ReadIsCurrent' /\ AppliedOK'
      BY <2>1, <2>4 DEF WInv, Goto, TypeOK, rows, Steps,
         Outcomes, KeyOK, Active, CustomizerOK, LockIsHeld, ReadIsCurrent,
         AppliedOK, newBalance
    <2>7. BalanceNonNegative'
      BY <2>4 DEF WInv, rows, BalanceNonNegative, Balance
    <2> QED BY <2>5, <2>6, <2>7 DEF WInv
  <1>9. ASSUME NEW r \in Requests, NEW a \in Accounts, NEW s \in Spellings,
               NEW l \in Labels \cup {None}, updateCustomization(r, a, s, l)
        PROVE  WInv'
    <2> DEFINE k == <<a, CodeOf[s]>>
    <2>1. k \in Keys \/ ~isSupported(s)
      BY DEF isSupported, Keys
    <2>2. /\ r \in Customizers /\ pc[r] = "idle"
          /\ \/ /\ Goto(r, "refused") /\ UNCHANGED <<key, wallet, walletLabel>>
             \/ /\ isSupported(s) /\ balance[k] # None
                /\ Goto(r, "reload")
                /\ key' = [key EXCEPT ![r] = k]
                /\ wallet' = [wallet EXCEPT ![r] = balance[k]]
                /\ walletLabel' = [walletLabel EXCEPT ![r] =
                                      IF l = None THEN label[k] ELSE l]
          /\ UNCHANGED <<rows, lock, sweepConfig, delta, dirty>>
      BY <1>9 DEF updateCustomization
    <2> HIDE DEF k
    <2>3. k \in Keys /\ balance[k] # None => balance[k] \in Nat
      BY DEF WInv, TypeOK, BalanceNonNegative, Balance, OrZero
    <2>4. TypeOK'
      BY <2>1, <2>2 DEF WInv, Goto, TypeOK, rows, Steps, Outcomes
    <2>5. KeyOK' /\ CustomizerOK' /\ LockIsHeld' /\ ReadIsCurrent' /\ AppliedOK'
      BY <2>1, <2>2, <2>3 DEF WInv, Goto, TypeOK, rows, Steps,
         Outcomes, KeyOK, Active, CustomizerOK, LockIsHeld, ReadIsCurrent,
         AppliedOK, newBalance
    <2>6. BalanceNonNegative'
      BY <2>2 DEF WInv, rows, BalanceNonNegative, Balance
    <2> QED BY <2>4, <2>5, <2>6 DEF WInv
  <1>10. ASSUME NEW r \in Requests, Reload(r)
         PROVE  WInv'
    <2>1. Changed(r) \in SUBSET Columns
      BY DEF Changed
    <2>2. TypeOK'
      BY <1>10, <2>1 DEF WInv, Reload, Goto, TypeOK, rows, Steps, Outcomes
    <2>3. KeyOK' /\ CustomizerOK' /\ LockIsHeld' /\ ReadIsCurrent' /\ AppliedOK'
      BY <1>10 DEF WInv, Reload, Goto, TypeOK, rows, Steps,
         Outcomes, KeyOK, Active, CustomizerOK, LockIsHeld, ReadIsCurrent,
         AppliedOK, newBalance
    <2>4. BalanceNonNegative'
      BY <1>10 DEF WInv, Reload, rows, BalanceNonNegative, Balance
    <2> QED BY <2>2, <2>3, <2>4 DEF WInv
  <1>11. ASSUME NEW r \in Requests, Update(r)
         PROVE  WInv'
    <2>1. key[r] \in Keys /\ wallet[r] \in Nat
      BY <1>11 DEF WInv, KeyOK, CustomizerOK, Active, Update, Steps
    <2>2. TypeOK'
      BY <1>11, <2>1 DEF WInv, Update, Goto, TypeOK, locals, Outcomes
    <2>3. KeyOK' /\ CustomizerOK' /\ LockIsHeld' /\ AppliedOK'
      BY <1>11, <2>1 DEF WInv, Update, Goto, TypeOK, locals, Steps,
         Outcomes, KeyOK, Active, CustomizerOK, LockIsHeld,
         AppliedOK, newBalance
    <2>4. ReadIsCurrent'
      BY <1>11, <2>1 DEF WInv, Update, Goto, TypeOK, locals, Steps,
         KeyOK, Active, ReadIsCurrent
    <2>5. BalanceNonNegative'
      BY <1>11, <2>1 DEF WInv, Update, TypeOK, BalanceNonNegative, Balance, OrZero
    <2> QED BY <2>2, <2>3, <2>4, <2>5 DEF WInv
  <1>12. CASE Restart
    <2>1. TypeOK'
      BY <1>12 DEF WInv, Restart, TypeOK, rows, locals, Outcomes
    <2>2. KeyOK' /\ CustomizerOK' /\ LockIsHeld' /\ ReadIsCurrent' /\ AppliedOK'
      BY <1>12 DEF WInv, Restart, TypeOK, rows, locals, Steps, Outcomes,
         KeyOK, Active, CustomizerOK, LockIsHeld, ReadIsCurrent, AppliedOK,
         newBalance
    <2>3. BalanceNonNegative'
      BY <1>12 DEF WInv, Restart, rows, BalanceNonNegative, Balance
    <2> QED BY <2>1, <2>2, <2>3 DEF WInv
  <1>13. CASE UNCHANGED vars
    <2>1. TypeOK' /\ KeyOK' /\ CustomizerOK' /\ LockIsHeld' /\ ReadIsCurrent'
      BY <1>13 DEF WInv, vars, rows, locals, TypeOK, KeyOK, Active,
         CustomizerOK, LockIsHeld, ReadIsCurrent
    <2>2. AppliedOK' /\ BalanceNonNegative'
      BY <1>13 DEF WInv, vars, rows, locals, AppliedOK, newBalance,
         BalanceNonNegative, Balance
    <2> QED BY <2>1, <2>2 DEF WInv
  <1> QED BY <1>1, <1>2, <1>3, <1>4, <1>5, <1>6, <1>7, <1>8, <1>9, <1>10,
             <1>11, <1>12, <1>13 DEF Next, Start, Progress

(***************************************************************************)
(* Theorems that hold with every operation of the service.                 *)
(***************************************************************************)
THEOREM WInvariance == Spec => []WInv
  <1> QED BY WInvInit, WInvStep, PTL DEF Spec

(* The variables keep their types. *)
THEOREM TypeCorrect == Spec => []TypeOK
  <1>1. WInv => TypeOK
    BY DEF WInv
  <1> QED BY <1>1, WInvariance, PTL

(* The balance adjustBalance computes on is the committed one until it     *)
(* commits.                                                                *)
THEOREM ReadStaysCurrent == Spec => []ReadIsCurrent
  <1>1. WInv => ReadIsCurrent
    BY DEF WInv
  <1> QED BY <1>1, WInvariance, PTL

(* No wallet is ever overdrawn. *)
THEOREM NeverOverdrawn == Spec => []BalanceNonNegative
  <1>1. WInv => BalanceNonNegative
    BY DEF WInv
  <1> QED BY <1>1, WInvariance, PTL

(* Only Commit applies a delta. *)
LEMMA OnlyCommitApplies ==
    ASSUME WInv, [Next]_vars
    PROVE  applied' = applied \/ \E r \in Requests : Commit(r)
  <1>1. ASSUME NEW r \in Requests, Start(r)
        PROVE  applied' = applied
    BY <1>1 DEF Start, rows, adjustBalance, processAutoSweep, updateCustomization
  <1>2. ASSUME NEW r \in Requests, Progress(r), ~Commit(r)
        PROVE  applied' = applied
    BY <1>2 DEF Progress, rows, FindOneForUpdate, SaveWallet,
       GetBalanceThenSweep, Reload, Update
  <1>3. ASSUME NEW r \in Requests, DatabaseError(r)
        PROVE  applied' = applied
    BY <1>3 DEF DatabaseError, rows
  <1>4. CASE \/ \E a \in Accounts, t \in Thresholds : setAutoSweepConfig(a, t)
             \/ Restart
             \/ UNCHANGED vars
    BY <1>4 DEF setAutoSweepConfig, Restart, vars, rows
  <1> QED BY <1>1, <1>2, <1>3, <1>4 DEF Next

(* No adjustment overwrites another one. *)
THEOREM LostUpdateFree == Spec => NoLostUpdate
  <1> DEFINE A == \A r \in applied' \ applied :
                    balance'[key[r]] = NewBalance(Balance(key[r]), delta[r])
  <1>1. WInv /\ [Next]_vars => [A]_vars
    <2> SUFFICES ASSUME WInv, [Next]_vars PROVE A
      OBVIOUS
    <2>1. CASE applied' = applied
      BY <2>1
    <2>2. ASSUME NEW r \in Requests, Commit(r)
          PROVE  A
      <3>1. applied' \ applied \subseteq {r}
        BY <2>2 DEF Commit
      <3>2. key[r] \in Keys /\ wallet[r] = balance[key[r]]
        BY <2>2 DEF Commit, WInv, ReadIsCurrent, KeyOK, Active, Steps
      <3>3. balance'[key[r]] = NewBalance(Balance(key[r]), delta[r])
        BY <2>2, <3>2 DEF Commit, WInv, TypeOK, newBalance, Balance
      <3> QED BY <3>1, <3>3
    <2> QED BY <2>1, <2>2, OnlyCommitApplies
  <1> QED BY <1>1, WInvariance, PTL DEF Spec, NoLostUpdate

(***************************************************************************)
(* Without updateCustomization only adjustments write a balance.           *)
(***************************************************************************)
(* A step that applies nothing leaves the balances and the history alone.  *)
LEMMA OnlyCommitWrites ==
    ASSUME WInv, [Next]_vars, Customizers = {}
    PROVE  \/ UNCHANGED <<balance, applied, exact>>
           \/ \E r \in Requests : Commit(r)
  <1>1. \A r \in Requests : ~Update(r)
    BY DEF WInv, CustomizerOK, Update
  <1>2. ASSUME NEW r \in Requests, Start(r)
        PROVE  UNCHANGED <<balance, applied, exact>>
    BY <1>2 DEF Start, rows, adjustBalance, processAutoSweep, updateCustomization
  <1>3. ASSUME NEW r \in Requests, Progress(r), ~Commit(r)
        PROVE  UNCHANGED <<balance, applied, exact>>
    BY <1>1, <1>3 DEF Progress, rows, FindOneForUpdate, SaveWallet,
       GetBalanceThenSweep, Reload
  <1>4. ASSUME NEW r \in Requests, DatabaseError(r)
        PROVE  UNCHANGED <<balance, applied, exact>>
    BY <1>4 DEF DatabaseError, rows
  <1>5. CASE \/ \E a \in Accounts, t \in Thresholds : setAutoSweepConfig(a, t)
             \/ Restart
             \/ UNCHANGED vars
    BY <1>5 DEF setAutoSweepConfig, Restart, vars, rows
  <1> QED BY <1>2, <1>3, <1>4, <1>5 DEF Next

(* What a commit does to the balances and to the history. *)
LEMMA CommitEffect ==
    ASSUME WInv, NEW r \in Requests, Commit(r)
    PROVE  /\ key[r] \in Keys /\ delta[r] \in Int
           /\ r \notin applied /\ applied' = applied \cup {r}
           /\ exact' = [exact EXCEPT ![key[r]] = @ + delta[r]]
           /\ Balance(key[r]) \in Int
           /\ NewBalance(Balance(key[r]), delta[r]) \in Nat
           /\ balance' = [balance EXCEPT ![key[r]] =
                            NewBalance(Balance(key[r]), delta[r])]
  <1>1. key[r] \in Keys /\ delta[r] \in Int /\ wallet[r] = balance[key[r]]
    BY DEF Commit, WInv, TypeOK, ReadIsCurrent, KeyOK, Active, Steps
  <1>2. r \notin applied
    BY DEF Commit, WInv, AppliedOK, Outcomes
  <1>3. Balance(key[r]) \in Int
    BY <1>1 DEF WInv, TypeOK, Balance, OrZero
  <1>4. newBalance(r) = NewBalance(Balance(key[r]), delta[r])
    BY <1>1 DEF newBalance, Balance
  <1>5. NewBalance(Balance(key[r]), delta[r]) \in Int
    BY <1>1, <1>3, NewBalanceType
  <1>6. newBalance(r) >= 0
    BY DEF Commit, WInv, AppliedOK
  <1> QED BY <1>1, <1>2, <1>3, <1>4, <1>5, <1>6 DEF Commit

(* The rows implement the atomic wallet: adjustBalance, with its lock, its *)
(* INSERT race, its failures and its restarts, behaves as if every         *)
(* adjustment were one indivisible step.                                   *)
THEOREM Refinement == ASSUME Customizers = {} PROVE Spec => AtomicSpec
  <1> USE WalletsAssumption
  <1>1. Init => Atomic!Init
    BY DEF Init, Atomic!Init, Balance, OrZero
  <1>2. WInv /\ [Next]_vars => [Atomic!Next]_(Atomic!vars)
    <2> SUFFICES ASSUME WInv, [Next]_vars PROVE [Atomic!Next]_(Atomic!vars)
      OBVIOUS
    <2>1. CASE UNCHANGED <<balance, applied, exact>>
      BY <2>1 DEF Atomic!vars, Balance
    <2>2. ASSUME NEW r \in Requests, Commit(r)
          PROVE  Atomic!Next
      <3> DEFINE k == key[r]
                 b == NewBalance(Balance(k), delta[r])
      <3>1. /\ k \in Keys /\ delta[r] \in Int
            /\ r \notin applied /\ applied' = applied \cup {r}
            /\ exact' = [exact EXCEPT ![k] = @ + delta[r]]
            /\ b \in Nat
            /\ balance' = [balance EXCEPT ![k] = b]
        BY <2>2, CommitEffect
      <3> HIDE DEF k, b
      <3>2. /\ exact'[k] \in Int /\ exact'[k] - exact[k] = delta[r]
            /\ exact' = [exact EXCEPT ![k] = exact'[k]]
        BY <3>1 DEF WInv, TypeOK
      <3>3. \A q \in Keys : Balance(q)' = IF q = k THEN b ELSE Balance(q)
        BY <3>1 DEF WInv, TypeOK, Balance, OrZero
      <3>4. b = NewBalance(Balance(k), exact'[k] - exact[k])
        BY <3>2 DEF b
      <3>5. [q \in Keys |-> Balance(q)]' =
              [[q \in Keys |-> Balance(q)] EXCEPT ![k] = b]
        BY <3>1, <3>3
      <3>6. /\ [q \in Keys |-> Balance(q)][k] = Balance(k)
            /\ ([q \in Keys |-> Balance(q)]')[k] >= 0
        BY <3>1, <3>3
      <3>7. [q \in Keys |-> Balance(q)]' =
              [[q \in Keys |-> Balance(q)] EXCEPT
                  ![k] = NewBalance(@, exact'[k] - exact[k])]
        BY <3>4, <3>5, <3>6
      <3>8. Atomic!NewBalance(Balance(k), exact'[k] - exact[k])
              = NewBalance(Balance(k), exact'[k] - exact[k])
        BY DEF NewBalance, RoundCents, SubUnits,
               Atomic!NewBalance, Atomic!RoundCents, Atomic!SubUnits
      <3>9. [q \in Keys |-> Balance(q)]' =
              [[q \in Keys |-> Balance(q)] EXCEPT
                  ![k] = Atomic!NewBalance([q \in Keys |-> Balance(q)][k],
                                           exact'[k] - exact[k])]
        BY <3>6, <3>7, <3>8
      <3>10. Atomic!Apply(r, k)
        BY <3>1, <3>2, <3>6, <3>9 DEF Atomic!Apply
      <3> QED BY <3>1, <3>10 DEF Atomic!Next
    <2> QED BY <2>1, <2>2, OnlyCommitWrites
  <1> QED BY <1>1, <1>2, WInvariance, PTL DEF Spec, AtomicSpec, Atomic!Spec

(* The drift bound needs the count of the applied deltas to be a number. *)
DInv == DriftBounded /\ IsFiniteSet(applied)

(* A key does not change once a request is applied. *)
LEMMA AppliedKeysStable ==
    ASSUME WInv, [Next]_vars
    PROVE  \A q \in applied : key'[q] = key[q]
  <1> SUFFICES ASSUME NEW q \in applied PROVE key'[q] = key[q]
    OBVIOUS
  <1>1. q \in Requests /\ pc[q] \in Outcomes
    BY DEF WInv, TypeOK, AppliedOK
  <1>2. ASSUME NEW r \in Requests, Start(r)
        PROVE  key'[q] = key[q]
    BY <1>1, <1>2 DEF WInv, TypeOK, Start, Outcomes, adjustBalance,
       processAutoSweep, updateCustomization
  <1>3. ASSUME NEW r \in Requests, Progress(r) \/ DatabaseError(r)
        PROVE  key' = key
    BY <1>3 DEF Progress, locals, FindOneForUpdate, SaveWallet, Commit,
       GetBalanceThenSweep, Reload, Update, DatabaseError
  <1>4. CASE \/ \E a \in Accounts, t \in Thresholds : setAutoSweepConfig(a, t)
             \/ Restart
             \/ UNCHANGED vars
    BY <1>4 DEF setAutoSweepConfig, Restart, vars, locals
  <1> QED BY <1>2, <1>3, <1>4 DEF Next

(* One adjustment moves the drift of its wallet by half a cent at most. *)
LEMMA DriftOfOneStep ==
    ASSUME NEW b \in Int, NEW d \in Int
    PROVE  /\ SubUnits * NewBalance(b, d) - (SubUnits * b + d) <= HalfCent
           /\ (SubUnits * b + d) - SubUnits * NewBalance(b, d) <= HalfCent
  <1>1. SubUnits * b + d \in Int
    BY HalfCentAssumption DEF SubUnits
  <1> QED BY <1>1, RoundCentsError DEF NewBalance

LEMMA DInvStep ==
    ASSUME WInv, DInv, [Next]_vars, Customizers = {}
    PROVE  DInv'
  <1> USE WalletsAssumption
  <1>1. CASE UNCHANGED <<balance, applied, exact>>
    <2>1. \A k \in Keys : AppliedTo(k)' = AppliedTo(k)
      BY <1>1, AppliedKeysStable DEF AppliedTo
    <2> QED BY <1>1, <2>1 DEF DInv, DriftBounded, Balance
  <1>2. ASSUME NEW r \in Requests, Commit(r)
        PROVE  DInv'
    <2> DEFINE k == key[r]
               b == Balance(k)
               nb == NewBalance(b, delta[r])
    <2>1. /\ k \in Keys /\ delta[r] \in Int
          /\ r \notin applied /\ applied' = applied \cup {r}
          /\ exact' = [exact EXCEPT ![k] = @ + delta[r]]
          /\ b \in Int /\ nb \in Nat
          /\ balance' = [balance EXCEPT ![k] = nb]
      BY <1>2, CommitEffect
    <2>2. key' = key
      BY <1>2 DEF Commit, locals
    <2>3. IsFiniteSet(applied')
      BY <2>1, FS_AddElement DEF DInv
    <2>4. /\ SubUnits * nb - (SubUnits * b + delta[r]) <= HalfCent
          /\ (SubUnits * b + delta[r]) - SubUnits * nb <= HalfCent
      BY <2>1, DriftOfOneStep
    <2>5. ASSUME NEW q \in Keys
          PROVE  /\ AppliedTo(q)' = IF q = k THEN AppliedTo(q) \cup {r}
                                             ELSE AppliedTo(q)
                 /\ IsFiniteSet(AppliedTo(q)) /\ r \notin AppliedTo(q)
      <3>1. AppliedTo(q) \subseteq applied
        BY DEF AppliedTo
      <3> QED BY <2>1, <2>2, <3>1, FS_Subset DEF AppliedTo, DInv
    <2> HIDE DEF k, b, nb
    <2>6. ASSUME NEW q \in Keys
          PROVE  LET drift == SubUnits * Balance(q)' - exact'[q]
                     bound == HalfCent * Cardinality(AppliedTo(q)')
                 IN  drift <= bound /\ -drift <= bound
      <3> DEFINE n == Cardinality(AppliedTo(q))
                 dr == SubUnits * Balance(q) - exact[q]
      <3>1. n \in Nat
        BY <2>5, FS_CardinalityType
      <3>2. dr <= HalfCent * n /\ -dr <= HalfCent * n
        BY DEF DInv, DriftBounded
      <3>3. CASE q # k
        <4>1. /\ Balance(q)' = Balance(q) /\ exact'[q] = exact[q]
              /\ AppliedTo(q)' = AppliedTo(q)
          BY <2>1, <2>5, <3>3 DEF WInv, TypeOK, Balance
        <4> QED BY <3>2, <4>1
      <3>4. CASE q = k
        <4>1. /\ Balance(q)' = nb /\ exact'[q] = exact[q] + delta[r]
              /\ Balance(q) = b /\ exact[q] \in Int
          BY <2>1, <3>4 DEF WInv, TypeOK, Balance, OrZero, b
        <4>2. Cardinality(AppliedTo(q)') = n + 1
          BY <2>5, <3>4, FS_AddElement
        <4>3. HalfCent * (n + 1) = HalfCent * n + HalfCent
              /\ HalfCent * n \in Int /\ HalfCent \in Int
          BY <3>1, HalfCentAssumption
        <4>4. SubUnits * nb \in Int /\ SubUnits * b \in Int
          BY <2>1, HalfCentAssumption DEF SubUnits
        <4>5. dr = SubUnits * b - exact[q]
          BY <4>1
        <4> HIDE DEF n, dr
        <4>6. /\ SubUnits * nb - (exact[q] + delta[r]) <= HalfCent * n + HalfCent
              /\ -(SubUnits * nb - (exact[q] + delta[r]))
                    <= HalfCent * n + HalfCent
          BY <2>1, <2>4, <3>2, <4>1, <4>3, <4>4, <4>5
        <4> QED BY <4>1, <4>2, <4>3, <4>6
      <3> QED BY <3>3, <3>4
    <2> QED BY <2>3, <2>6 DEF DInv, DriftBounded
  <1> QED BY <1>1, <1>2, OnlyCommitWrites

(* n adjustments of a wallet never put its balance off by more than n half *)
(* cents from the exact sum of the amounts.                                *)
THEOREM DriftIsBounded == ASSUME Customizers = {} PROVE Spec => []DriftBounded
  <1>1. Init => DInv
    <2> SUFFICES ASSUME Init PROVE DInv
      OBVIOUS
    <2>1. IsFiniteSet(applied)
      BY FS_EmptySet DEF Init
    <2>2. \A k \in Keys : AppliedTo(k) = {} /\ Balance(k) = 0 /\ exact[k] = 0
      BY DEF Init, AppliedTo, Balance, OrZero
    <2>3. Cardinality({}) = 0
      BY FS_EmptySet
    <2>4. SubUnits \in Int /\ HalfCent \in Int
      BY HalfCentAssumption DEF SubUnits
    <2>5. SubUnits * 0 - 0 = 0 /\ HalfCent * 0 = 0
      BY <2>4
    <2> QED BY <2>1, <2>2, <2>3, <2>5 DEF DInv, DriftBounded
  <1>2. WInv /\ DInv /\ [Next]_vars => DInv'
    BY DInvStep
  <1>3. DInv => DriftBounded
    BY DEF DInv
  <1> QED BY <1>1, <1>2, <1>3, WInvariance, PTL DEF Spec
============================================================================
