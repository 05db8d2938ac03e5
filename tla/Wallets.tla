------------------------------ MODULE Wallets ------------------------------
(***************************************************************************)
(* WalletsService (src/wallet/wallets.service.ts): one row per             *)
(* (accountId, currency) in the table wallet_balances, changed by          *)
(* concurrent requests.                                                    *)
(*                                                                         *)
(* A request is one call of a service method.  It advances from one await  *)
(* to the next, so a step of another request may fall between any two of   *)
(* its statements that touch the database.  The database is PostgreSQL at  *)
(* its default isolation, READ COMMITTED: a SELECT sees the last committed *)
(* row, SELECT ... FOR UPDATE and UPDATE wait for the row lock, and an     *)
(* INSERT waits for an uncommitted INSERT of the same unique key.  A       *)
(* transaction here locks one row at most, so lock[k] names its holder.    *)
(***************************************************************************)
EXTENDS Money, FiniteSets

CONSTANTS Accounts,     \* account ids
          Spellings,    \* currency arguments, as the caller wrote them
          Supported,    \* the codes of SUPPORTED_CURRENCIES
          CodeOf,       \* normalizeCurrencyCode: trim and upper-case
          Labels,       \* wallet labels and colours, one field here
          Thresholds,   \* auto-sweep thresholds, in cents
          Deltas,       \* arguments of adjustBalance, in sub-units
          Adjusters,    \* requests that call adjustBalance
          Sweepers,     \* requests that call processAutoSweep
          Customizers,  \* requests that call updateCustomization
          None          \* no row, no holder, no config, argument undefined

Requests == Adjusters \cup Sweepers \cup Customizers
Keys == Accounts \X Supported

ASSUME WalletsAssumption ==
    /\ CodeOf \in [Spellings -> STRING]
    /\ Thresholds \subseteq Nat
    /\ Deltas \subseteq Int
    /\ None \notin Int \cup Requests \cup Labels \cup Keys
    /\ Adjusters \cap Sweepers = {}
    /\ Adjusters \cap Customizers = {}
    /\ Sweepers \cap Customizers = {}

VARIABLES balance,      \* the balance column, committed; None: no such row
          label,        \* the label column
          lock,         \* holder of the row lock or of an uncommitted INSERT
          sweepConfig,  \* autoSweepConfigs, a Map in the process's memory
          pc,           \* per request: the step it is at, or its outcome
          key,          \* per request: the (accountId, currency) it works on
          delta,        \* per request: the amount, in sub-units
          wallet,       \* per request: balance of the entity in its memory
          walletLabel,  \* per request: label of that entity
          dirty,        \* per request: columns save will put in its UPDATE
          applied,      \* history: requests whose delta was committed
          exact         \* history: per key, the exact sum of those deltas

rows == <<balance, label, applied, exact>>
locals == <<key, delta, wallet, walletLabel, dirty>>
vars == <<rows, lock, sweepConfig, pc, locals>>

Columns == {"balance", "label"}
Outcomes == {"ok", "refused", "failed"}
Steps == {"idle", "findOne", "save", "commit", "getBalance", "reload", "update"}
Active(r) == pc[r] \in Steps \ {"idle"}

Init == /\ balance = [k \in Keys |-> None]
        /\ label = [k \in Keys |-> None]
        /\ lock = [k \in Keys |-> None]
        /\ sweepConfig = [a \in Accounts |-> None]
        /\ pc = [r \in Requests |-> "idle"]
        /\ key = [r \in Requests |-> None]
        /\ delta = [r \in Requests |-> 0]
        /\ wallet = [r \in Requests |-> None]
        /\ walletLabel = [r \in Requests |-> None]
        /\ dirty = [r \in Requests |-> {}]
        /\ applied = {}
        /\ exact = [k \in Keys |-> 0]

(***************************************************************************)
(* Helpers.                                                                *)
(***************************************************************************)
isSupported(s) == CodeOf[s] \in Supported

(* A missing row counts as a balance of 0, in getBalance and in the wallet *)
(* that adjustBalance creates.                                             *)
OrZero(b) == IF b = None THEN 0 ELSE b

Goto(r, step) == pc' = [pc EXCEPT ![r] = step]

(* Mutant: the query runner is not released when the transaction ends. *)
UnlockedNever(r) == lock

(* withTransaction's catch and finally: a transaction that ends frees its  *)
(* row, whether it is committed or rolled back.                            *)
Unlocked(r) == [k \in Keys |-> IF lock[k] = r THEN None ELSE lock[k]]

(***************************************************************************)
(* adjustBalance                                                           *)
(***************************************************************************)
(* Mutant: the currency is normalised and not validated. *)
adjustBalanceUnvalidated(r, a, s, d) ==
    /\ r \in Adjusters /\ pc[r] = "idle"
    /\ Goto(r, "findOne")
    /\ key' = [key EXCEPT ![r] = <<a, CodeOf[s]>>]
    /\ delta' = [delta EXCEPT ![r] = d]
    /\ UNCHANGED <<rows, lock, sweepConfig, wallet, walletLabel, dirty>>

(* Validation, and the call with delta = 0 that only reads. *)
adjustBalance(r, a, s, d) ==
    /\ r \in Adjusters /\ pc[r] = "idle"
    /\ \/ ~isSupported(s) /\ Goto(r, "refused") /\ UNCHANGED <<key, delta>>
       \/ isSupported(s) /\ d = 0 /\ Goto(r, "ok") /\ UNCHANGED <<key, delta>>
       \/ /\ isSupported(s) /\ d # 0
          /\ Goto(r, "findOne")
          /\ key' = [key EXCEPT ![r] = <<a, CodeOf[s]>>]
          /\ delta' = [delta EXCEPT ![r] = d]
    /\ UNCHANGED <<rows, lock, sweepConfig, wallet, walletLabel, dirty>>

(* Mutant: findOne without the pessimistic lock. *)
FindOne(r) ==
    /\ pc[r] = "findOne"
    /\ Goto(r, "save")
    /\ wallet' = [wallet EXCEPT ![r] = balance[key[r]]]
    /\ UNCHANGED <<rows, lock, sweepConfig, key, delta, walletLabel, dirty>>

(* manager.findOne with lock pessimistic_write.  Where there is no row     *)
(* there is nothing to lock.                                               *)
FindOneForUpdate(r) ==
    /\ pc[r] = "findOne"
    /\ \/ balance[key[r]] = None /\ UNCHANGED lock
       \/ /\ balance[key[r]] # None /\ lock[key[r]] = None
          /\ lock' = [lock EXCEPT ![key[r]] = r]
    /\ Goto(r, "save")
    /\ wallet' = [wallet EXCEPT ![r] = balance[key[r]]]
    /\ UNCHANGED <<rows, sweepConfig, key, delta, walletLabel, dirty>>

(* Mutant: the new balance is truncated to the cent, not rounded. *)
newBalanceTruncated(r) ==
    (SubUnits * OrZero(wallet[r]) + delta[r]) \div SubUnits

newBalance(r) == NewBalance(OrZero(wallet[r]), delta[r])

(* Mutant: the test for an insufficient balance is missing. *)
SaveWalletUnchecked(r) ==
    /\ pc[r] = "save"
    /\ \/ wallet[r] # None /\ UNCHANGED lock
       \/ /\ wallet[r] = None
          /\ balance[key[r]] = None /\ lock[key[r]] = None
          /\ lock' = [lock EXCEPT ![key[r]] = r]
    /\ Goto(r, "commit")
    /\ UNCHANGED <<rows, sweepConfig, locals>>

(* Mutant: no unique index on (accountId, currency); the second INSERT of  *)
(* a wallet replaces the first.                                            *)
SaveWalletUpsert(r) ==
    /\ pc[r] = "save"
    /\ newBalance(r) >= 0 /\ lock[key[r]] \in {None, r}
    /\ lock' = [lock EXCEPT ![key[r]] = r]
    /\ Goto(r, "commit")
    /\ UNCHANGED <<rows, sweepConfig, locals>>

(* The computation of the new balance and manager.save: an UPDATE of the   *)
(* locked row, or an INSERT that waits for an uncommitted INSERT of the    *)
(* same key and fails on the unique index if the row exists by then.       *)
SaveWallet(r) ==
    /\ pc[r] = "save"
    /\ \/ newBalance(r) < 0 /\ Goto(r, "refused") /\ lock' = Unlocked(r)
       \/ /\ newBalance(r) >= 0 /\ wallet[r] # None
          /\ Goto(r, "commit")
          /\ UNCHANGED lock
       \/ /\ newBalance(r) >= 0 /\ wallet[r] = None
          /\ balance[key[r]] = None /\ lock[key[r]] = None
          /\ Goto(r, "commit")
          /\ lock' = [lock EXCEPT ![key[r]] = r]
       \/ /\ newBalance(r) >= 0 /\ wallet[r] = None
          /\ balance[key[r]] # None
          /\ Goto(r, "failed")
          /\ UNCHANGED lock
    /\ UNCHANGED <<rows, sweepConfig, locals>>

(* Mutant: a commit whose acknowledgement is lost is tried again. *)
CommitRetried(r) ==
    /\ pc[r] = "commit"
    /\ balance' = [balance EXCEPT ![key[r]] = newBalance(r)]
    /\ applied' = applied \cup {r}
    /\ exact' = [exact EXCEPT ![key[r]] = @ + delta[r]]
    /\ \/ Goto(r, "ok") /\ lock' = Unlocked(r) /\ UNCHANGED wallet
       \/ /\ Goto(r, "commit") /\ UNCHANGED lock
          /\ wallet' = [wallet EXCEPT ![r] = newBalance(r)]
    /\ UNCHANGED <<label, sweepConfig, key, delta, walletLabel, dirty>>

(* commitTransaction.  The acknowledgement may be lost on the way back:    *)
(* the caller is then told of an error although the row has changed.       *)
Commit(r) ==
    /\ pc[r] = "commit"
    /\ balance' = [balance EXCEPT ![key[r]] = newBalance(r)]
    /\ applied' = applied \cup {r}
    /\ exact' = [exact EXCEPT ![key[r]] = @ + delta[r]]
    /\ lock' = Unlocked(r)
    /\ Goto(r, "ok") \/ Goto(r, "failed")
    /\ UNCHANGED <<label, sweepConfig, locals>>

(* A statement of the call fails in the database or on the connection. *)
DatabaseError(r) ==
    /\ Active(r)
    /\ Goto(r, "failed")
    /\ lock' = Unlocked(r)
    /\ UNCHANGED <<rows, sweepConfig, locals>>

(***************************************************************************)
(* Auto-sweep                                                              *)
(***************************************************************************)
setAutoSweepConfig(a, threshold) ==
    /\ sweepConfig[a] # threshold
    /\ sweepConfig' = [sweepConfig EXCEPT ![a] = threshold]
    /\ UNCHANGED <<rows, lock, pc, locals>>

(* The configuration is read at the start and used after the read of the  *)
(* balance; delta holds the threshold meanwhile.                           *)
processAutoSweep(r, a, s) ==
    /\ r \in Sweepers /\ pc[r] = "idle"
    /\ \/ /\ sweepConfig[a] = None
          /\ Goto(r, "ok") /\ UNCHANGED <<key, delta>>
       \/ /\ sweepConfig[a] # None /\ ~isSupported(s)
          /\ Goto(r, "refused") /\ UNCHANGED <<key, delta>>
       \/ /\ sweepConfig[a] # None /\ isSupported(s)
          /\ Goto(r, "getBalance")
          /\ key' = [key EXCEPT ![r] = <<a, CodeOf[s]>>]
          /\ delta' = [delta EXCEPT ![r] = sweepConfig[a]]
    /\ UNCHANGED <<rows, lock, sweepConfig, wallet, walletLabel, dirty>>

(* getBalance takes no lock: the excess over the threshold is computed     *)
(* from a balance that may change before adjustBalance locks the row.      *)
GetBalanceThenSweep(r) ==
    LET excess == OrZero(balance[key[r]]) - delta[r] IN
    /\ pc[r] = "getBalance"
    /\ \/ /\ excess > 0
          /\ Goto(r, "findOne")
          /\ delta' = [delta EXCEPT ![r] = -(SubUnits * excess)]
       \/ excess <= 0 /\ Goto(r, "ok") /\ UNCHANGED delta
    /\ UNCHANGED <<rows, lock, sweepConfig, key, wallet, walletLabel, dirty>>

(***************************************************************************)
(* updateCustomization                                                     *)
(***************************************************************************)
(* findOne without a lock; then the label, if one is given, is set on the  *)
(* entity.                                                                 *)
updateCustomization(r, a, s, l) ==
    LET k == <<a, CodeOf[s]>> IN
    /\ r \in Customizers /\ pc[r] = "idle"
    /\ \/ /\ ~isSupported(s)
          /\ Goto(r, "refused") /\ UNCHANGED <<key, wallet, walletLabel>>
       \/ /\ isSupported(s) /\ balance[k] = None
          /\ Goto(r, "refused") /\ UNCHANGED <<key, wallet, walletLabel>>
       \/ /\ isSupported(s) /\ balance[k] # None
          /\ Goto(r, "reload")
          /\ key' = [key EXCEPT ![r] = k]
          /\ wallet' = [wallet EXCEPT ![r] = balance[k]]
          /\ walletLabel' = [walletLabel EXCEPT ![r] =
                                IF l = None THEN label[k] ELSE l]
    /\ UNCHANGED <<rows, lock, sweepConfig, delta, dirty>>

(* repository.save, first half: TypeORM loads the row again and finds the  *)
(* columns in which the entity differs from it.                            *)
Changed(r) == {c \in Columns :
                 \/ c = "balance" /\ wallet[r] # balance[key[r]]
                 \/ c = "label" /\ walletLabel[r] # label[key[r]]}

Reload(r) ==
    /\ pc[r] = "reload"
    /\ dirty' = [dirty EXCEPT ![r] = Changed(r)]
    /\ \/ Changed(r) = {} /\ Goto(r, "ok")
       \/ Changed(r) # {} /\ Goto(r, "update")
    /\ UNCHANGED <<rows, lock, sweepConfig, key, delta, wallet, walletLabel>>

(* repository.save, second half: an UPDATE of those columns, which waits   *)
(* for the row lock.  The version column is incremented and not compared.  *)
Update(r) ==
    /\ pc[r] = "update"
    /\ lock[key[r]] = None
    /\ balance' = [balance EXCEPT ![key[r]] =
                     IF "balance" \in dirty[r] THEN wallet[r] ELSE @]
    /\ label' = [label EXCEPT ![key[r]] =
                   IF "label" \in dirty[r] THEN walletLabel[r] ELSE @]
    /\ Goto(r, "ok") \/ Goto(r, "failed")
    /\ UNCHANGED <<lock, sweepConfig, locals, applied, exact>>

(***************************************************************************)
(* The process restarts: calls in flight die with their connections, open  *)
(* transactions are rolled back and the Map of sweep thresholds is lost.   *)
(***************************************************************************)
Restart ==
    /\ \E r \in Requests : Active(r)
    /\ pc' = [r \in Requests |-> IF Active(r) THEN "failed" ELSE pc[r]]
    /\ lock' = [k \in Keys |-> None]
    /\ sweepConfig' = [a \in Accounts |-> None]
    /\ UNCHANGED <<rows, locals>>

Start(r) == \E a \in Accounts, s \in Spellings :
                \/ \E d \in Deltas : adjustBalance(r, a, s, d)
                \/ processAutoSweep(r, a, s)
                \/ \E l \in Labels \cup {None} : updateCustomization(r, a, s, l)

Progress(r) == \/ FindOneForUpdate(r)
               \/ SaveWallet(r)
               \/ Commit(r)
               \/ GetBalanceThenSweep(r)
               \/ Reload(r)
               \/ Update(r)

Next == \/ \E r \in Requests : Start(r) \/ Progress(r) \/ DatabaseError(r)
        \/ \E a \in Accounts, t \in Thresholds : setAutoSweepConfig(a, t)
        \/ Restart

Spec == Init /\ [][Next]_vars

(* The event loop runs every handler whose awaited statement has finished, *)
(* and PostgreSQL grants a row lock that has been released.                *)
Fairness == \A r \in Requests : WF_vars(Progress(r))

FairSpec == Spec /\ Fairness

(***************************************************************************)
(* Properties.                                                             *)
(***************************************************************************)
(* Every variable keeps the shape the code gives it. *)
TypeOK == /\ balance \in [Keys -> Int \cup {None}]
          /\ label \in [Keys -> Labels \cup {None}]
          /\ lock \in [Keys -> Requests \cup {None}]
          /\ sweepConfig \in [Accounts -> Thresholds \cup {None}]
          /\ pc \in [Requests -> Steps \cup Outcomes]
          /\ key \in [Requests -> Keys \cup {None}]
          /\ delta \in [Requests -> Int]
          /\ wallet \in [Requests -> Int \cup {None}]
          /\ walletLabel \in [Requests -> Labels \cup {None}]
          /\ dirty \in [Requests -> SUBSET Columns]
          /\ applied \in SUBSET Requests
          /\ exact \in [Keys -> Int]

Balance(k) == OrZero(balance[k])

(* The balance adjustBalance computes on is still the committed one when   *)
(* it commits: nothing that happens between findOne and commitTransaction, *)
(* in whatever request, makes it stale.  A request that found no row and   *)
(* has not yet sent its INSERT holds nothing.                              *)
ReadIsCurrent ==
    \A r \in Requests :
        pc[r] = "commit" \/ (pc[r] = "save" /\ wallet[r] # None)
            => lock[key[r]] = r /\ wallet[r] = balance[key[r]]

(* No committed balance is negative: 'Insufficient balance' is decided on  *)
(* the balance that is replaced, and updateCustomization, which writes     *)
(* back a balance it read earlier, cannot bring in a negative one either.  *)
BalanceNonNegative == \A k \in Keys : Balance(k) >= 0

AppliedTo(k) == {r \in applied : key[r] = k}

(* Every adjustment rounds to the cent and may lose or add half a cent; n  *)
(* adjustments never put a wallet off by more than n half cents, in        *)
(* whatever order they interleave.                                         *)
DriftBounded ==
    \A k \in Keys :
        LET drift == SubUnits * Balance(k) - exact[k]
            bound == HalfCent * Cardinality(AppliedTo(k))
        IN  drift <= bound /\ -drift <= bound

(* An adjustment that commits adds its delta to the balance committed just *)
(* before it: no concurrent adjustment is overwritten.                     *)
NoLostUpdate ==
    [][\A r \in applied' \ applied :
          balance'[key[r]] = NewBalance(Balance(key[r]), delta[r])]_vars

(* Every call returns: no request waits for a row lock for ever. *)
EveryCallReturns ==
    \A r \in Requests : pc[r] # "idle" ~> pc[r] \in Outcomes

(* Without updateCustomization, which also writes the balance column, the  *)
(* rows implement the atomic wallet.                                       *)
Atomic == INSTANCE AtomicWallet WITH bal <- [k \in Keys |-> Balance(k)]
AtomicSpec == Atomic!Spec
============================================================================
