---------------------------- MODULE Transactions ----------------------------
(***************************************************************************)
(* TransactionsService (src/transactions/transactions.service.ts): the     *)
(* handlers that move money between wallets and keep one row per           *)
(* transaction, interleaved at every await, with database and cache errors *)
(* and restarts of the process.                                            *)
(*                                                                         *)
(* A request is one call of a handler.  A request that creates a           *)
(* transaction also names the row it creates.  adjustBalance is one step   *)
(* on the balance: Wallets shows that it is atomic.  It runs in a database *)
(* transaction of its own, so an error later in the handler does not undo  *)
(* it, not even inside dataSource.transaction.                             *)
(*                                                                         *)
(* Terms acceptance, deactivation, the transaction limits and the check of *)
(* the destination account are other components: here they may refuse a    *)
(* request, and that is all a transaction sees of them.  An admin's        *)
(* override of a status, which moves no money, is left to LedgerReports    *)
(* and Listings.                                                           *)
(***************************************************************************)
EXTENDS Money, FiniteSetsExt

CONSTANTS Users, Currencies,
          References,   \* the references clients put on their requests
          Amounts,      \* amounts of requests, in sub-units
          Opening,      \* the balance of every wallet at the start, in cents
          Transfers, Deposits, Withdrawals, Swaps,      \* requests, by handler
          Cancellers, Taggers, Reversers,
          FeeDivisor,   \* 1 / FEE_RATE
          MAX_RETRIES,
          None

Payments == Transfers \cup Deposits \cup Withdrawals \cup Swaps
Editors == Cancellers \cup Taggers
Requests == Payments \cup Editors \cup Reversers
Keys == Users \X Currencies
Statuses == {"pending", "completed", "failed", "reversed", "cancelled"}

ASSUME TransactionsAssumption ==
    /\ Amounts \subseteq Nat
    /\ Opening \in [Keys -> Nat]
    /\ FeeDivisor \in Nat \ {0}
    /\ MAX_RETRIES \in Nat \ {0}
    /\ None \notin Requests \cup Keys \cup References \cup Statuses
    /\ Payments \cap (Editors \cup Reversers) = {}
    /\ Cancellers \cap Taggers = {} /\ Editors \cap Reversers = {}
    /\ Transfers \cap (Deposits \cup Withdrawals \cup Swaps) = {}
    /\ Deposits \cap (Withdrawals \cup Swaps) = {}
    /\ Withdrawals \cap Swaps = {}

(* There are finitely many wallets and transfers, so their money adds up. *)
ASSUME FiniteAssumption == IsFiniteSet(Keys) /\ IsFiniteSet(Transfers)

VARIABLES bal,          \* wallet balances, in cents
          status,       \* column status of every row; None: no such row
          reversedAt,   \* column reversedAt is set
          reversalRow,  \* the row with reference `${reference}-reversal` exists
          pc,           \* the step a request is at, or its outcome
          ref, from, to, amount, toAmount,      \* the request's arguments
          mem,          \* status of the entity the handler has in memory
          memReversed,  \* reversedAt of that entity
          dirty,        \* columns an editor's save will write
          attempt,      \* swap attempts that failed
          target,       \* the row an editor or a reverser works on
          debited, credited, refunded,  \* history: legs applied, per row
          repaid, recovered             \* history: reversal legs, per row

args == <<ref, from, to, amount, toAmount>>
entity == <<mem, memReversed, dirty, attempt, target>>
legs == <<debited, credited, refunded>>
undos == <<repaid, recovered>>
columns == <<status, reversedAt, reversalRow>>
vars == <<bal, columns, pc, args, entity, legs, undos>>

Outcomes == {"ok", "refused", "failed"}
Steps == {"idle", "check", "insert", "receipt", "debit", "credit", "complete",
          "cache", "fee", "retry", "refund", "fail", "reload", "update",
          "repay", "recover", "commit"}
Active(r) == pc[r] \in Steps \ {"idle"}

Init == /\ bal = Opening
        /\ status = [r \in Payments |-> None]
        /\ reversedAt = [r \in Payments |-> FALSE]
        /\ reversalRow = [r \in Payments |-> FALSE]
        /\ pc = [r \in Requests |-> "idle"]
        /\ ref = [r \in Payments |-> None]
        /\ from = [r \in Payments |-> None]
        /\ to = [r \in Payments |-> None]
        /\ amount = [r \in Payments |-> 0]
        /\ toAmount = [r \in Payments |-> 0]
        /\ mem = [r \in Requests |-> "pending"]
        /\ memReversed = [r \in Requests |-> FALSE]
        /\ dirty = [r \in Requests |-> {}]
        /\ attempt = [r \in Payments |-> 0]
        /\ target = [r \in Requests |-> None]
        /\ debited = [r \in Payments |-> 0]
        /\ credited = [r \in Payments |-> 0]
        /\ refunded = [r \in Payments |-> 0]
        /\ repaid = [r \in Payments |-> 0]
        /\ recovered = [r \in Payments |-> 0]

(***************************************************************************)
(* Helpers.                                                                *)
(***************************************************************************)
Goto(r, step) == pc' = [pc EXCEPT ![r] = step]

calculateFee(a) == a \div FeeDivisor

(* What leaves the wallet: a transfer is free, the others pay the fee. *)
total(r) == IF r \in Transfers THEN amount[r]
                               ELSE amount[r] + calculateFee(amount[r])

(* Mutant: the receiver of a transfer gets a fee the sender did not pay. *)
creditWithFee(r) == IF r \in Swaps THEN toAmount[r]
                                   ELSE amount[r] + calculateFee(amount[r])

(* What arrives in the wallet `to`. *)
credit(r) == IF r \in Swaps THEN toAmount[r] ELSE amount[r]

(* Mutant: adjustBalance relies on the caller's check of the balance. *)
adjustBalanceUnchecked(k, delta) ==
    bal' = [bal EXCEPT ![k] = NewBalance(@, delta)]

(* walletsService.adjustBalance, when it does not throw. *)
adjustBalance(k, delta) ==
    /\ NewBalance(bal[k], delta) >= 0
    /\ bal' = [bal EXCEPT ![k] = NewBalance(@, delta)]

(* Where control goes when the awaited call throws: the catch blocks. *)
Catch(r) ==
    CASE r \in Transfers /\ pc[r] \in {"debit", "credit", "complete"} -> "ok"
      [] r \in Withdrawals /\ pc[r] \in {"complete", "cache"} -> "refund"
      [] r \in Swaps /\ pc[r] \in {"credit", "complete", "fee"} -> "retry"
      [] OTHER -> "failed"

Throw(r) ==
    /\ Goto(r, Catch(r))
    /\ attempt' = IF Catch(r) = "retry" THEN [attempt EXCEPT ![r] = @ + 1]
                                        ELSE attempt

(***************************************************************************)
(* The checks before anything is written.                                  *)
(***************************************************************************)
(* A call is refused before it reads a balance: by a check of its          *)
(* arguments, or by a component that is not modelled here.                 *)
Refuse(r) ==
    /\ pc[r] = "idle"
    /\ Goto(r, "refused")
    /\ UNCHANGED <<bal, columns, args, entity, legs, undos>>

(* A call passes those checks with these arguments. *)
Arrive(r, k, l, a, b, reference) ==
    /\ pc[r] = "idle"
    /\ from' = [from EXCEPT ![r] = k]
    /\ to' = [to EXCEPT ![r] = l]
    /\ amount' = [amount EXCEPT ![r] = a]
    /\ toAmount' = [toAmount EXCEPT ![r] = b]
    /\ ref' = [ref EXCEPT ![r] = reference]
    /\ UNCHANGED <<bal, columns, entity, legs, undos>>

transfer(r, u, v, c, a, reference) ==
    /\ r \in Transfers
    /\ Arrive(r, <<u, c>>, <<v, c>>, a, a, reference)
    /\ a > 0 /\ u # v
    /\ Goto(r, "check")

createWithdrawal(r, u, c, a, reference) ==
    /\ r \in Withdrawals
    /\ Arrive(r, <<u, c>>, <<u, c>>, a, a, reference)
    /\ Goto(r, "check")

createSwap(r, u, c, d, a, b, reference) ==
    /\ r \in Swaps
    /\ Arrive(r, <<u, c>>, <<u, d>>, a, b, reference)
    /\ Goto(r, "check")

(* The argument of txRepo.create reads tx.id while tx is being             *)
(* initialised: a ReferenceError, before anything is saved.                *)
createDeposit(r, u, c, a, reference) ==
    /\ r \in Deposits
    /\ Arrive(r, <<u, c>>, <<u, c>>, a, a, reference)
    /\ Goto(r, "failed")

(* getBalance, without a lock, against the amount that will be taken. *)
CheckBalance(r) ==
    /\ pc[r] = "check"
    /\ \/ SubUnits * bal[from[r]] < total(r) /\ Goto(r, "refused")
       \/ SubUnits * bal[from[r]] >= total(r) /\ Goto(r, "insert")
    /\ UNCHANGED <<bal, columns, args, entity, legs, undos>>

(***************************************************************************)
(* txRepo.save.  TypeORM writes the columns in which the entity differs    *)
(* from the row; a handler's entity carries a status, so its save makes    *)
(* the row's status the entity's, whatever it was before.                  *)
(***************************************************************************)
save(r, s) == status' = [status EXCEPT ![r] = s]

(* Mutant: reference has an index that is not unique. *)
InsertDuplicate(r) ==
    /\ pc[r] = "insert"
    /\ save(r, "pending")
    /\ Goto(r, IF r \in Swaps THEN "debit" ELSE "receipt")
    /\ UNCHANGED <<bal, reversedAt, reversalRow, args, entity, legs, undos>>

(* Mutant: the row is created as COMPLETED. *)
InsertCompleted(r) ==
    /\ pc[r] = "insert"
    /\ save(r, "completed")
    /\ Goto(r, IF r \in Swaps THEN "debit" ELSE "receipt")
    /\ UNCHANGED <<bal, reversedAt, reversalRow, args, entity, legs, undos>>

(* The first save inserts the row as PENDING, unless a row has the same    *)
(* reference: that column is unique.                                       *)
Insert(r) ==
    /\ pc[r] = "insert"
    /\ \/ /\ \A q \in Payments : status[q] # None => ref[q] # ref[r]
          /\ save(r, "pending")
          /\ Goto(r, IF r \in Swaps THEN "debit" ELSE "receipt")
       \/ /\ \E q \in Payments : status[q] # None /\ ref[q] = ref[r]
          /\ Goto(r, "failed")
          /\ UNCHANGED status
    /\ UNCHANGED <<bal, reversedAt, reversalRow, args, entity, legs, undos>>

generateReceiptNumber(r) ==
    /\ pc[r] = "receipt"
    /\ save(r, mem[r])
    /\ Goto(r, "debit")
    /\ UNCHANGED <<bal, reversedAt, reversalRow, args, entity, legs, undos>>

(***************************************************************************)
(* The legs.  The acknowledgement of a commit may be lost: the balance has *)
(* changed and the call throws.                                            *)
(***************************************************************************)
(* Mutant: a transfer is completed after its debit, like a withdrawal. *)
DebitThenComplete(r) ==
    /\ pc[r] = "debit"
    /\ adjustBalance(from[r], -total(r))
    /\ debited' = [debited EXCEPT ![r] = @ + 1]
    /\ Goto(r, "complete")
    /\ mem' = [mem EXCEPT ![r] = "completed"]
    /\ UNCHANGED <<columns, args, memReversed, dirty, attempt, target, credited,
                   refunded, undos>>

Debit(r) ==
    /\ pc[r] = "debit"
    /\ adjustBalance(from[r], -total(r))
    /\ debited' = [debited EXCEPT ![r] = @ + 1]
    /\ \/ /\ Goto(r, IF r \in Withdrawals THEN "complete" ELSE "credit")
          /\ mem' = [mem EXCEPT ![r] =
                       IF r \in Withdrawals THEN "completed" ELSE @]
          /\ UNCHANGED attempt
       \/ Throw(r) /\ UNCHANGED mem
    /\ UNCHANGED <<columns, args, memReversed, dirty, target, credited,
                   refunded, undos>>

Credit(r) ==
    /\ pc[r] = "credit"
    /\ adjustBalance(to[r], credit(r))
    /\ credited' = [credited EXCEPT ![r] = @ + 1]
    /\ \/ /\ Goto(r, "complete")
          /\ mem' = [mem EXCEPT ![r] = "completed"]
          /\ UNCHANGED attempt
       \/ Throw(r) /\ UNCHANGED mem
    /\ UNCHANGED <<columns, args, memReversed, dirty, target, debited,
                   refunded, undos>>

(* save with status COMPLETED; then a withdrawal invalidates the cached    *)
(* balances and a swap records its fee.                                    *)
Complete(r) ==
    /\ pc[r] = "complete"
    /\ save(r, mem[r])
    /\ Goto(r, CASE r \in Transfers -> "ok"
                 [] r \in Withdrawals -> "cache"
                 [] r \in Swaps -> "fee")
    /\ UNCHANGED <<bal, reversedAt, reversalRow, args, entity, legs, undos>>

AfterComplete(r) ==
    /\ pc[r] \in {"cache", "fee"}
    /\ Goto(r, "ok")
    /\ UNCHANGED <<bal, columns, args, entity, legs, undos>>

(* Mutant: one attempt too many. *)
RetryOnceMore(r) ==
    /\ pc[r] = "retry"
    /\ save(r, mem[r])
    /\ Goto(r, IF attempt[r] <= MAX_RETRIES THEN "credit" ELSE "refund")
    /\ UNCHANGED <<bal, reversedAt, reversalRow, args, entity, legs, undos>>

(* Mutant: an attempt that failed writes FAILED before the refund. *)
RetryWritesFailed(r) ==
    /\ pc[r] = "retry"
    /\ save(r, "failed")
    /\ Goto(r, IF attempt[r] < MAX_RETRIES THEN "credit" ELSE "refund")
    /\ UNCHANGED <<bal, reversedAt, reversalRow, args, entity, legs, undos>>

(* The catch block of a swap attempt saves the entity for its retryCount;  *)
(* the loop goes on or ends.                                               *)
Retry(r) ==
    /\ pc[r] = "retry"
    /\ save(r, mem[r])
    /\ Goto(r, IF attempt[r] < MAX_RETRIES THEN "credit" ELSE "refund")
    /\ UNCHANGED <<bal, reversedAt, reversalRow, args, entity, legs, undos>>

Refund(r) ==
    /\ pc[r] = "refund"
    /\ adjustBalance(from[r], total(r))
    /\ refunded' = [refunded EXCEPT ![r] = @ + 1]
    /\ \/ /\ Goto(r, "fail")
          /\ mem' = [mem EXCEPT ![r] = "failed"]
       \/ Goto(r, "failed") /\ UNCHANGED mem
    /\ UNCHANGED <<columns, args, memReversed, dirty, attempt, target, debited,
                   credited, undos>>

(* Mutant: the catch block does not throw at its end. *)
SaveFailedQuietly(r) ==
    /\ pc[r] = "fail"
    /\ save(r, mem[r])
    /\ Goto(r, "ok")
    /\ UNCHANGED <<bal, reversedAt, reversalRow, args, entity, legs, undos>>

(* save with status FAILED; the audit entry follows, and the handler ends  *)
(* by throwing in any case.                                                *)
SaveFailed(r) ==
    /\ pc[r] = "fail"
    /\ save(r, mem[r])
    /\ Goto(r, "failed")
    /\ UNCHANGED <<bal, reversedAt, reversalRow, args, entity, legs, undos>>

(* Mutant: a debit that is refused is tried again from the last save on. *)
InsufficientRetried(r) ==
    /\ pc[r] = "debit"
    /\ NewBalance(bal[from[r]], -total(r)) < 0
    /\ Goto(r, "receipt")
    /\ UNCHANGED <<bal, columns, args, entity, legs, undos>>

(* The balance does not suffice any more: adjustBalance throws.  The other *)
(* legs add to a balance.                                                  *)
Insufficient(r) ==
    /\ pc[r] = "debit"
    /\ NewBalance(bal[from[r]], -total(r)) < 0
    /\ Throw(r)
    /\ UNCHANGED <<bal, columns, args, mem, memReversed, dirty, target, legs,
                   undos>>

(* An awaited call throws without effect: the database, the cache, Stellar.*)
Error(r) ==
    /\ Active(r)
    /\ Throw(r)
    /\ UNCHANGED <<bal, columns, args, mem, memReversed, dirty, target, legs,
                   undos>>

(***************************************************************************)
(* cancelTransaction and updateTags load the whole entity, change a field  *)
(* and save it: every column that differs from the row by then is written, *)
(* as the entity has it.                                                   *)
(***************************************************************************)
cancelTransaction(x, r) ==
    /\ x \in Cancellers /\ pc[x] = "idle"
    /\ \/ status[r] # "pending" /\ Goto(x, "refused") /\ UNCHANGED entity
       \/ /\ status[r] = "pending"
          /\ Goto(x, "reload")
          /\ target' = [target EXCEPT ![x] = r]
          /\ mem' = [mem EXCEPT ![x] = "cancelled"]
          /\ memReversed' = [memReversed EXCEPT ![x] = reversedAt[r]]
          /\ UNCHANGED <<dirty, attempt>>
    /\ UNCHANGED <<bal, columns, args, legs, undos>>

updateTags(x, r) ==
    /\ x \in Taggers /\ pc[x] = "idle"
    /\ \/ Goto(x, "refused") /\ UNCHANGED entity    \* no row, or not the sender
       \/ /\ status[r] # None
          /\ Goto(x, "reload")
          /\ target' = [target EXCEPT ![x] = r]
          /\ mem' = [mem EXCEPT ![x] = status[r]]
          /\ memReversed' = [memReversed EXCEPT ![x] = reversedAt[r]]
          /\ UNCHANGED <<dirty, attempt>>
    /\ UNCHANGED <<bal, columns, args, legs, undos>>

(* save loads the row again and compares ... *)
Reload(x) ==
    /\ pc[x] = "reload"
    /\ dirty' = [dirty EXCEPT ![x] =
          {c \in {"status", "reversedAt"} :
             \/ c = "status" /\ mem[x] # status[target[x]]
             \/ c = "reversedAt" /\ memReversed[x] # reversedAt[target[x]]}]
    /\ Goto(x, "update")
    /\ UNCHANGED <<bal, columns, args, mem, memReversed, attempt, target, legs,
                   undos>>

(* ... and updates. *)
Update(x) ==
    /\ pc[x] = "update"
    /\ status' = [status EXCEPT ![target[x]] =
                    IF "status" \in dirty[x] THEN mem[x] ELSE @]
    /\ reversedAt' = [reversedAt EXCEPT ![target[x]] =
                    IF "reversedAt" \in dirty[x] THEN memReversed[x] ELSE @]
    /\ Goto(x, "ok") \/ Goto(x, "failed")
    /\ UNCHANGED <<bal, reversalRow, args, entity, legs, undos>>

(***************************************************************************)
(* reverseTransaction.  Only reversedAt is tested, on the entity read at   *)
(* the start; the sender is repaid and the receiver charged in database    *)
(* transactions of their own; then the reversal row, whose reference is    *)
(* unique, and the new status of the original row commit together.         *)
(***************************************************************************)
reverseTransaction(x, r) ==
    /\ x \in Reversers /\ pc[x] = "idle"
    /\ \/ status[r] = None /\ Goto(x, "refused") /\ UNCHANGED target
       \/ status[r] # None /\ reversedAt[r] /\ Goto(x, "refused")
                           /\ UNCHANGED target
       \/ /\ status[r] # None /\ ~reversedAt[r]
          /\ Goto(x, "repay")
          /\ target' = [target EXCEPT ![x] = r]
    /\ UNCHANGED <<bal, columns, args, mem, memReversed, dirty, attempt, legs,
                   undos>>

(* The sender's wallet in the transaction's currency, and the receiver's:  *)
(* for a withdrawal or a swap both are the user's own wallet.              *)
receiverKey(r) == IF r \in Transfers THEN to[r] ELSE from[r]

Repay(x) ==
    LET r == target[x] IN
    /\ pc[x] = "repay"
    /\ adjustBalance(from[r], amount[r])
    /\ repaid' = [repaid EXCEPT ![r] = @ + 1]
    /\ Goto(x, "recover") \/ Goto(x, "failed")
    /\ UNCHANGED <<columns, args, entity, legs, recovered>>

Recover(x) ==
    LET r == target[x] IN
    /\ pc[x] = "recover"
    /\ \/ /\ adjustBalance(receiverKey(r), -amount[r])
          /\ recovered' = [recovered EXCEPT ![r] = @ + 1]
          /\ Goto(x, "commit") \/ Goto(x, "failed")
       \/ /\ NewBalance(bal[receiverKey(r)], -amount[r]) < 0
          /\ Goto(x, "failed")
          /\ UNCHANGED <<bal, recovered>>
    /\ UNCHANGED <<columns, args, entity, legs, repaid>>

(* Mutant: the reversal row gets a fresh reference, so nothing stops a     *)
(* second one.                                                             *)
CommitReversalAgain(x) ==
    LET r == target[x] IN
    /\ pc[x] = "commit"
    /\ reversalRow' = [reversalRow EXCEPT ![r] = TRUE]
    /\ status' = [status EXCEPT ![r] = "reversed"]
    /\ reversedAt' = [reversedAt EXCEPT ![r] = TRUE]
    /\ Goto(x, "ok")
    /\ UNCHANGED <<bal, args, entity, legs, undos>>

CommitReversal(x) ==
    LET r == target[x] IN
    /\ pc[x] = "commit"
    /\ \/ /\ ~reversalRow[r]
          /\ reversalRow' = [reversalRow EXCEPT ![r] = TRUE]
          /\ status' = [status EXCEPT ![r] = "reversed"]
          /\ reversedAt' = [reversedAt EXCEPT ![r] = TRUE]
          /\ Goto(x, "ok") \/ Goto(x, "failed")
       \/ reversalRow[r] /\ Goto(x, "failed") /\ UNCHANGED columns
    /\ UNCHANGED <<bal, args, entity, legs, undos>>

(* The process restarts: every handler in flight ends where it is. *)
Restart ==
    /\ \E r \in Requests : Active(r)
    /\ pc' = [r \in Requests |-> IF Active(r) THEN "failed" ELSE pc[r]]
    /\ UNCHANGED <<bal, columns, args, entity, legs, undos>>

Start(r) ==
    \E u \in Users, c \in Currencies, a \in Amounts, reference \in References :
       \/ \E v \in Users : transfer(r, u, v, c, a, reference)
       \/ createWithdrawal(r, u, c, a, reference)
       \/ createDeposit(r, u, c, a, reference)
       \/ \E d \in Currencies, b \in Amounts :
             createSwap(r, u, c, d, a, b, reference)

StartOn(x) == \E r \in Payments : \/ cancelTransaction(x, r)
                               \/ updateTags(x, r)
                               \/ reverseTransaction(x, r)

Proceed(r) == \/ CheckBalance(r) \/ Insert(r) \/ generateReceiptNumber(r)
              \/ Debit(r) \/ Credit(r) \/ Complete(r) \/ AfterComplete(r)
              \/ Retry(r) \/ Refund(r) \/ SaveFailed(r) \/ Insufficient(r)

ProceedOn(x) == \/ Reload(x) \/ Update(x)
                \/ Repay(x) \/ Recover(x) \/ CommitReversal(x)

Next == \/ \E r \in Payments : Start(r) \/ Refuse(r) \/ Proceed(r)
        \/ \E x \in Editors \cup Reversers : StartOn(x) \/ ProceedOn(x)
        \/ \E r \in Requests : Error(r)
        \/ Restart

Spec == Init /\ [][Next]_vars

(* The event loop resumes every handler whose awaited call has returned. *)
FairSpec == /\ Spec
            /\ \A r \in Payments : WF_vars(Proceed(r))
            /\ \A x \in Editors \cup Reversers : WF_vars(ProceedOn(x))

(***************************************************************************)
(* Properties.                                                             *)
(***************************************************************************)
(* Every variable keeps the shape the code gives it. *)
TypeOK == /\ bal \in [Keys -> Nat]
          /\ status \in [Payments -> Statuses \cup {None}]
          /\ reversedAt \in [Payments -> BOOLEAN]
          /\ reversalRow \in [Payments -> BOOLEAN]
          /\ pc \in [Requests -> Steps \cup Outcomes]
          /\ ref \in [Payments -> References \cup {None}]
          /\ from \in [Payments -> Keys \cup {None}]
          /\ to \in [Payments -> Keys \cup {None}]
          /\ amount \in [Payments -> Nat]
          /\ toAmount \in [Payments -> Nat]
          /\ mem \in [Requests -> Statuses]
          /\ memReversed \in [Requests -> BOOLEAN]
          /\ dirty \in [Requests -> SUBSET {"status", "reversedAt"}]
          /\ attempt \in [Payments -> 0..MAX_RETRIES]
          /\ target \in [Requests -> Payments \cup {None}]
          /\ debited \in [Payments -> Nat]
          /\ credited \in [Payments -> Nat]
          /\ refunded \in [Payments -> Nat]
          /\ repaid \in [Payments -> Nat]
          /\ recovered \in [Payments -> Nat]

(* A transfer whose row says COMPLETED has been debited and credited, once *)
(* each, whatever failed, restarted, was cancelled, tagged or reversed     *)
(* around it, as far as the handlers of TransactionsService write the row. *)
(* An admin's overrideTransactionStatus writes any status and moves        *)
(* nothing: LedgerReports has it.                                          *)
CompletedTransferMoved ==
    \A r \in Transfers :
        status[r] = "completed" => debited[r] = 1 /\ credited[r] = 1

(* A row that says FAILED has been debited and refunded, once each: FAILED *)
(* is written after the refund, never before it (#739, #741), as far as    *)
(* the handlers of TransactionsService write it.                           *)
FailedMeansRefunded ==
    \A r \in Payments :
        status[r] = "failed" => debited[r] = 1 /\ refunded[r] = 1

(* A withdrawal or a swap that was answered with success has taken the     *)
(* money once and given none of it back; a swap has credited at least once.*)
SuccessMeansSettled ==
    \A r \in Withdrawals \cup Swaps : pc[r] = "ok" =>
        /\ debited[r] = 1 /\ refunded[r] = 0
        /\ r \in Swaps => credited[r] >= 1

(* Two requests with one reference never both move money: the unique       *)
(* column stops the second before its debit.                               *)
OneDebitPerReference ==
    \A r, q \in Payments :
        r # q /\ ref[r] = ref[q] => debited[r] = 0 \/ debited[q] = 0

(* The legs a handler can apply are bounded: one debit, one refund and no  *)
(* more credits than attempts.                                             *)
LegsBounded ==
    \A r \in Payments : /\ debited[r] <= 1
                        /\ refunded[r] <= debited[r]
                        /\ credited[r] <= MAX_RETRIES * debited[r]

(* A transaction is reported reversed to one caller at most, and then the  *)
(* sender has been repaid and the receiver charged.                        *)
OneReversalSucceeds ==
    /\ \A x, y \in Reversers :
          pc[x] = "ok" /\ pc[y] = "ok" /\ target[x] = target[y] => x = y
    /\ \A r \in Payments :
          reversalRow[r] => repaid[r] >= 1 /\ recovered[r] >= 1

TakesPart(rs) == \E r \in rs : pc[r] # "idle"
Total(b) == MapThenSumSet(LAMBDA k : b[k], Keys)

(* Transfers of whole cents alone, without deposits and reversals, create  *)
(* no money at any moment, and once every transfer has either no row or a  *)
(* COMPLETED one and nothing is in flight, none has been lost.             *)
TransfersConserve ==
    /\ ~TakesPart(Requests \ (Transfers \cup Editors))
    /\ \A r \in Transfers : amount[r] % SubUnits = 0
    => /\ Total(bal) <= Total(Opening)
       /\ /\ \A r \in Requests : ~Active(r)
          /\ \A r \in Transfers : status[r] \in {None, "completed"}
          => Total(bal) = Total(Opening)

(* Every handler returns: retries are bounded and nothing waits for ever. *)
EveryHandlerReturns ==
    \A r \in Requests : Active(r) ~> pc[r] \in Outcomes
============================================================================
