---------------------------- MODULE BulkPayments ----------------------------
(***************************************************************************)
(* One bulk payment (src/bulk-payments): create() stores it and its items  *)
(* and leaves the work to setImmediate; processBulkPayment stores one      *)
(* PENDING transaction per item, marks the item and, at the end, writes    *)
(* the verdict and the counts it kept in local variables.  Nothing is in a *)
(* database transaction, and nobody takes the work up again after an error *)
(* outside the loop's try or a restart.  Bulk payments do not meet: one is *)
(* enough.  Amounts and addresses are left out.                            *)
(***************************************************************************)
EXTENDS Integers, FiniteSets

CONSTANT Items          \* the items of the request

ASSUME BulkAssumption == IsFiniteSet(Items)

VARIABLES bulk,         \* the row of bulk_payments: status and counts
          item,         \* per item: its row's status; "none": no row
          payments,     \* per item: transactions stored for it
          work,         \* what the service is doing
          todo,         \* the items the loop has not taken
          current,      \* the item in the loop's body
          successCount, failCount

local == <<todo, current, successCount, failCount>>
bulkVars == <<bulk, item, payments, work, local>>

Final == {"completed", "failed", "partial"}

BulkInit ==
    /\ bulk = [status |-> "none", successCount |-> 0, failCount |-> 0]
    /\ item = [i \in Items |-> "none"]
    /\ payments = [i \in Items |-> 0]
    /\ work = "none"
    /\ todo = {}
    /\ current = {}
    /\ successCount = 0
    /\ failCount = 0

create ==
    /\ work = "none"
    /\ bulk' = [bulk EXCEPT !.status = "pending"]
    /\ work' = "items"
    /\ UNCHANGED <<item, payments, local>>

createItems ==
    /\ work = "items"
    /\ item' = [i \in Items |-> "pending"]
    /\ work' = "scheduled"
    /\ UNCHANGED <<bulk, payments, local>>

processBulkPayment ==
    /\ work = "scheduled"
    /\ bulk' = [bulk EXCEPT !.status = "processing"]
    /\ todo' = Items
    /\ work' = "loop"
    /\ UNCHANGED <<item, payments, current, successCount, failCount>>

(* The transaction of the next item is stored, or its save throws. *)
PayItem(i) ==
    /\ work = "loop"
    /\ i \in todo
    /\ todo' = todo \ {i}
    /\ current' = {i}
    /\ \/ work' = "mark" /\ payments' = [payments EXCEPT ![i] = @ + 1]
       \/ work' = "catch" /\ UNCHANGED payments
    /\ UNCHANGED <<bulk, item, successCount, failCount>>

MarkSuccess(i) ==
    /\ work = "mark"
    /\ i \in current
    /\ item' = [item EXCEPT ![i] = "success"]
    /\ successCount' = successCount + 1
    /\ work' = "loop"
    /\ UNCHANGED <<bulk, payments, todo, current, failCount>>

(* Mutant: the success is counted before the update. *)
MarkThrowsCounted ==
    /\ work = "mark"
    /\ work' = "catch"
    /\ successCount' = successCount + 1
    /\ UNCHANGED <<bulk, item, payments, todo, current, failCount>>

(* The update of the item throws inside the try: the transaction is there. *)
MarkThrows ==
    /\ work = "mark"
    /\ work' = "catch"
    /\ UNCHANGED <<bulk, item, payments, local>>

MarkFailed(i) ==
    /\ work = "catch"
    /\ i \in current
    /\ item' = [item EXCEPT ![i] = "failed"]
    /\ failCount' = failCount + 1
    /\ work' = "loop"
    /\ UNCHANGED <<bulk, payments, todo, current, successCount>>

finalStatus == IF failCount = 0 THEN "completed"
               ELSE IF successCount = 0 THEN "failed" ELSE "partial"

Conclude ==
    /\ work = "loop"
    /\ todo = {}
    /\ bulk' = [status |-> finalStatus, successCount |-> successCount,
                failCount |-> failCount]
    /\ work' = "done"
    /\ UNCHANGED <<item, payments, local>>

(* An error outside the try, or the process stops. *)
Abandon ==
    /\ work \notin {"none", "done", "abandoned"}
    /\ work' = "abandoned"
    /\ UNCHANGED <<bulk, item, payments, local>>

BulkNext ==
    \/ create \/ createItems \/ processBulkPayment
    \/ \E i \in Items : PayItem(i) \/ MarkSuccess(i) \/ MarkFailed(i)
    \/ MarkThrows \/ Conclude \/ Abandon

BulkSpec == BulkInit /\ [][BulkNext]_bulkVars

----------------------------------------------------------------------------
(* Type invariant. *)
BulkTypeOK ==
    /\ bulk \in [status : {"none", "pending", "processing"} \cup Final,
                 successCount : Nat, failCount : Nat]
    /\ item \in [Items -> {"none", "pending", "success", "failed"}]
    /\ payments \in [Items -> Nat]
    /\ work \in {"none", "items", "scheduled", "loop", "mark", "catch", "done",
                 "abandoned"}
    /\ todo \subseteq Items
    /\ current \subseteq Items
    /\ successCount \in Nat
    /\ failCount \in Nat

With(s) == {i \in Items : item[i] = s}

(* The verdict is honest: once it is written, the counts are those of the  *)
(* item rows, no item is left pending, completed means that every item     *)
(* succeeded and failed that none did.  No item is ever paid twice, and a  *)
(* successful one was paid (a failed one may have been paid too).          *)
VerdictIsHonest ==
    /\ bulk.status \in Final =>
        /\ bulk.successCount = Cardinality(With("success"))
        /\ bulk.failCount = Cardinality(With("failed"))
        /\ With("success") \cup With("failed") = Items
        /\ bulk.status = "completed" <=> With("failed") = {}
        /\ bulk.status = "failed" => With("success") = {}
    /\ \A i \in Items : /\ payments[i] <= 1
                        /\ item[i] = "success" => payments[i] = 1
============================================================================
