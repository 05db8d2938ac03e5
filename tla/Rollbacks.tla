----------------------------- MODULE Rollbacks -----------------------------
(***************************************************************************)
(* TransactionRollbackService (src/modules/transactions): an admin rolls a *)
(* transaction back by a new transaction with the opposite amount and a    *)
(* record that links the two.  The two are inserted one after the other,   *)
(* in no database transaction, after a look for a record.  The new         *)
(* transaction is itself a SUCCESS, so it can be rolled back too.          *)
(***************************************************************************)
EXTENDS Integers, FiniteSets

CONSTANTS Admins, TxIds, FirstTx, NoTx

ASSUME RollbacksAssumption == FirstTx \in TxIds /\ NoTx \notin TxIds

VARIABLES txOf,         \* per id: the transaction it rolls back, itself for the
                        \* first, NoTx when there is no such transaction
          txStatus,     \* per id
          records,      \* pairs of original and rollback
          undo,         \* per admin: the transaction, its step and the new id
          crossed       \* history: transactions whose rollbacks overlapped or broke off

rollbackVars == <<txOf, txStatus, records, undo, crossed>>

Rest == [tx |-> NoTx, at |-> "rest", new |-> NoTx]

RollbacksInit ==
    /\ txOf = [t \in TxIds |-> IF t = FirstTx THEN t ELSE NoTx]
    /\ txStatus = [t \in TxIds |-> "PENDING"]
    /\ records = {}
    /\ undo = [a \in Admins |-> Rest]
    /\ crossed = {}

(* The status of the first transaction is set elsewhere. *)
settleTx(s) ==
    /\ txStatus[FirstTx] = "PENDING"
    /\ txStatus' = [txStatus EXCEPT ![FirstTx] = s]
    /\ UNCHANGED <<txOf, records, undo, crossed>>

Underway(t) == {a \in Admins : undo[a].tx = t}

rollback(a, t) ==
    /\ undo[a] = Rest
    /\ txOf[t] # NoTx /\ txStatus[t] = "SUCCESS"
    /\ undo' = [undo EXCEPT ![a] = [tx |-> t, at |-> "look", new |-> NoTx]]
    /\ crossed' = IF Underway(t) = {} THEN crossed ELSE crossed \cup {t}
    /\ UNCHANGED <<txOf, txStatus, records>>

Recorded(t) == \E r \in records : r[1] = t

(* Mutant: the look is for a record of the rollback transaction. *)
lookForNew(a) ==
    /\ undo[a].at = "look"
    /\ undo' = [undo EXCEPT ![a] =
            IF \E r \in records : r[2] = undo[a].tx THEN Rest
            ELSE [undo[a] EXCEPT !.at = "insert"]]
    /\ UNCHANGED <<txOf, txStatus, records, crossed>>

lookForRecord(a) ==
    /\ undo[a].at = "look"
    /\ undo' = [undo EXCEPT ![a] = IF Recorded(undo[a].tx) THEN Rest
                                   ELSE [undo[a] EXCEPT !.at = "insert"]]
    /\ UNCHANGED <<txOf, txStatus, records, crossed>>

insertRollbackTx(a, n) ==
    /\ undo[a].at = "insert"
    /\ txOf[n] = NoTx
    /\ txOf' = [txOf EXCEPT ![n] = undo[a].tx]
    /\ txStatus' = [txStatus EXCEPT ![n] = "SUCCESS"]
    /\ undo' = [undo EXCEPT ![a].at = "record", ![a].new = n]
    /\ UNCHANGED <<records, crossed>>

insertRecord(a) ==
    /\ undo[a].at = "record"
    /\ records' = records \cup {<<undo[a].tx, undo[a].new>>}
    /\ undo' = [undo EXCEPT ![a] = Rest]
    /\ UNCHANGED <<txOf, txStatus, crossed>>

(* A query fails or the process stops. *)
undoBreaksOff(a) ==
    /\ undo[a] # Rest
    /\ crossed' = IF undo[a].at = "record" THEN crossed \cup {undo[a].tx} ELSE crossed
    /\ undo' = [undo EXCEPT ![a] = Rest]
    /\ UNCHANGED <<txOf, txStatus, records>>

RollbacksNext ==
    \/ \E s \in {"SUCCESS", "FAILED"} : settleTx(s)
    \/ \E a \in Admins :
        \/ lookForRecord(a) \/ insertRecord(a) \/ undoBreaksOff(a)
        \/ \E t \in TxIds : rollback(a, t) \/ insertRollbackTx(a, t)

RollbacksSpec == RollbacksInit /\ [][RollbacksNext]_rollbackVars

----------------------------------------------------------------------------
(* Type invariant. *)
RollbacksTypeOK ==
    /\ txOf \in [TxIds -> TxIds \cup {NoTx}]
    /\ txStatus \in [TxIds -> {"PENDING", "SUCCESS", "FAILED"}]
    /\ records \subseteq TxIds \X TxIds
    /\ undo \in [Admins -> [tx : TxIds \cup {NoTx}, at : {"rest", "look", "insert", "record"},
                            new : TxIds \cup {NoTx}]]
    /\ crossed \subseteq TxIds

(* The transactions that roll t back. *)
RollbacksOf(t) == {n \in TxIds \ {t} : txOf[n] = t}

(* A transaction, a rollback included, is rolled back at most once, and a  *)
(* settled rollback is on record, unless two rollbacks of the transaction  *)
(* overlapped or one broke off between its two inserts.                    *)
RolledBackOnce ==
    \A t \in TxIds \ crossed :
        /\ Cardinality(RollbacksOf(t)) <= 1
        /\ Underway(t) = {} => \A n \in RollbacksOf(t) : <<t, n>> \in records
============================================================================
