--------------------------- MODULE LedgerReports ---------------------------
(***************************************************************************)
(* What is computed from the records of one account in one currency while  *)
(* they change: the statement of a period (src/statements), and the two    *)
(* nightly comparisons of the wallet with its transactions                 *)
(* (src/reconciliation).  None of them reads in one database transaction.  *)
(* A behaviour is about a statement or about a comparison.                 *)
(*                                                                         *)
(* A statement is abstracted to the movements that its opening balance and *)
(* its lines add up.  Amounts are in sub-units, the balance in cents.  The *)
(* clock counts instants, DayLength to the day; the period of a statement  *)
(* is given in days (with a DayLength of one, in instants).                *)
(***************************************************************************)
EXTENDS Money, FiniteSetsExt

CONSTANTS Moves,
          Amounts, Fee,         \* in sub-units
          DayLength, LastInstant

ASSUME LedgerReportsAssumption ==
    /\ LastInstant \in Nat /\ DayLength \in Nat \ {0}
    /\ IsFiniteSet(Moves) /\ Amounts \subseteq Nat /\ Fee \in Nat

VARIABLES kind,         \* per movement, or "none"
          amount,       \* the amount of its row
          dated,        \* its createdAt or executedAt
          rowOf,        \* its row: "none", "pending", "completed", "other", "archived"
          applied,      \* the movements that were made in the wallet
          balance,      \* the wallet's balance
          clock,
          statement,    \* the statement being built
          throughout,   \* history: rows there since it was begun
          audit,        \* a nightly job: what it read and found
          moved         \* history: something moved since it read the wallet

ledgerVars == <<kind, amount, dated, rowOf, applied, balance, clock, statement, throughout, audit, moved>>

Instants == 0..LastInstant
Days == {day \in Instants : day * DayLength \in Instants}

(* A transfer received; a transfer sent; a withdrawal or a swap into       *)
(* another currency, whose row names the account as its receiver too.  No  *)
(* deposit gets as far as its row.                                         *)
TxKinds == {"received", "sent", "withdrawn"}
FxKinds == {"fxIn", "fxOut"}
(* Without a row in this currency: referral rewards, POST adjust-balance,  *)
(* sweeps, the credit of a swap, the refund of a failed withdrawal.        *)
BareKinds == {"bareIn", "bareOut"}
Kinds == TxKinds \cup FxKinds \cup BareKinds

(* What a movement adds to the wallet. *)
Delta(m) == CASE kind[m] \in {"received", "fxIn", "bareIn"} -> amount[m]
              [] kind[m] \in {"sent", "fxOut", "bareOut"} -> -amount[m]
              [] kind[m] = "withdrawn" -> -(amount[m] + Fee)
              [] OTHER -> 0

Statuses == {"pending", "completed", "other"}
InTable == {m \in Moves : rowOf[m] \in Statuses}
txRows == {m \in InTable : kind[m] \in TxKinds}
fxRows == {m \in InTable : kind[m] \in FxKinds}

NoStatement == [stage |-> "none", from |-> 0, to |-> 0, lines |-> {}, opening |-> {}]
NoAudit == [stage |-> "none", stored |-> 0, verdict |-> "none"]

LedgerInit ==
    /\ kind = [m \in Moves |-> "none"]
    /\ amount = [m \in Moves |-> 0]
    /\ dated = [m \in Moves |-> 0]
    /\ rowOf = [m \in Moves |-> "none"]
    /\ applied = {}
    /\ balance = 0
    /\ clock = 0
    /\ statement = NoStatement
    /\ throughout = {}
    /\ audit = NoAudit
    /\ moved = FALSE

ReportsUnchanged == UNCHANGED <<statement, audit>>
RecordsUnchanged == UNCHANGED <<kind, amount, dated, rowOf, applied, balance, clock>>
Noticed == moved' = (audit.stage # "none")
----------------------------------------------------------------------------
(* The movements.  A row carries the start of the transaction that inserts *)
(* it: a date of the instant before may become visible now.                *)

record(m, k, a, instant) ==
    /\ kind[m] = "none" /\ instant \in {clock - 1, clock} \cap Instants
    /\ kind' = [kind EXCEPT ![m] = k]
    /\ amount' = [amount EXCEPT ![m] = a]
    /\ dated' = [dated EXCEPT ![m] = instant]
    /\ rowOf' = [rowOf EXCEPT ![m] = CASE k \in TxKinds -> "pending"
                                       [] k \in FxKinds -> "completed"
                                       [] OTHER -> "none"]
    /\ Noticed
    /\ UNCHANGED <<applied, balance, clock, throughout>> /\ ReportsUnchanged

(* The balance is adjusted on a connection of its own, rounded to the cent *)
(* and never below zero; the legs of a trade are not awaited.              *)
apply(m) ==
    /\ kind[m] # "none" /\ m \notin applied
    /\ NewBalance(balance, Delta(m)) >= 0
    /\ balance' = NewBalance(balance, Delta(m))
    /\ applied' = applied \cup {m}
    /\ Noticed
    /\ UNCHANGED <<kind, amount, dated, rowOf, clock, throughout>> /\ ReportsUnchanged

complete(m) ==
    /\ rowOf[m] = "pending" /\ m \in applied
    /\ rowOf' = [rowOf EXCEPT ![m] = "completed"]
    /\ Noticed
    /\ UNCHANGED <<kind, amount, dated, applied, balance, clock, throughout>> /\ ReportsUnchanged

(* An administrator may write any status, and moves no money; a failure, a *)
(* cancellation and a reversal write theirs.                               *)
overrideTransactionStatus(m, status) ==
    /\ m \in txRows
    /\ rowOf' = [rowOf EXCEPT ![m] = status]
    /\ Noticed
    /\ UNCHANGED <<kind, amount, dated, applied, balance, clock, throughout>> /\ ReportsUnchanged

archiveRow(m) ==
    /\ m \in txRows /\ dated[m] < clock
    /\ rowOf' = [rowOf EXCEPT ![m] = "archived"]
    /\ throughout' = throughout \ {m}
    /\ Noticed
    /\ UNCHANGED <<kind, amount, dated, applied, balance, clock>> /\ ReportsUnchanged

passInstant ==
    /\ clock < LastInstant
    /\ clock' = clock + 1
    /\ UNCHANGED <<kind, amount, dated, rowOf, applied, balance, throughout, moved>>
    /\ ReportsUnchanged
----------------------------------------------------------------------------
(* StatementsService: four queries, one after the other. *)

OtherUnchanged == RecordsUnchanged /\ UNCHANGED <<audit, moved>>

(* new Date of a day: its first instant. *)
Midnight(day) == day * DayLength

(* A range of more than 31 days is built by a job, later but alike. *)
generateStatement(from, to) ==
    /\ statement.stage = "none" /\ audit.stage = "none"
    /\ statement' = [NoStatement EXCEPT !.stage = "txLines", !.from = Midnight(from),
                                        !.to = Midnight(to)]
    /\ throughout' = InTable
    /\ OtherUnchanged

InPeriod(m) == dated[m] >= statement.from /\ dated[m] <= statement.to

(* Mutant: the opening balance includes the first instant. *)
BeforeOrOn(m) == dated[m] <= statement.from
Before(m) == dated[m] < statement.from

collectStatementLines(stage, rows, next) ==
    /\ statement.stage = stage
    /\ statement' = [statement EXCEPT !.stage = next,
                                      !.lines = @ \cup {m \in rows : InPeriod(m)}]
    /\ UNCHANGED throughout /\ OtherUnchanged

calculateBalanceBefore(stage, rows, next) ==
    /\ statement.stage = stage
    /\ statement' = [statement EXCEPT !.stage = next,
                                      !.opening = @ \cup {m \in rows : Before(m)}]
    /\ UNCHANGED throughout /\ OtherUnchanged

buildStatement ==
    \/ collectStatementLines("txLines", txRows, "fxLines")
    \/ collectStatementLines("fxLines", fxRows, "txBefore")
    \/ calculateBalanceBefore("txBefore", txRows, "fxBefore")
    \/ calculateBalanceBefore("fxBefore", fxRows, "done")
----------------------------------------------------------------------------
(* ReconciliationService and LedgerVerificationService: a wallet is read,  *)
(* then its transactions are.                                              *)

readWallet ==
    /\ audit.stage \in {"none", "done"} /\ statement.stage = "none"
    /\ audit' = [NoAudit EXCEPT !.stage = "ledger", !.stored = balance]
    /\ moved' = FALSE
    /\ RecordsUnchanged /\ UNCHANGED <<statement, throughout>>

(* Only rows that name the account as their receiver are added up. *)
Counted == {m \in txRows : kind[m] \in {"received", "withdrawn"} /\ rowOf[m] = "completed"}

(* Mutant: the status is not looked at. *)
LedgerBalanceOfAll == MapThenSumSet(LAMBDA m : amount[m],
                                    {m \in txRows : kind[m] \in {"received", "withdrawn"}})
LedgerBalance == MapThenSumSet(LAMBDA m : amount[m], Counted)

(* Mutant: no more than what one rounding may add. *)
HalfTolerance == HalfCent
TOLERANCE == SubUnits       \* one cent

compare ==
    /\ audit.stage = "ledger"
    /\ LET diff == LedgerBalance - SubUnits * audit.stored
       IN audit' = [audit EXCEPT
            !.stage = "done",
            !.verdict = IF diff \in -TOLERANCE..TOLERANCE THEN "balanced" ELSE "discrepancy"]
    /\ RecordsUnchanged /\ UNCHANGED <<statement, throughout, moved>>

LedgerNext ==
    \/ \E m \in Moves : \/ \E k \in Kinds, a \in Amounts, instant \in Instants : record(m, k, a, instant)
                        \/ apply(m) \/ complete(m) \/ archiveRow(m)
                        \/ \E status \in Statuses : overrideTransactionStatus(m, status)
    \/ passInstant
    \/ \E from, to \in Days : generateStatement(from, to)
    \/ buildStatement
    \/ readWallet \/ compare

LedgerSpec == LedgerInit /\ [][LedgerNext]_ledgerVars

----------------------------------------------------------------------------
(* Type invariant. *)
LedgerTypeOK ==
    /\ kind \in [Moves -> Kinds \cup {"none"}]
    /\ amount \in [Moves -> Nat]
    /\ dated \in [Moves -> Instants]
    /\ rowOf \in [Moves -> Statuses \cup {"none", "archived"}]
    /\ applied \subseteq Moves
    /\ balance \in Nat
    /\ clock \in Instants
    /\ statement \in [stage : {"none", "txLines", "fxLines", "txBefore", "fxBefore", "done"},
                      from : Instants, to : Instants, lines : SUBSET Moves, opening : SUBSET Moves]
    /\ throughout \subseteq Moves
    /\ audit \in [stage : {"none", "ledger", "done"}, stored : Nat,
                  verdict : {"none", "balanced", "discrepancy"}]
    /\ moved \in BOOLEAN

(* A statement whose period is not empty counts no movement twice, whether *)
(* it falls on a boundary or is recorded between two of the queries, and   *)
(* counts every row that was there throughout and is dated no later than   *)
(* the start of its last day; of the rest of that day it counts nothing.   *)
StatementCountsOnce ==
    statement.stage = "done" /\ statement.from <= statement.to =>
        /\ statement.opening \cap statement.lines = {}
        /\ \A m \in throughout :
            m \in statement.opening \cup statement.lines <=> dated[m] <= statement.to

(* A nightly job reports a wallet only for a reason.  Something moved      *)
(* since it read the wallet; or the completed receipts it adds up are not  *)
(* what the wallet was moved by, because of a movement with another sign   *)
(* or no such row, a row that is not completed or is archived, or a status *)
(* that was written without a movement; or the wallet's rounding of each   *)
(* movement added up to more than a cent, which takes three receipts that  *)
(* are not whole cents.                                                    *)
DiscrepancyHasACause ==
    audit.verdict = "discrepancy" /\ ~moved =>
        \/ applied # Counted
        \/ \E m \in Counted : kind[m] # "received"
        \/ Cardinality({m \in applied : ~WholeCents(amount[m])}) > 2

(* What statements and the nightly comparisons may be relied on for. *)
ReportsAreFounded == StatementCountsOnce /\ DiscrepancyHasACause
============================================================================
