------------------------- MODULE TransactionsProofs -------------------------
(***************************************************************************)
(* Theorems about Transactions, for any sets of users, currencies,         *)
(* references, amounts and requests, and any number of retries.            *)
(***************************************************************************)
EXTENDS Transactions, MoneyProofs

PaymentSteps == {"check", "insert", "receipt", "debit", "credit", "complete",
                 "cache", "fee", "retry", "refund", "fail"}

(* What is known of a payment from the step it is at. *)
AtStep(r) ==
    /\ pc[r] \in PaymentSteps => r \notin Deposits
    /\ pc[r] \in {"idle", "check", "insert"} => status[r] = None
    /\ pc[r] \in {"receipt", "debit"} =>
          status[r] # None /\ mem[r] = "pending"
    /\ status[r] = None \/ pc[r] \in {"receipt", "debit"} =>
          debited[r] = 0 /\ credited[r] = 0 /\ refunded[r] = 0
          /\ mem[r] = "pending" /\ attempt[r] = 0
    /\ pc[r] = "credit" =>
          /\ r \in Transfers \cup Swaps
          /\ debited[r] = 1 /\ refunded[r] = 0
          /\ r \in Transfers => credited[r] = 0
          /\ r \in Swaps =>
                credited[r] <= attempt[r] /\ attempt[r] < MAX_RETRIES
    /\ pc[r] = "complete" =>
          /\ debited[r] = 1 /\ refunded[r] = 0 /\ mem[r] = "completed"
          /\ r \in Transfers => credited[r] = 1
          /\ r \in Withdrawals => credited[r] = 0
    /\ pc[r] \in {"complete", "fee"} /\ r \in Swaps =>
          credited[r] >= 1 /\ credited[r] <= attempt[r] + 1
          /\ attempt[r] < MAX_RETRIES
    /\ pc[r] = "cache" => r \in Withdrawals
    /\ pc[r] \in {"fee", "retry"} => r \in Swaps
    /\ pc[r] \in {"cache", "fee", "retry", "refund"} =>
          debited[r] = 1 /\ refunded[r] = 0 /\ mem[r] # "failed"
    /\ pc[r] = "retry" => credited[r] <= attempt[r]
    /\ pc[r] \in {"refund", "fail"} => r \in Withdrawals \cup Swaps
    /\ pc[r] = "fail" => debited[r] = 1 /\ refunded[r] = 1
    /\ pc[r] = "ok" /\ r \notin Transfers =>
          /\ debited[r] = 1 /\ refunded[r] = 0
          /\ r \in Swaps => credited[r] >= 1

(* What is known of a payment from its row and from its entity. *)
AtStatus(r) ==
    /\ pc[r] \in PaymentSteps \/ status[r] # None =>
          from[r] \in Keys /\ to[r] \in Keys
    /\ r \in Transfers /\ (status[r] = "completed" \/ mem[r] = "completed") =>
          debited[r] = 1 /\ credited[r] = 1
    /\ status[r] = "failed" \/ mem[r] = "failed" =>
          debited[r] = 1 /\ refunded[r] = 1
    /\ debited[r] <= 1 /\ refunded[r] <= debited[r]
    /\ credited[r] <= MAX_RETRIES /\ (debited[r] = 0 => credited[r] = 0)
    /\ reversalRow[r] => repaid[r] >= 1 /\ recovered[r] >= 1

(* An editor's entity is a copy of a row, and what was true of the row's   *)
(* status stays true of it.                                                *)
EditorInv(x) ==
    pc[x] \in {"reload", "update"} =>
        /\ target[x] \in Payments /\ status[target[x]] # None
        /\ mem[x] = "completed" /\ target[x] \in Transfers =>
              debited[target[x]] = 1 /\ credited[target[x]] = 1
        /\ mem[x] = "failed" =>
              debited[target[x]] = 1 /\ refunded[target[x]] = 1

ReverserInv(x) ==
    /\ pc[x] \in {"repay", "recover", "commit"} =>
          target[x] \in Payments /\ status[target[x]] # None
    /\ pc[x] \in {"recover", "commit"} => repaid[target[x]] >= 1
    /\ pc[x] = "commit" => recovered[target[x]] >= 1
    /\ pc[x] = "ok" => target[x] \in Payments /\ reversalRow[target[x]]

ReferencesUnique ==
    \A r, q \in Payments :
        r # q /\ status[r] # None /\ status[q] # None => ref[r] # ref[q]

OneOk == \A x, y \in Reversers :
            pc[x] = "ok" /\ pc[y] = "ok" /\ target[x] = target[y] => x = y

(* Each kind of request has steps of its own. *)
StepsOK == /\ \A r \in Payments :
                 pc[r] \in PaymentSteps \cup Outcomes \cup {"idle"}
           /\ \A x \in Editors :
                 pc[x] \in {"idle", "reload", "update"} \cup Outcomes
           /\ \A x \in Reversers :
                 pc[x] \in {"idle", "repay", "recover", "commit"} \cup Outcomes

TInv == /\ TypeOK
        /\ StepsOK
        /\ \A r \in Payments : AtStep(r)
        /\ \A r \in Payments : AtStatus(r)
        /\ \A x \in Editors : EditorInv(x)
        /\ \A x \in Reversers : ReverserInv(x)
        /\ ReferencesUnique
        /\ OneOk

(* The types of the amounts that move. *)
LEMMA AmountTypes ==
    ASSUME TypeOK, NEW r \in Payments
    PROVE  total(r) \in Nat /\ credit(r) \in Nat
  <1>1. amount[r] \in Nat /\ toAmount[r] \in Nat
    BY DEF TypeOK
  <1>2. calculateFee(amount[r]) \in Nat
    <2> DEFINE a == amount[r]
               q == a \div FeeDivisor
    <2>1. FeeDivisor \in Nat \ {0}
      BY TransactionsAssumption
    <2>2. a \in Nat
      BY <1>1
    <2> HIDE DEF a
    <2>3. q \in Int /\ a < FeeDivisor * q + FeeDivisor
      BY <2>1, <2>2, DivFacts
    <2> HIDE DEF q
    <2>4. q >= 0
      <3> SUFFICES ASSUME q <= -1 PROVE FALSE
        BY <2>3
      <3>1. FeeDivisor * q <= -FeeDivisor
        BY <2>1, <2>3
      <3>2. FeeDivisor * q \in Int
        BY <2>1, <2>3
      <3> QED BY <2>1, <2>2, <2>3, <3>1, <3>2
    <2> QED BY <2>3, <2>4 DEF q, a, calculateFee
  <1> QED BY <1>1, <1>2 DEF total, credit

(* adjustBalance keeps balances natural numbers of cents. *)
LEMMA AdjustType ==
    ASSUME TypeOK, NEW k \in Keys, NEW delta \in Int, adjustBalance(k, delta)
    PROVE  bal' \in [Keys -> Nat]
  <1>1. bal[k] \in Int /\ bal[k] \in Nat
    BY DEF TypeOK
  <1>2. SubUnits * bal[k] + delta \in Int
    BY <1>1, HalfCentAssumption DEF SubUnits
  <1>3. NewBalance(bal[k], delta) \in Int
    BY <1>2, RoundCentsError DEF NewBalance
  <1>4. NewBalance(bal[k], delta) \in Nat
    BY <1>3 DEF adjustBalance
  <1> QED BY <1>4 DEF adjustBalance, TypeOK

(* The inductive invariant holds initially. *)
LEMMA TInvInit == Init => TInv
  <1> SUFFICES ASSUME Init PROVE TInv
    OBVIOUS
  <1> USE TransactionsAssumption DEF Init
  <1>1. TypeOK
    BY DEF TypeOK, Steps, Statuses
  <1>2. StepsOK
    BY DEF StepsOK, Requests
  <1>3. \A r \in Payments : AtStep(r)
    BY DEF AtStep, PaymentSteps, Requests
  <1>4. \A r \in Payments : AtStatus(r)
    BY DEF AtStatus, PaymentSteps, Requests, Statuses
  <1>5. /\ \A x \in Editors : EditorInv(x)
        /\ \A x \in Reversers : ReverserInv(x)
    BY DEF EditorInv, ReverserInv, Requests
  <1>6. ReferencesUnique /\ OneOk
    BY DEF ReferencesUnique, OneOk, Requests
  <1> QED BY <1>1, <1>2, <1>3, <1>4, <1>5, <1>6 DEF TInv

(***************************************************************************)
(* A step is of one request a and touches one row d at most.               *)
(***************************************************************************)
(* What the invariant says of the row q is said of these. *)
Same(q) ==
    /\ pc'[q] = pc[q] /\ mem'[q] = mem[q] /\ attempt'[q] = attempt[q]
    /\ status'[q] = status[q] /\ reversalRow'[q] = reversalRow[q]
    /\ ref'[q] = ref[q] /\ from'[q] = from[q] /\ to'[q] = to[q]
    /\ debited'[q] = debited[q] /\ credited'[q] = credited[q]
    /\ refunded'[q] = refunded[q]
    /\ repaid[q] >= 1 => repaid'[q] >= 1
    /\ recovered[q] >= 1 => recovered'[q] >= 1

Touches(a, d) ==
    /\ \A z \in Requests \ {a} :
          pc'[z] = pc[z] /\ mem'[z] = mem[z] /\ target'[z] = target[z]
    /\ \A q \in Payments \ {d} : Same(q)

(* What an editor or a reverser knows of its row is not taken back. *)
Grows(d) ==
    /\ status[d] # None => status'[d] # None
    /\ d \in Transfers /\ debited[d] = 1 /\ credited[d] = 1 =>
          debited'[d] = 1 /\ credited'[d] = 1
    /\ debited[d] = 1 /\ refunded[d] = 1 => debited'[d] = 1 /\ refunded'[d] = 1
    /\ repaid[d] >= 1 => repaid'[d] >= 1
    /\ recovered[d] >= 1 => recovered'[d] >= 1
    /\ reversalRow[d] => reversalRow'[d]

(* The row's reference is its own. *)
Own(d) ==
    status'[d] # None =>
        \/ status[d] # None /\ ref'[d] = ref[d]
        \/ \A q \in Payments \ {d} : status[q] # None => ref[q] # ref'[d]

(* The request goes on within its own steps. *)
Actor(a) ==
    /\ a \in Payments => pc'[a] \in PaymentSteps \cup Outcomes \cup {"idle"}
    /\ a \in Editors =>
          /\ pc'[a] \in {"idle", "reload", "update"} \cup Outcomes
          /\ EditorInv(a)'
    /\ a \in Reversers =>
          /\ pc'[a] \in {"idle", "repay", "recover", "commit"} \cup Outcomes
          /\ ReverserInv(a)'
          /\ pc'[a] = "ok" => ~reversalRow[target'[a]]

(* A row that a step does not touch keeps its part of the invariant. *)
LEMMA SameKeeps ==
    ASSUME NEW q \in Payments, AtStep(q), AtStatus(q), Same(q)
    PROVE  AtStep(q)' /\ AtStatus(q)'
  <1>1. AtStep(q)'
    BY DEF AtStep, Same
  <1>2. AtStatus(q)'
    BY DEF AtStatus, Same
  <1> QED BY <1>1, <1>2

(* A row that a step does not touch grows. *)
LEMMA SameGrows ==
    ASSUME NEW q, Same(q)
    PROVE  Grows(q)
  BY DEF Same, Grows

(* The invariant of all from that of the request and of the row. *)
LEMMA Frame ==
    ASSUME TInv, TypeOK', NEW a \in Requests, NEW d \in Payments,
           Touches(a, d), AtStep(d)', AtStatus(d)', Grows(d), Own(d), Actor(a)
    PROVE  TInv'
  <1>1. \A q \in Payments : AtStep(q)' /\ AtStatus(q)'
    BY SameKeeps DEF TInv, Touches
  <1>2. \A q \in Payments : Grows(q)
    BY SameGrows DEF Touches
  <1>3. StepsOK'
    BY DEF TInv, StepsOK, Touches, Actor, Requests
  <1>4. ASSUME NEW y \in Editors PROVE EditorInv(y)'
    <2>1. CASE y = a
      BY <2>1 DEF Actor
    <2>2. CASE y # a
      <3>1. pc'[y] = pc[y] /\ mem'[y] = mem[y] /\ target'[y] = target[y]
        BY <2>2 DEF Touches, Requests
      <3> QED BY <1>2, <3>1 DEF TInv, EditorInv, Grows
    <2> QED BY <2>1, <2>2
  <1>5. ASSUME NEW y \in Reversers PROVE ReverserInv(y)'
    <2>1. CASE y = a
      BY <2>1 DEF Actor
    <2>2. CASE y # a
      <3>1. pc'[y] = pc[y] /\ target'[y] = target[y]
        BY <2>2 DEF Touches, Requests
      <3> QED BY <1>2, <3>1 DEF TInv, ReverserInv, Grows
    <2> QED BY <2>1, <2>2
  <1>6. ReferencesUnique'
    <2> SUFFICES ASSUME NEW r \in Payments, NEW q \in Payments, r # q,
                        status'[r] # None, status'[q] # None
                 PROVE  ref'[r] # ref'[q]
      BY DEF ReferencesUnique
    <2>1. \A p \in Payments \ {d} : status'[p] = status[p] /\ ref'[p] = ref[p]
      BY DEF Touches, Same
    <2> QED BY <2>1 DEF Own, TInv, ReferencesUnique
  <1>7. OneOk'
    <2> SUFFICES ASSUME NEW x \in Reversers, NEW y \in Reversers,
                        pc'[x] = "ok", pc'[y] = "ok",
                        target'[x] = target'[y], x # y
                 PROVE  FALSE
      BY DEF OneOk
    <2>1. \A z \in Reversers \ {a} : pc'[z] = pc[z] /\ target'[z] = target[z]
      BY DEF Touches, Requests
    <2>2. \A z \in Reversers \ {a} : pc'[z] = "ok" => reversalRow[target'[z]]
      BY <2>1 DEF TInv, ReverserInv
    <2> QED BY <2>1, <2>2 DEF Actor, TInv, OneOk
  <1> QED BY <1>1, <1>3, <1>4, <1>5, <1>6, <1>7 DEF TInv

(* CheckBalance preserves the inductive invariant. *)
LEMMA CheckBalanceStep ==
    ASSUME TInv, NEW r \in Payments, CheckBalance(r)
    PROVE  TInv'
  <1> USE TransactionsAssumption DEF TInv
  <1> USE DEF TypeOK, Requests, Statuses, Outcomes, CheckBalance, Goto, args,
      columns, entity, legs, undos
  <1>1. TypeOK'
    BY DEF Steps
  <1>2. Touches(r, r)
    BY DEF Touches, Same
  <1>3. AtStep(r)'
    BY DEF AtStep, AtStatus, PaymentSteps, Payments
  <1>4. AtStatus(r)'
    BY DEF AtStep, AtStatus, PaymentSteps, Payments
  <1>5. Grows(r) /\ Own(r)
    BY DEF Grows, Own, AtStep
  <1>6. Actor(r)
    BY DEF Actor, PaymentSteps, Editors
  <1> QED BY <1>1, <1>2, <1>3, <1>4, <1>5, <1>6, Frame

(* Insert preserves the inductive invariant. *)
LEMMA InsertStep ==
    ASSUME TInv, NEW r \in Payments, Insert(r)
    PROVE  TInv'
  <1> USE TransactionsAssumption DEF TInv
  <1> USE DEF TypeOK, Requests, Statuses, Outcomes, Insert, Goto, save, args,
      entity, legs, undos
  <1>1. TypeOK'
    <2>1. status' \in [Payments -> Statuses \cup {None}]
      OBVIOUS
    <2>2. PICK s \in {"debit", "receipt", "failed"} : Goto(r, s)
      OBVIOUS
    <2>3. pc' \in [Requests -> Steps \cup Outcomes]
      BY <2>2 DEF Steps
    <2> QED BY <2>1, <2>3
  <1>2. Touches(r, r)
    BY DEF Touches, Same
  <1>3. AtStep(r)'
    BY DEF AtStep, AtStatus, PaymentSteps, Payments
  <1>4. AtStatus(r)'
    BY DEF AtStep, AtStatus, PaymentSteps, Payments
  <1>5. Grows(r) /\ Own(r)
    BY DEF Grows, Own, AtStep
  <1>6. Actor(r)
    BY DEF Actor, PaymentSteps, Editors
  <1> QED BY <1>1, <1>2, <1>3, <1>4, <1>5, <1>6, Frame

(* generateReceiptNumber preserves the inductive invariant. *)
LEMMA ReceiptStep ==
    ASSUME TInv, NEW r \in Payments, generateReceiptNumber(r)
    PROVE  TInv'
  <1> USE TransactionsAssumption DEF TInv
  <1> USE DEF TypeOK, Requests, Statuses, Outcomes, generateReceiptNumber,
      Goto, save, args, entity, legs, undos
  <1>1. TypeOK'
    BY DEF Steps
  <1>2. Touches(r, r)
    BY DEF Touches, Same
  <1>3. AtStep(r)'
    BY DEF AtStep, AtStatus, PaymentSteps, Payments
  <1>4. AtStatus(r)'
    BY DEF AtStep, AtStatus, PaymentSteps, Payments
  <1>5. Grows(r) /\ Own(r)
    BY DEF Grows, Own, AtStep
  <1>6. Actor(r)
    BY DEF Actor, PaymentSteps, Editors
  <1> QED BY <1>1, <1>2, <1>3, <1>4, <1>5, <1>6, Frame

(* Where a throw leads. *)
LEMMA CatchCases ==
    ASSUME NEW r
    PROVE  /\ r \in Transfers /\ pc[r] \in {"debit", "credit", "complete"}
                 => Catch(r) = "ok"
           /\ r \in Withdrawals /\ pc[r] \in {"complete", "cache"}
                 => Catch(r) = "refund"
           /\ r \in Swaps /\ pc[r] \in {"credit", "complete", "fee"}
                 => Catch(r) = "retry"
           /\ \/ r \in Transfers /\ pc[r] \in {"debit", "credit", "complete"}
              \/ r \in Withdrawals /\ pc[r] \in {"complete", "cache"}
              \/ r \in Swaps /\ pc[r] \in {"credit", "complete", "fee"}
              \/ Catch(r) = "failed"
  BY TransactionsAssumption DEF Catch

(* Refuse preserves the inductive invariant. *)
LEMMA RefuseStep ==
    ASSUME TInv, NEW r \in Payments, Refuse(r)
    PROVE  TInv'
  <1> USE TransactionsAssumption DEF TInv
  <1> USE DEF TypeOK, Requests, Statuses, Outcomes, Refuse, Goto, args,
      columns, entity, legs, undos
  <1>1. TypeOK'
    BY DEF Steps
  <1>2. Touches(r, r)
    BY DEF Touches, Same
  <1>3. AtStep(r)'
    BY DEF AtStep, AtStatus, PaymentSteps, Payments
  <1>4. AtStatus(r)'
    BY DEF AtStep, AtStatus, PaymentSteps, Payments
  <1>5. Grows(r) /\ Own(r)
    BY DEF Grows, Own, AtStep
  <1>6. Actor(r)
    BY DEF Actor, PaymentSteps, Editors
  <1> QED BY <1>1, <1>2, <1>3, <1>4, <1>5, <1>6, Frame

(* transfer preserves the inductive invariant. *)
LEMMA TransferStep ==
    ASSUME TInv, NEW r \in Payments,
        NEW u \in Users, NEW c \in Currencies, NEW a \in Amounts,
        NEW reference \in References, NEW v \in Users,
        transfer(r, u, v, c, a, reference)
    PROVE  TInv'
  <1> USE TransactionsAssumption DEF TInv
  <1> USE DEF TypeOK, Requests, Statuses, Outcomes, transfer, Arrive, Goto,
      Keys, columns, entity, legs, undos
  <1>1. TypeOK'
    BY DEF Steps
  <1>2. Touches(r, r)
    BY DEF Touches, Same
  <1>3. AtStep(r)'
    BY DEF AtStep, AtStatus, PaymentSteps, Payments
  <1>4. AtStatus(r)'
    BY DEF AtStep, AtStatus, PaymentSteps, Payments
  <1>5. Grows(r) /\ Own(r)
    BY DEF Grows, Own, AtStep
  <1>6. Actor(r)
    BY DEF Actor, PaymentSteps, Editors
  <1> QED BY <1>1, <1>2, <1>3, <1>4, <1>5, <1>6, Frame

(* createWithdrawal preserves the inductive invariant. *)
LEMMA WithdrawalStep ==
    ASSUME TInv, NEW r \in Payments,
        NEW u \in Users, NEW c \in Currencies, NEW a \in Amounts,
        NEW reference \in References, createWithdrawal(r, u, c, a, reference)
    PROVE  TInv'
  <1> USE TransactionsAssumption DEF TInv
  <1> USE DEF TypeOK, Requests, Statuses, Outcomes, createWithdrawal, Arrive,
      Goto, Keys, columns, entity, legs, undos
  <1>1. TypeOK'
    BY DEF Steps
  <1>2. Touches(r, r)
    BY DEF Touches, Same
  <1>3. AtStep(r)'
    BY DEF AtStep, AtStatus, PaymentSteps, Payments
  <1>4. AtStatus(r)'
    BY DEF AtStep, AtStatus, PaymentSteps, Payments
  <1>5. Grows(r) /\ Own(r)
    BY DEF Grows, Own, AtStep
  <1>6. Actor(r)
    BY DEF Actor, PaymentSteps, Editors
  <1> QED BY <1>1, <1>2, <1>3, <1>4, <1>5, <1>6, Frame

(* createDeposit preserves the inductive invariant. *)
LEMMA DepositStep ==
    ASSUME TInv, NEW r \in Payments,
        NEW u \in Users, NEW c \in Currencies, NEW a \in Amounts,
        NEW reference \in References, createDeposit(r, u, c, a, reference)
    PROVE  TInv'
  <1> USE TransactionsAssumption DEF TInv
  <1> USE DEF TypeOK, Requests, Statuses, Outcomes, createDeposit, Arrive,
      Goto, Keys, columns, entity, legs, undos
  <1>1. TypeOK'
    BY DEF Steps
  <1>2. Touches(r, r)
    BY DEF Touches, Same
  <1>3. AtStep(r)'
    BY DEF AtStep, AtStatus, PaymentSteps, Payments
  <1>4. AtStatus(r)'
    BY DEF AtStep, AtStatus, PaymentSteps, Payments
  <1>5. Grows(r) /\ Own(r)
    BY DEF Grows, Own, AtStep
  <1>6. Actor(r)
    BY DEF Actor, PaymentSteps, Editors
  <1> QED BY <1>1, <1>2, <1>3, <1>4, <1>5, <1>6, Frame

(* createSwap preserves the inductive invariant. *)
LEMMA SwapStep ==
    ASSUME TInv, NEW r \in Payments,
        NEW u \in Users, NEW c \in Currencies, NEW a \in Amounts,
        NEW reference \in References,
        NEW d \in Currencies, NEW b \in Amounts,
        createSwap(r, u, c, d, a, b, reference)
    PROVE  TInv'
  <1> USE TransactionsAssumption DEF TInv
  <1> USE DEF TypeOK, Requests, Statuses, Outcomes, createSwap, Arrive, Goto,
      Keys, columns, entity, legs, undos
  <1>1. TypeOK'
    BY DEF Steps
  <1>2. Touches(r, r)
    BY DEF Touches, Same
  <1>3. AtStep(r)'
    BY DEF AtStep, AtStatus, PaymentSteps, Payments
  <1>4. AtStatus(r)'
    BY DEF AtStep, AtStatus, PaymentSteps, Payments
  <1>5. Grows(r) /\ Own(r)
    BY DEF Grows, Own, AtStep
  <1>6. Actor(r)
    BY DEF Actor, PaymentSteps, Editors
  <1> QED BY <1>1, <1>2, <1>3, <1>4, <1>5, <1>6, Frame

(* Debit preserves the inductive invariant. *)
LEMMA DebitStep ==
    ASSUME TInv, NEW r \in Payments, Debit(r)
    PROVE  TInv'
  <1> USE TransactionsAssumption DEF TInv
  <1>k. from[r] \in Keys /\ total(r) \in Nat
    BY AmountTypes DEF Debit, AtStatus, PaymentSteps
  <1>l. adjustBalance(from[r], -total(r))
    BY DEF Debit
  <1>m. bal' \in [Keys -> Nat]
    BY <1>k, <1>l, AdjustType
  <1>n. PICK s \in {"complete", "credit", "ok", "failed"} :
           /\ Goto(r, s)
           /\ s = "complete" => r \in Withdrawals
           /\ s = "credit" => r \in Transfers \cup Swaps
           /\ s = "ok" => r \in Transfers
           /\ attempt' = attempt
           /\ mem' = [mem EXCEPT ![r] =
                        IF s = "complete" THEN "completed" ELSE @]
    <2>1. r \in Transfers \cup Withdrawals \cup Swaps
      BY DEF Debit, AtStep, PaymentSteps, Payments
    <2>2. CASE Throw(r) /\ UNCHANGED mem
      <3>1. /\ Catch(r) \in {"ok", "failed"}
            /\ Catch(r) = "ok" => r \in Transfers
        BY CatchCases DEF Debit
      <3>2. attempt' = attempt /\ Goto(r, Catch(r)) /\ mem' = mem
        BY <2>2, <3>1 DEF Throw
      <3>3. mem' = [mem EXCEPT ![r] = IF Catch(r) = "complete"
                                        THEN "completed" ELSE @]
        BY <3>1, <3>2 DEF TypeOK, Requests
      <3> QED BY <3>1, <3>2, <3>3
    <2>3. CASE /\ Goto(r, IF r \in Withdrawals THEN "complete" ELSE "credit")
               /\ mem' = [mem EXCEPT ![r] =
                            IF r \in Withdrawals THEN "completed" ELSE @]
               /\ UNCHANGED attempt
      BY <2>1, <2>3
    <2> QED BY <2>2, <2>3 DEF Debit
  <1>o. /\ pc[r] = "debit" /\ debited' = [debited EXCEPT ![r] = @ + 1]
        /\ UNCHANGED <<columns, args, memReversed, dirty, target, credited,
                       refunded, undos>>
    BY DEF Debit
  <1> USE <1>m, <1>n, <1>o DEF TypeOK, Requests, Statuses, Outcomes, Goto,
      args, columns, undos
  <1>1. TypeOK'
    BY DEF Steps
  <1>2. Touches(r, r)
    BY DEF Touches, Same
  <1>3. AtStep(r)'
    BY DEF AtStep, AtStatus, PaymentSteps, Payments
  <1>4. AtStatus(r)'
    BY DEF AtStep, AtStatus, PaymentSteps, Payments
  <1>5. Grows(r) /\ Own(r)
    BY DEF Grows, Own, AtStep
  <1>6. Actor(r)
    BY DEF Actor, PaymentSteps, Editors
  <1> QED BY <1>1, <1>2, <1>3, <1>4, <1>5, <1>6, Frame

(* Credit preserves the inductive invariant. *)
LEMMA CreditStep ==
    ASSUME TInv, NEW r \in Payments, Credit(r)
    PROVE  TInv'
  <1> USE TransactionsAssumption DEF TInv
  <1>k. to[r] \in Keys /\ credit(r) \in Nat
    BY AmountTypes DEF Credit, AtStatus, PaymentSteps
  <1>l. adjustBalance(to[r], credit(r))
    BY DEF Credit
  <1>m. bal' \in [Keys -> Nat]
    BY <1>k, <1>l, AdjustType
  <1>n. PICK s \in {"complete", "ok", "retry"} :
           /\ Goto(r, s)
           /\ s = "ok" => r \in Transfers
           /\ s = "retry" => r \in Swaps
           /\ attempt' = [attempt EXCEPT ![r] =
                            IF s = "retry" THEN @ + 1 ELSE @]
           /\ mem' = [mem EXCEPT ![r] =
                        IF s = "complete" THEN "completed" ELSE @]
    <2>1. r \in Transfers \cup Swaps
      BY DEF Credit, AtStep
    <2>2. CASE Throw(r) /\ UNCHANGED mem
      <3>1. /\ Catch(r) \in {"ok", "retry"}
            /\ Catch(r) = "ok" => r \in Transfers
            /\ Catch(r) = "retry" => r \in Swaps
        BY <2>1, CatchCases DEF Credit
      <3>2. /\ Goto(r, Catch(r))
            /\ attempt' = [attempt EXCEPT ![r] =
                             IF Catch(r) = "retry" THEN @ + 1 ELSE @]
        BY <2>2, <3>1 DEF Throw, TypeOK
      <3>3. mem' = [mem EXCEPT ![r] = IF Catch(r) = "complete"
                                        THEN "completed" ELSE @]
        BY <2>2, <3>1 DEF TypeOK, Requests
      <3> QED BY <3>1, <3>2, <3>3
    <2>3. CASE /\ Goto(r, "complete")
               /\ mem' = [mem EXCEPT ![r] = "completed"]
               /\ UNCHANGED attempt
      BY <2>3 DEF TypeOK
    <2> QED BY <2>2, <2>3 DEF Credit
  <1>o. /\ pc[r] = "credit" /\ credited' = [credited EXCEPT ![r] = @ + 1]
        /\ UNCHANGED <<columns, args, memReversed, dirty, target, debited,
                       refunded, undos>>
    BY DEF Credit
  <1>p. r \in Swaps => attempt[r] + 1 \in 0..MAX_RETRIES
    BY <1>o DEF AtStep, TypeOK
  <1> USE <1>m, <1>n, <1>o, <1>p DEF TypeOK, Requests, Statuses, Outcomes,
      Goto, args, columns, undos
  <1>1. TypeOK'
    BY DEF Steps
  <1>2. Touches(r, r)
    BY DEF Touches, Same
  <1>3. AtStep(r)'
    BY DEF AtStep, AtStatus, PaymentSteps, Payments
  <1>4. AtStatus(r)'
    BY DEF AtStep, AtStatus, PaymentSteps, Payments
  <1>5. Grows(r) /\ Own(r)
    BY DEF Grows, Own, AtStep
  <1>6. Actor(r)
    BY DEF Actor, PaymentSteps, Editors
  <1> QED BY <1>1, <1>2, <1>3, <1>4, <1>5, <1>6, Frame

(* Refund preserves the inductive invariant. *)
LEMMA RefundStep ==
    ASSUME TInv, NEW r \in Payments, Refund(r)
    PROVE  TInv'
  <1> USE TransactionsAssumption DEF TInv
  <1>k. from[r] \in Keys /\ total(r) \in Nat
    BY AmountTypes DEF Refund, AtStatus, PaymentSteps
  <1>l. adjustBalance(from[r], total(r))
    BY DEF Refund
  <1>m. bal' \in [Keys -> Nat]
    BY <1>k, <1>l, AdjustType
  <1>n. PICK s \in {"fail", "failed"} :
           /\ Goto(r, s)
           /\ mem' = [mem EXCEPT ![r] = IF s = "fail" THEN "failed" ELSE @]
    BY DEF Refund, TypeOK, Requests
  <1>o. /\ pc[r] = "refund" /\ refunded' = [refunded EXCEPT ![r] = @ + 1]
        /\ UNCHANGED <<columns, args, memReversed, dirty, attempt, target,
                       debited, credited, undos>>
    BY DEF Refund
  <1> USE <1>m, <1>n, <1>o DEF TypeOK, Requests, Statuses, Outcomes, Goto,
      args, columns, undos
  <1>1. TypeOK'
    BY DEF Steps
  <1>2. Touches(r, r)
    BY DEF Touches, Same
  <1>3. AtStep(r)'
    BY DEF AtStep, AtStatus, PaymentSteps, Payments
  <1>4. AtStatus(r)'
    BY DEF AtStep, AtStatus, PaymentSteps, Payments
  <1>5. Grows(r) /\ Own(r)
    BY DEF Grows, Own, AtStep
  <1>6. Actor(r)
    BY DEF Actor, PaymentSteps, Editors
  <1> QED BY <1>1, <1>2, <1>3, <1>4, <1>5, <1>6, Frame

(* Complete preserves the inductive invariant. *)
LEMMA CompleteStep ==
    ASSUME TInv, NEW r \in Payments, Complete(r)
    PROVE  TInv'
  <1> USE TransactionsAssumption DEF TInv
  <1>k. r \in Transfers \cup Withdrawals \cup Swaps
    BY DEF Complete, AtStep, PaymentSteps, Payments
  <1> USE <1>k DEF TypeOK, Requests, Statuses, Outcomes, Complete, Goto, save,
      args, entity, legs, undos
  <1>1. TypeOK'
    BY DEF Steps
  <1>2. Touches(r, r)
    BY DEF Touches, Same
  <1>3. AtStep(r)'
    BY DEF AtStep, AtStatus, PaymentSteps, Payments
  <1>4. AtStatus(r)'
    BY DEF AtStep, AtStatus, PaymentSteps, Payments
  <1>5. Grows(r) /\ Own(r)
    BY DEF Grows, Own, AtStep
  <1>6. Actor(r)
    BY DEF Actor, PaymentSteps, Editors
  <1> QED BY <1>1, <1>2, <1>3, <1>4, <1>5, <1>6, Frame

(* AfterComplete preserves the inductive invariant. *)
LEMMA AfterCompleteStep ==
    ASSUME TInv, NEW r \in Payments, AfterComplete(r)
    PROVE  TInv'
  <1> USE TransactionsAssumption DEF TInv
  <1> USE DEF TypeOK, Requests, Statuses, Outcomes, AfterComplete, Goto, args,
      columns, entity, legs, undos
  <1>1. TypeOK'
    BY DEF Steps
  <1>2. Touches(r, r)
    BY DEF Touches, Same
  <1>3. AtStep(r)'
    BY DEF AtStep, AtStatus, PaymentSteps, Payments
  <1>4. AtStatus(r)'
    BY DEF AtStep, AtStatus, PaymentSteps, Payments
  <1>5. Grows(r) /\ Own(r)
    BY DEF Grows, Own, AtStep
  <1>6. Actor(r)
    BY DEF Actor, PaymentSteps, Editors
  <1> QED BY <1>1, <1>2, <1>3, <1>4, <1>5, <1>6, Frame

(* Retry preserves the inductive invariant. *)
LEMMA RetryStep ==
    ASSUME TInv, NEW r \in Payments, Retry(r)
    PROVE  TInv'
  <1> USE TransactionsAssumption DEF TInv
  <1>k. status[r] # None
    BY DEF Retry, AtStep
  <1> USE <1>k DEF TypeOK, Requests, Statuses, Outcomes, Retry, Goto, save,
      args, entity, legs, undos
  <1>1. TypeOK'
    BY DEF Steps
  <1>2. Touches(r, r)
    BY DEF Touches, Same
  <1>3. AtStep(r)'
    BY DEF AtStep, AtStatus, PaymentSteps, Payments
  <1>4. AtStatus(r)'
    BY DEF AtStep, AtStatus, PaymentSteps, Payments
  <1>5. Grows(r) /\ Own(r)
    BY DEF Grows, Own, AtStep
  <1>6. Actor(r)
    BY DEF Actor, PaymentSteps, Editors
  <1> QED BY <1>1, <1>2, <1>3, <1>4, <1>5, <1>6, Frame

(* SaveFailed preserves the inductive invariant. *)
LEMMA SaveFailedStep ==
    ASSUME TInv, NEW r \in Payments, SaveFailed(r)
    PROVE  TInv'
  <1> USE TransactionsAssumption DEF TInv
  <1>k. status[r] # None
    BY DEF SaveFailed, AtStep
  <1> USE <1>k DEF TypeOK, Requests, Statuses, Outcomes, SaveFailed, Goto,
      save, args, entity, legs, undos
  <1>1. TypeOK'
    BY DEF Steps
  <1>2. Touches(r, r)
    BY DEF Touches, Same
  <1>3. AtStep(r)'
    BY DEF AtStep, AtStatus, PaymentSteps, Payments
  <1>4. AtStatus(r)'
    BY DEF AtStep, AtStatus, PaymentSteps, Payments
  <1>5. Grows(r) /\ Own(r)
    BY DEF Grows, Own, AtStep
  <1>6. Actor(r)
    BY DEF Actor, PaymentSteps, Editors
  <1> QED BY <1>1, <1>2, <1>3, <1>4, <1>5, <1>6, Frame

(* Insufficient preserves the inductive invariant. *)
LEMMA InsufficientStep ==
    ASSUME TInv, NEW r \in Payments, Insufficient(r)
    PROVE  TInv'
  <1> USE TransactionsAssumption DEF TInv
  <1>k. /\ Goto(r, Catch(r)) /\ attempt' = attempt
        /\ Catch(r) \in {"ok", "failed"}
        /\ Catch(r) = "ok" => r \in Transfers
    BY CatchCases DEF Insufficient, Throw
  <1>l. /\ pc[r] = "debit"
        /\ UNCHANGED <<bal, columns, args, mem, memReversed, dirty, target,
                       legs, undos>>
    BY DEF Insufficient
  <1> USE <1>k, <1>l DEF TypeOK, Requests, Statuses, Outcomes, Goto, args,
      columns, legs, undos
  <1>1. TypeOK'
    BY DEF Steps
  <1>2. Touches(r, r)
    BY DEF Touches, Same
  <1>3. AtStep(r)'
    BY DEF AtStep, AtStatus, PaymentSteps, Payments
  <1>4. AtStatus(r)'
    BY DEF AtStep, AtStatus, PaymentSteps, Payments
  <1>5. Grows(r) /\ Own(r)
    BY DEF Grows, Own, AtStep
  <1>6. Actor(r)
    BY DEF Actor, PaymentSteps, Editors
  <1> QED BY <1>1, <1>2, <1>3, <1>4, <1>5, <1>6, Frame

(* An error in a payment preserves the inductive invariant. *)
LEMMA PaymentErrorStep ==
    ASSUME TInv, NEW r \in Payments, Error(r)
    PROVE  TInv'
  <1> USE TransactionsAssumption DEF TInv
  <1>k. Goto(r, Catch(r)) /\ Catch(r) \in {"ok", "refund", "retry", "failed"}
    BY CatchCases DEF Error, Throw
  <1>l. /\ Catch(r) = "ok" => r \in Transfers
        /\ Catch(r) = "refund" => /\ r \in Withdrawals
                                  /\ pc[r] \in {"complete", "cache"}
        /\ Catch(r) = "retry" => /\ r \in Swaps
                                 /\ pc[r] \in {"credit", "complete", "fee"}
    BY CatchCases
  <1>m. /\ pc[r] \in PaymentSteps
        /\ UNCHANGED <<bal, columns, args, mem, memReversed, dirty, target,
                       legs, undos>>
    BY DEF Error, Active, StepsOK, Steps, Outcomes
  <1>n. attempt' = [attempt EXCEPT ![r] =
                      IF Catch(r) = "retry" THEN @ + 1 ELSE @]
    BY DEF Error, Throw, TypeOK
  <1>o. Catch(r) = "retry" => attempt[r] + 1 \in 0..MAX_RETRIES
    BY <1>l DEF AtStep, TypeOK
  <1> USE <1>k, <1>l, <1>m, <1>n, <1>o DEF TypeOK, Requests, Statuses,
      Outcomes, Goto, args, columns, legs, undos
  <1>1. TypeOK'
    BY DEF Steps
  <1>2. Touches(r, r)
    BY DEF Touches, Same
  <1>3. AtStep(r)'
    BY DEF AtStep, AtStatus, PaymentSteps, Payments
  <1>4. AtStatus(r)'
    BY DEF AtStep, AtStatus, PaymentSteps, Payments
  <1>5. Grows(r) /\ Own(r)
    BY DEF Grows, Own, AtStep
  <1>6. Actor(r)
    BY DEF Actor, PaymentSteps, Editors
  <1> QED BY <1>1, <1>2, <1>3, <1>4, <1>5, <1>6, Frame

(* cancelTransaction preserves the inductive invariant. *)
LEMMA CancelStep ==
    ASSUME TInv, NEW x \in Editors, NEW r \in Payments, cancelTransaction(x, r)
    PROVE  TInv'
  <1> USE TransactionsAssumption DEF TInv
  <1>1. TypeOK'
    <2>1. pc' \in [Requests -> Steps \cup Outcomes]
      BY DEF TypeOK, Steps, Outcomes, Goto, cancelTransaction
    <2>2. mem' \in [Requests -> Statuses]
      BY DEF TypeOK, Statuses, cancelTransaction, entity
    <2>3. memReversed' \in [Requests -> BOOLEAN]
      BY Zenon DEF TypeOK, cancelTransaction, entity
    <2>4. target' \in [Requests -> Payments \cup {None}]
      BY DEF TypeOK, cancelTransaction, entity
    <2>5. UNCHANGED <<bal, columns, args, dirty, attempt, legs, undos>>
      BY DEF cancelTransaction, entity
    <2> QED BY <2>1, <2>2, <2>3, <2>4, <2>5 DEF TypeOK, columns, args, legs,
            undos
  <1>2. Touches(x, r) /\ Same(r)
    BY DEF Touches, Same, TypeOK, Requests, Editors, cancelTransaction, Goto,
       args, columns, entity, legs, undos
  <1>3. AtStep(r)' /\ AtStatus(r)' /\ Grows(r)
    BY <1>2, SameKeeps, SameGrows
  <1>4. Own(r)
    BY <1>2 DEF Own, Same
  <1>5. Actor(x)
    BY DEF Actor, EditorInv, ReverserInv, AtStatus, TypeOK, Outcomes, Editors,
       Requests, Statuses, cancelTransaction, Goto,
       args, columns, entity, legs, undos
  <1> QED BY <1>1, <1>2, <1>3, <1>4, <1>5, Frame DEF Requests, Editors

(* updateTags preserves the inductive invariant. *)
LEMMA TagStep ==
    ASSUME TInv, NEW x \in Editors, NEW r \in Payments, updateTags(x, r)
    PROVE  TInv'
  <1> USE TransactionsAssumption DEF TInv
  <1>1. TypeOK'
    <2>1. pc' \in [Requests -> Steps \cup Outcomes]
      BY DEF TypeOK, Steps, Outcomes, Goto, updateTags
    <2>2. mem' \in [Requests -> Statuses]
      BY DEF TypeOK, Statuses, updateTags, entity
    <2>3. memReversed' \in [Requests -> BOOLEAN]
      BY Zenon DEF TypeOK, updateTags, entity
    <2>4. target' \in [Requests -> Payments \cup {None}]
      BY DEF TypeOK, updateTags, entity
    <2>5. UNCHANGED <<bal, columns, args, dirty, attempt, legs, undos>>
      BY DEF updateTags, entity
    <2> QED BY <2>1, <2>2, <2>3, <2>4, <2>5 DEF TypeOK, columns, args, legs,
            undos
  <1>2. Touches(x, r) /\ Same(r)
    BY DEF Touches, Same, TypeOK, Requests, Editors, updateTags, Goto,
       args, columns, entity, legs, undos
  <1>3. AtStep(r)' /\ AtStatus(r)' /\ Grows(r)
    BY <1>2, SameKeeps, SameGrows
  <1>4. Own(r)
    BY <1>2 DEF Own, Same
  <1>5. Actor(x)
    BY DEF Actor, EditorInv, ReverserInv, AtStatus, TypeOK, Outcomes, Editors,
       Requests, Statuses, updateTags, Goto,
       args, columns, entity, legs, undos
  <1> QED BY <1>1, <1>2, <1>3, <1>4, <1>5, Frame DEF Requests, Editors

(* reverseTransaction preserves the inductive invariant. *)
LEMMA ReverseStep ==
    ASSUME TInv, NEW x \in Reversers, NEW r \in Payments,
        reverseTransaction(x, r)
    PROVE  TInv'
  <1> USE TransactionsAssumption DEF TInv
  <1>1. TypeOK'
    <2>1. pc' \in [Requests -> Steps \cup Outcomes]
      BY DEF TypeOK, Steps, Outcomes, Goto, reverseTransaction
    <2>2. mem' \in [Requests -> Statuses]
      BY DEF TypeOK, Statuses, reverseTransaction, entity
    <2>3. memReversed' \in [Requests -> BOOLEAN]
      BY Zenon DEF TypeOK, reverseTransaction, entity
    <2>4. target' \in [Requests -> Payments \cup {None}]
      BY DEF TypeOK, reverseTransaction, entity
    <2>5. UNCHANGED <<bal, columns, args, dirty, attempt, legs, undos>>
      BY DEF reverseTransaction, entity
    <2> QED BY <2>1, <2>2, <2>3, <2>4, <2>5 DEF TypeOK, columns, args, legs,
            undos
  <1>2. Touches(x, r) /\ Same(r)
    BY DEF Touches, Same, TypeOK, Requests, Editors, reverseTransaction, Goto,
       args, columns, entity, legs, undos
  <1>3. AtStep(r)' /\ AtStatus(r)' /\ Grows(r)
    BY <1>2, SameKeeps, SameGrows
  <1>4. Own(r)
    BY <1>2 DEF Own, Same
  <1>5. Actor(x)
    BY DEF Actor, EditorInv, ReverserInv, AtStatus, TypeOK, Outcomes, Editors,
       Requests, Statuses, reverseTransaction, Goto,
       args, columns, entity, legs, undos
  <1> QED BY <1>1, <1>2, <1>3, <1>4, <1>5, Frame DEF Requests, Editors

(* Reload preserves the inductive invariant. *)
LEMMA ReloadStep ==
    ASSUME TInv, NEW x \in Editors, Reload(x)
    PROVE  TInv'
  <1> USE TransactionsAssumption DEF TInv
  <1>d. PICK d \in Payments : d = target[x]
    BY DEF Reload, EditorInv
  <1>1. TypeOK'
    BY DEF TypeOK, Reload, Goto, Steps, Outcomes, Requests, args, columns,
       legs, undos
  <1>2. Touches(x, d) /\ Same(d)
    BY DEF Touches, Same, TypeOK, Requests, Editors, Reload, Goto, args,
       columns, legs, undos
  <1>3. AtStep(d)' /\ AtStatus(d)' /\ Grows(d)
    BY <1>2, SameKeeps, SameGrows
  <1>4. Own(d)
    BY <1>2 DEF Own, Same
  <1>5. Actor(x)
    BY DEF Actor, EditorInv, Editors, Requests, TypeOK, Reload, Goto, columns,
       legs
  <1> QED BY <1>1, <1>2, <1>3, <1>4, <1>5, Frame DEF Requests

(* Update preserves the inductive invariant. *)
LEMMA UpdateStep ==
    ASSUME TInv, NEW x \in Editors, Update(x)
    PROVE  TInv'
  <1> USE TransactionsAssumption DEF TInv
  <1>d. PICK d \in Payments : d = target[x]
    BY DEF Update, EditorInv
  <1>e. PICK s \in {"ok", "failed"} : Goto(x, s)
    BY DEF Update
  <1>f. /\ status' = [status EXCEPT ![d] =
                        IF "status" \in dirty[x] THEN mem[x] ELSE @]
        /\ reversedAt' = [reversedAt EXCEPT ![d] =
                   IF "reversedAt" \in dirty[x] THEN memReversed[x] ELSE @]
        /\ UNCHANGED <<bal, reversalRow, args, entity, legs, undos>>
    BY <1>d DEF Update
  <1>g. /\ status[d] # None
        /\ mem[x] = "completed" /\ d \in Transfers =>
              debited[d] = 1 /\ credited[d] = 1
        /\ mem[x] = "failed" => debited[d] = 1 /\ refunded[d] = 1
    BY <1>d DEF Update, EditorInv
  <1>h. mem[x] \in Statuses /\ memReversed[x] \in BOOLEAN /\ mem[x] # None
    BY DEF TypeOK, Requests
  <1>1. TypeOK'
    <2>1. status' \in [Payments -> Statuses \cup {None}]
      BY <1>f, <1>h DEF TypeOK
    <2>2. reversedAt' \in [Payments -> BOOLEAN]
      BY <1>f, <1>h, Zenon DEF TypeOK
    <2>3. pc' \in [Requests -> Steps \cup Outcomes]
      BY <1>e DEF TypeOK, Goto, Outcomes
    <2> QED BY <1>f, <2>1, <2>2, <2>3 DEF TypeOK, args, entity, legs, undos
  <1>2. Touches(x, d)
    BY <1>e, <1>f DEF Touches, Same, TypeOK, Requests, Editors, Goto, args,
       entity, legs, undos
  <1>3. /\ pc'[d] = pc[d] /\ status'[d] \in {status[d], mem[x]}
        /\ status'[d] # None
    BY <1>e, <1>f, <1>g, <1>h DEF TypeOK, Goto, Requests
  <1>4. AtStep(d)' /\ AtStatus(d)'
    <2>1. AtStep(d)'
      BY <1>f, <1>g, <1>3 DEF AtStep, args, entity, legs
    <2>2. AtStatus(d)'
      BY <1>f, <1>g, <1>3 DEF AtStatus, args, entity, legs, undos
    <2> QED BY <2>1, <2>2
  <1>5. Grows(d) /\ Own(d)
    BY <1>f, <1>g, <1>3 DEF Grows, Own, args, legs, undos
  <1>6. Actor(x)
    BY <1>e DEF Actor, EditorInv, Editors, Requests, TypeOK, Goto, Outcomes
  <1> QED BY <1>1, <1>2, <1>4, <1>5, <1>6, Frame DEF Requests

(* Repay preserves the inductive invariant. *)
LEMMA RepayStep ==
    ASSUME TInv, NEW x \in Reversers, Repay(x)
    PROVE  TInv'
  <1> USE TransactionsAssumption DEF TInv
  <1>d. PICK d \in Payments : d = target[x]
    BY DEF Repay, ReverserInv
  <1>e. PICK s \in {"recover", "failed"} : Goto(x, s)
    BY DEF Repay
  <1>f. /\ repaid' = [repaid EXCEPT ![d] = @ + 1]
        /\ UNCHANGED <<columns, args, entity, legs, recovered>>
    BY <1>d DEF Repay
  <1>g. status[d] # None
    BY <1>d DEF Repay, ReverserInv
  <1>l. /\ adjustBalance(from[d], amount[d])
        /\ from[d] \in Keys /\ amount[d] \in Nat
    BY <1>d, <1>g DEF Repay, AtStatus, TypeOK
  <1>m. bal' \in [Keys -> Nat]
    BY <1>l, AdjustType
  <1>1. TypeOK'
    <2>1. repaid' \in [Payments -> Nat]
      BY <1>f DEF TypeOK
    <2>2. pc' \in [Requests -> Steps \cup Outcomes]
      BY <1>e DEF TypeOK, Goto, Steps, Outcomes
    <2> QED BY <1>f, <1>m, <2>1, <2>2 DEF TypeOK, args, columns, entity, legs
  <1>2. Touches(x, d) /\ Same(d)
    BY <1>e, <1>f DEF Touches, Same, TypeOK, Requests, Goto, args, columns,
       entity, legs
  <1>3. AtStep(d)' /\ AtStatus(d)' /\ Grows(d)
    BY <1>2, SameKeeps, SameGrows
  <1>4. Own(d)
    BY <1>2 DEF Own, Same
  <1>5. Actor(x)
    BY <1>d, <1>e, <1>f, <1>g DEF Actor, ReverserInv, Requests, TypeOK, Goto,
       Outcomes,
       columns, entity
  <1> QED BY <1>1, <1>2, <1>3, <1>4, <1>5, Frame DEF Requests

(* Recover preserves the inductive invariant. *)
LEMMA RecoverStep ==
    ASSUME TInv, NEW x \in Reversers, Recover(x)
    PROVE  TInv'
  <1> USE TransactionsAssumption DEF TInv
  <1>d. PICK d \in Payments : d = target[x]
    BY DEF Recover, ReverserInv
  <1>e. PICK s \in {"commit", "failed"} :
           /\ Goto(x, s)
           /\ s = "commit" => recovered' = [recovered EXCEPT ![d] = @ + 1]
    BY <1>d DEF Recover
  <1>f. /\ \/ recovered' = [recovered EXCEPT ![d] = @ + 1]
           \/ recovered' = recovered
        /\ UNCHANGED <<columns, args, entity, legs, repaid>>
    BY <1>d DEF Recover
  <1>g. status[d] # None /\ repaid[d] >= 1
    BY <1>d DEF Recover, ReverserInv
  <1>k. receiverKey(d) \in Keys /\ amount[d] \in Nat
    BY <1>g DEF receiverKey, AtStatus, TypeOK
  <1>l. adjustBalance(receiverKey(d), -amount[d]) \/ UNCHANGED bal
    BY <1>d DEF Recover
  <1>m. bal' \in [Keys -> Nat]
    BY <1>k, <1>l, AdjustType DEF TypeOK
  <1>1. TypeOK'
    <2>1. recovered' \in [Payments -> Nat]
      BY <1>f DEF TypeOK
    <2>2. pc' \in [Requests -> Steps \cup Outcomes]
      BY <1>e DEF TypeOK, Goto, Steps, Outcomes
    <2> QED BY <1>f, <1>m, <2>1, <2>2 DEF TypeOK, args, columns, entity, legs
  <1>2. Touches(x, d) /\ Same(d)
    BY <1>e, <1>f DEF Touches, Same, TypeOK, Requests, Goto, args, columns,
       entity, legs
  <1>3. AtStep(d)' /\ AtStatus(d)' /\ Grows(d)
    BY <1>2, SameKeeps, SameGrows
  <1>4. Own(d)
    BY <1>2 DEF Own, Same
  <1>5. Actor(x)
    BY <1>d, <1>e, <1>f, <1>g DEF Actor, ReverserInv, Requests, TypeOK, Goto,
       Outcomes,
       columns, entity
  <1> QED BY <1>1, <1>2, <1>3, <1>4, <1>5, Frame DEF Requests

(* CommitReversal preserves the inductive invariant. *)
LEMMA CommitReversalStep ==
    ASSUME TInv, NEW x \in Reversers, CommitReversal(x)
    PROVE  TInv'
  <1> USE TransactionsAssumption DEF TInv
  <1>d. PICK d \in Payments : d = target[x]
    BY DEF CommitReversal, ReverserInv
  <1>g. status[d] # None /\ repaid[d] >= 1 /\ recovered[d] >= 1
    BY <1>d DEF CommitReversal, ReverserInv
  <1>1. CASE ~reversalRow[d]
    <2>e. PICK s \in {"ok", "failed"} : Goto(x, s)
      BY <1>1, <1>d DEF CommitReversal
    <2>f. /\ reversalRow' = [reversalRow EXCEPT ![d] = TRUE]
          /\ status' = [status EXCEPT ![d] = "reversed"]
          /\ reversedAt' = [reversedAt EXCEPT ![d] = TRUE]
          /\ UNCHANGED <<bal, args, entity, legs, undos>>
      BY <1>1, <1>d DEF CommitReversal
    <2>1. TypeOK'
      <3>1. status' \in [Payments -> Statuses \cup {None}]
        BY <2>f DEF TypeOK, Statuses
      <3>2. /\ reversedAt' \in [Payments -> BOOLEAN]
            /\ reversalRow' \in [Payments -> BOOLEAN]
        BY <2>f, Zenon DEF TypeOK
      <3>3. pc' \in [Requests -> Steps \cup Outcomes]
        BY <2>e DEF TypeOK, Goto, Outcomes
      <3> QED BY <2>f, <3>1, <3>2, <3>3 DEF TypeOK, args, entity, legs, undos
    <2>2. Touches(x, d)
      BY <2>e, <2>f DEF Touches, Same, TypeOK, Requests, Goto, args, entity,
         legs, undos
    <2>3. pc'[d] = pc[d] /\ status'[d] = "reversed" /\ reversalRow'[d]
      BY <2>e, <2>f DEF TypeOK, Goto, Requests
    <2>4. AtStep(d)'
      BY <1>g, <2>3, <2>f DEF AtStep, args, entity, legs, Statuses
    <2>5. AtStatus(d)'
      BY <1>g, <2>3, <2>f DEF AtStatus, args, entity, legs, undos
    <2>6. Grows(d) /\ Own(d)
      BY <1>g, <2>3, <2>f DEF Grows, Own, args, legs, undos, Statuses
    <2>7. Actor(x)
      BY <1>1, <1>d, <2>e, <2>f, <2>3 DEF Actor, ReverserInv, Requests, TypeOK,
         Goto, Outcomes, Statuses, entity
    <2> QED BY <2>1, <2>2, <2>4, <2>5, <2>6, <2>7, Frame DEF Requests
  <1>2. CASE reversalRow[d]
    <2>f. /\ Goto(x, "failed")
          /\ UNCHANGED <<bal, columns, args, entity, legs, undos>>
      BY <1>2, <1>d DEF CommitReversal
    <2>1. TypeOK'
      BY <2>f DEF TypeOK, Goto, Outcomes, columns, args, entity, legs, undos
    <2>2. Touches(x, d) /\ Same(d)
      BY <2>f DEF Touches, Same, TypeOK, Requests, Goto, columns, args, entity,
         legs, undos
    <2>3. AtStep(d)' /\ AtStatus(d)' /\ Grows(d)
      BY <2>2, SameKeeps, SameGrows
    <2>4. Own(d)
      BY <2>2 DEF Own, Same
    <2>5. Actor(x)
      BY <2>f DEF Actor, ReverserInv, Requests, TypeOK, Goto, Outcomes
    <2> QED BY <2>1, <2>2, <2>3, <2>4, <2>5, Frame DEF Requests
  <1> QED BY <1>1, <1>2

(* An error outside a payment preserves the inductive invariant: the       *)
(* request ends.                                                           *)
LEMMA OtherErrorStep ==
    ASSUME TInv, NEW x \in Editors \cup Reversers, Error(x)
    PROVE  TInv'
  <1> USE TransactionsAssumption DEF TInv
  <1>1. Catch(x) = "failed"
    BY CatchCases DEF Payments
  <1>2. /\ pc' = [pc EXCEPT ![x] = "failed"]
        /\ UNCHANGED <<bal, columns, args, entity, legs, undos>>
    BY <1>1 DEF Error, Throw, Goto, entity
  <1>d. PICK d \in Payments : d = target[x]
    BY DEF Error, Active, StepsOK, Steps, Outcomes, EditorInv, ReverserInv
  <1>3. TypeOK'
    BY <1>2 DEF TypeOK, Outcomes, columns, args, entity, legs, undos
  <1>4. Touches(x, d) /\ Same(d)
    BY <1>2 DEF Touches, Same, TypeOK, Requests, columns, args, entity, legs,
       undos
  <1>5. AtStep(d)' /\ AtStatus(d)' /\ Grows(d)
    BY <1>4, SameKeeps, SameGrows
  <1>6. Own(d)
    BY <1>4 DEF Own, Same
  <1>7. Actor(x)
    BY <1>2 DEF Actor, EditorInv, ReverserInv, Requests, TypeOK, Outcomes
  <1> QED BY <1>3, <1>4, <1>5, <1>6, <1>7, Frame DEF Requests

(* Restart preserves the inductive invariant. *)
LEMMA RestartStep ==
    ASSUME TInv, Restart
    PROVE  TInv'
  <1> USE TransactionsAssumption DEF TInv
  <1> USE DEF TypeOK, Statuses, Outcomes, Requests, PaymentSteps, Restart,
      Active, Steps, args, columns, entity, legs, undos
  <1>1. TypeOK'
    BY DEF Steps
  <1>2. StepsOK'
    BY DEF StepsOK, Editors
  <1>3. \A q \in Payments : AtStep(q)'
    BY DEF AtStep, AtStatus, Payments
  <1>4. \A q \in Payments : AtStatus(q)'
    BY DEF AtStep, AtStatus
  <1>5. \A y \in Editors : EditorInv(y)'
    BY DEF StepsOK, AtStep, AtStatus, EditorInv, Editors
  <1>6. \A y \in Reversers : ReverserInv(y)'
    BY DEF StepsOK, AtStep, AtStatus, ReverserInv
  <1>7. ReferencesUnique' /\ OneOk'
    BY DEF StepsOK, AtStep, ReferencesUnique, ReverserInv, OneOk
  <1> QED BY <1>1, <1>2, <1>3, <1>4, <1>5, <1>6, <1>7

(* A stuttering step preserves the inductive invariant. *)
LEMMA StutterStep ==
    ASSUME TInv, UNCHANGED vars
    PROVE  TInv'
  <1> USE TransactionsAssumption DEF TInv
  <1> USE DEF TypeOK, Statuses, Outcomes, Requests, PaymentSteps, vars, args,
      columns, entity, legs, undos
  <1>1. TypeOK'
    BY DEF Steps
  <1>2. StepsOK'
    BY DEF StepsOK, Editors
  <1>3. \A q \in Payments : AtStep(q)'
    BY DEF AtStep, AtStatus, Payments
  <1>4. \A q \in Payments : AtStatus(q)'
    BY DEF AtStep, AtStatus
  <1>5. \A y \in Editors : EditorInv(y)'
    BY DEF StepsOK, AtStep, AtStatus, EditorInv, Editors
  <1>6. \A y \in Reversers : ReverserInv(y)'
    BY DEF StepsOK, AtStep, AtStatus, ReverserInv
  <1>7. ReferencesUnique' /\ OneOk'
    BY DEF StepsOK, AtStep, ReferencesUnique, ReverserInv, OneOk
  <1> QED BY <1>1, <1>2, <1>3, <1>4, <1>5, <1>6, <1>7

(* Every step preserves the inductive invariant. *)
LEMMA TInvStep == TInv /\ [Next]_vars => TInv'
  <1> SUFFICES ASSUME TInv, [Next]_vars PROVE TInv'
    OBVIOUS
  <1>1. ASSUME NEW r \in Payments, Start(r) PROVE TInv'
    BY <1>1, TransferStep, WithdrawalStep, DepositStep, SwapStep DEF Start
  <1>2. ASSUME NEW r \in Payments, Proceed(r) PROVE TInv'
    BY <1>2, CheckBalanceStep, InsertStep, ReceiptStep, DebitStep, CreditStep,
       CompleteStep, AfterCompleteStep, RetryStep, RefundStep, SaveFailedStep,
       InsufficientStep DEF Proceed
  <1>3. ASSUME NEW x \in Editors \cup Reversers, StartOn(x) PROVE TInv'
    <2> PICK r \in Payments : \/ cancelTransaction(x, r)
                              \/ updateTags(x, r)
                              \/ reverseTransaction(x, r)
      BY <1>3 DEF StartOn
    <2>1. CASE cancelTransaction(x, r)
      BY <2>1, CancelStep DEF cancelTransaction, Editors
    <2>2. CASE updateTags(x, r)
      BY <2>2, TagStep DEF updateTags, Editors
    <2>3. CASE reverseTransaction(x, r)
      BY <2>3, ReverseStep DEF reverseTransaction
    <2> QED BY <2>1, <2>2, <2>3
  <1>4. ASSUME NEW x \in Editors \cup Reversers, ProceedOn(x) PROVE TInv'
    <2>1. CASE Reload(x)
      <3>1. x \in Editors
        BY <2>1 DEF Reload, TInv, StepsOK, Outcomes
      <3> QED BY <2>1, <3>1, ReloadStep
    <2>2. CASE Update(x)
      <3>1. x \in Editors
        BY <2>2 DEF Update, TInv, StepsOK, Outcomes
      <3> QED BY <2>2, <3>1, UpdateStep
    <2>3. CASE Repay(x)
      <3>1. x \in Reversers
        BY <2>3 DEF Repay, TInv, StepsOK, Outcomes
      <3> QED BY <2>3, <3>1, RepayStep
    <2>4. CASE Recover(x)
      <3>1. x \in Reversers
        BY <2>4 DEF Recover, TInv, StepsOK, Outcomes
      <3> QED BY <2>4, <3>1, RecoverStep
    <2>5. CASE CommitReversal(x)
      <3>1. x \in Reversers
        BY <2>5 DEF CommitReversal, TInv, StepsOK, Outcomes
      <3> QED BY <2>5, <3>1, CommitReversalStep
    <2> QED BY <1>4, <2>1, <2>2, <2>3, <2>4, <2>5 DEF ProceedOn
  <1>5. ASSUME NEW r \in Requests, Error(r) PROVE TInv'
    BY <1>5, PaymentErrorStep, OtherErrorStep DEF Requests
  <1> QED BY <1>1, <1>2, <1>3, <1>4, <1>5, RefuseStep, RestartStep, StutterStep
          DEF Next

(* The inductive invariant holds in every reachable state. *)
THEOREM TInvariance == Spec => []TInv
  BY TInvInit, TInvStep, PTL DEF Spec

(* The type invariant of the handlers of TransactionsService. *)
THEOREM TypeCorrect == Spec => []TypeOK
  BY TInvariance, PTL DEF TInv

(* A transfer whose row says COMPLETED moved its money exactly once, for   *)
(* any number of concurrent payments, cancellations, tag edits, reversals, *)
(* errors and restarts.                                                    *)
THEOREM CompletedTransfersMoved == Spec => []CompletedTransferMoved
  <1>1. TInv => CompletedTransferMoved
    BY DEF TInv, AtStatus, CompletedTransferMoved, Payments
  <1> QED BY <1>1, TInvariance, PTL

(* FAILED is written only after the refund (#739, #741). *)
THEOREM FailedAreRefunded == Spec => []FailedMeansRefunded
  <1>1. TInv => FailedMeansRefunded
    BY DEF TInv, AtStatus, FailedMeansRefunded
  <1> QED BY <1>1, TInvariance, PTL

(* A withdrawal or a swap answered with success kept what it took. *)
THEOREM SuccessIsSettled == Spec => []SuccessMeansSettled
  <1>1. TInv => SuccessMeansSettled
    BY TransactionsAssumption
       DEF TInv, AtStep, SuccessMeansSettled, Payments
  <1> QED BY <1>1, TInvariance, PTL

(* The unique reference column stops a duplicate before it moves money. *)
THEOREM ReferenceMovesMoneyOnce == Spec => []OneDebitPerReference
  <1>1. TInv => OneDebitPerReference
    BY DEF TInv, AtStep, ReferencesUnique, OneDebitPerReference
  <1> QED BY <1>1, TInvariance, PTL

(* The legs a request applies are bounded by MAX_RETRIES. *)
THEOREM LegsAreBounded == Spec => []LegsBounded
  <1>1. TInv => LegsBounded
    <2> SUFFICES ASSUME TInv, NEW r \in Payments
                 PROVE  /\ debited[r] <= 1
                        /\ refunded[r] <= debited[r]
                        /\ credited[r] <= MAX_RETRIES * debited[r]
      BY DEF LegsBounded
    <2>1. /\ debited[r] \in Nat /\ credited[r] \in Nat /\ MAX_RETRIES \in Nat
          /\ debited[r] <= 1 /\ refunded[r] <= debited[r]
          /\ credited[r] <= MAX_RETRIES /\ (debited[r] = 0 => credited[r] = 0)
      BY TransactionsAssumption DEF TInv, AtStatus, TypeOK
    <2>2. CASE debited[r] = 0
      BY <2>1, <2>2
    <2>3. CASE debited[r] = 1
      BY <2>1, <2>3
    <2> QED BY <2>1, <2>2, <2>3
  <1> QED BY <1>1, TInvariance, PTL

(* One caller at most is told that it reversed a transaction, and then both *)
(* legs of the reversal have been applied.                                  *)
THEOREM OneReversal == Spec => []OneReversalSucceeds
  <1>1. TInv => OneReversalSucceeds
    BY DEF TInv, AtStatus, OneOk, OneReversalSucceeds
  <1> QED BY <1>1, TInvariance, PTL

(***************************************************************************)
(* Conservation: money is missing from the wallets only while it is under  *)
(* way, between the two legs of a transfer.                                *)
(***************************************************************************)
OnlyTransfers == /\ ~TakesPart(Requests \ (Transfers \cup Editors))
                 /\ \A r \in Transfers : amount[r] % SubUnits = 0

UnderWay == [r \in Transfers |-> IF debited[r] = credited[r] THEN 0
                                 ELSE amount[r] \div SubUnits]

MoneyInv ==
    /\ \A r \in Transfers : credited[r] <= 1
    /\ \A r \in Transfers : pc[r] = "idle" => amount[r] = 0
    /\ OnlyTransfers => Total(bal) = Total(Opening) - Adds(UnderWay, Transfers)

(* An amount is a natural number of cents, rounded down. *)
LEMMA CentsType ==
    ASSUME TypeOK, NEW r \in Transfers
    PROVE  amount[r] \div SubUnits \in Nat
  <1>1. amount[r] \in Nat /\ SubUnits \in Nat \ {0}
    BY HalfCentAssumption DEF TypeOK, Payments, SubUnits
  <1> QED BY <1>1

(* The sums are of integers, and what is under way is not negative. *)
LEMMA MoneyTypes ==
    ASSUME TypeOK
    PROVE  /\ IsFiniteSet(Keys) /\ IsFiniteSet(Transfers)
           /\ Total(bal) = Adds(bal, Keys) /\ Total(bal) \in Int
           /\ Total(Opening) \in Int
           /\ \A r \in Transfers : UnderWay[r] \in Nat
           /\ Adds(UnderWay, Transfers) \in Nat
  <1>1. IsFiniteSet(Keys) /\ IsFiniteSet(Transfers)
    BY FiniteAssumption
  <1>2. Total(bal) = Adds(bal, Keys) /\ Total(Opening) = Adds(Opening, Keys)
    BY Zenon DEF Total, Adds
  <1>3. \A k \in Keys : bal[k] \in Int /\ Opening[k] \in Int
    BY TransactionsAssumption DEF TypeOK
  <1>4. Adds(bal, Keys) \in Int /\ Adds(Opening, Keys) \in Int
    BY <1>1, <1>3, AddsType
  <1>5. \A r \in Transfers : UnderWay[r] \in Nat
    BY CentsType DEF UnderWay
  <1>6. Adds(UnderWay, Transfers) \in Nat
    BY <1>1, <1>5, AddsNat
  <1> QED BY <1>1, <1>2, <1>4, <1>5, <1>6

(* A step that moves no money: it applies no leg and gives an amount only  *)
(* to a request that starts.                                               *)
NoMoney ==
    /\ UNCHANGED <<bal, debited, credited>>
    /\ \A q \in Requests : pc'[q] = "idle" => pc[q] = "idle"
    /\ \A r \in Transfers : \/ amount'[r] = amount[r]
                            \/ pc[r] = "idle" /\ pc'[r] # "idle"

(* Such a step keeps the balance of the money. *)
LEMMA NoMoneyStep ==
    ASSUME TInv, TInv', MoneyInv, NoMoney
    PROVE  MoneyInv'
  <1>1. \A r \in Transfers : credited'[r] <= 1
    BY DEF MoneyInv, NoMoney
  <1>2. \A r \in Transfers : pc'[r] = "idle" => amount'[r] = 0
    BY DEF MoneyInv, NoMoney, Requests, Payments
  <1>3. ASSUME OnlyTransfers'
        PROVE  Total(bal)' = Total(Opening) - Adds(UnderWay, Transfers)'
    <2>1. ~TakesPart(Requests \ (Transfers \cup Editors))
      BY <1>3 DEF OnlyTransfers, TakesPart, NoMoney
    <2>2. ASSUME NEW r \in Transfers PROVE amount[r] % SubUnits = 0
      <3>1. amount[r] = 0 \/ amount[r] = amount'[r]
        BY DEF NoMoney, MoneyInv
      <3>2. 0 % SubUnits = 0
        BY HalfCentAssumption DEF SubUnits
      <3> QED BY <1>3, <3>1, <3>2 DEF OnlyTransfers
    <2>3. OnlyTransfers
      BY <2>1, <2>2 DEF OnlyTransfers
    <2>4. ASSUME NEW r \in Transfers PROVE UnderWay'[r] = UnderWay[r]
      <3>1. pc[r] = "idle" => debited[r] = 0 /\ credited[r] = 0
        BY DEF TInv, AtStep, Payments
      <3> QED BY <3>1 DEF NoMoney, UnderWay
    <2>5. Adds(UnderWay, Transfers) = Adds(UnderWay', Transfers)
      BY <2>4, AddsSame, FiniteAssumption
    <2>6. Adds(UnderWay, Transfers)' = Adds(UnderWay', Transfers)
      OBVIOUS
    <2>7. bal' = bal
      BY DEF NoMoney
    <2>8. Total(bal)' = Total(bal)
      BY <2>7
    <2> QED BY <2>3, <2>5, <2>6, <2>8 DEF MoneyInv
  <1>4. Total(Opening)' = Total(Opening)
    OBVIOUS
  <1> QED BY <1>1, <1>2, <1>3, <1>4 DEF MoneyInv

(* A leg of the transfer r moves c cents into or out of a wallet, and out  *)
(* of or into what is under way.                                           *)
LEMMA LegStep ==
    ASSUME TInv, TInv', MoneyInv, NEW r \in Transfers, NEW k \in Keys,
           NEW c \in Int,
           OnlyTransfers' => bal'[k] = bal[k] + c,
           OnlyTransfers' => UnderWay'[r] = UnderWay[r] - c,
           bal' = [bal EXCEPT ![k] = bal'[k]],
           \A q \in Transfers : q # r => /\ debited'[q] = debited[q]
                                         /\ credited'[q] = credited[q],
           credited'[r] <= 1, amount' = amount,
           \A q \in Requests : pc'[q] = "idle" => pc[q] = "idle"
    PROVE  MoneyInv'
  <1>1. \A q \in Transfers : credited'[q] <= 1
    BY DEF MoneyInv
  <1>2. \A q \in Transfers : pc'[q] = "idle" => amount'[q] = 0
    BY DEF MoneyInv, Requests, Payments
  <1>3. ASSUME OnlyTransfers'
        PROVE  Total(bal)' = Total(Opening) - Adds(UnderWay, Transfers)'
    <2>1. OnlyTransfers
      BY <1>3 DEF OnlyTransfers, TakesPart
    <2>2. TypeOK /\ TypeOK'
      BY DEF TInv
    <2>3. /\ Total(bal) = Adds(bal, Keys) /\ Total(bal) \in Int
          /\ Total(Opening) \in Int /\ Adds(UnderWay, Transfers) \in Int
          /\ \A q \in Transfers : UnderWay[q] \in Int
      BY <2>2, MoneyTypes
    <2>4. \A q \in Transfers : UnderWay'[q] \in Int
      <3>1. ASSUME NEW q \in Transfers PROVE UnderWay'[q] \in Int
        <4>1. amount'[q] \in Nat /\ SubUnits \in Nat \ {0}
          BY <2>2, HalfCentAssumption DEF TypeOK, Payments, SubUnits
        <4>2. amount'[q] \div SubUnits \in Int
          BY <4>1
        <4> QED BY <4>2 DEF UnderWay
      <3> QED BY <3>1
    <2>5. \A q \in Transfers : q # r => UnderWay'[q] = UnderWay[q]
      BY DEF UnderWay
    <2>6. Adds(UnderWay', Transfers) =
             Adds(UnderWay, Transfers) - UnderWay[r] + UnderWay'[r]
      BY <2>3, <2>4, <2>5, AddsChange, FiniteAssumption
    <2>7. \A j \in Keys : /\ bal[j] \in Int /\ bal'[j] \in Int
                          /\ j # k => bal'[j] = bal[j]
      BY <2>2 DEF TypeOK
    <2>8. Adds(bal', Keys) = Adds(bal, Keys) - bal[k] + bal'[k]
      <3>1. k \in Keys /\ IsFiniteSet(Keys)
        BY FiniteAssumption
      <3> QED BY ONLY <2>7, <3>1, AddsChange
    <2>9. Adds(UnderWay, Transfers)' = Adds(UnderWay', Transfers)
      OBVIOUS
    <2>12. Total(bal)' = Adds(bal', Keys)
      BY Zenon DEF Adds, Total, MapThenSumSet, MapThenFoldSet
    <2>10. /\ UnderWay[r] \in Int /\ bal[k] \in Int
           /\ UnderWay'[r] = UnderWay[r] - c /\ bal'[k] = bal[k] + c
      BY <1>3, <2>3, <2>7
    <2>11. Total(bal) = Total(Opening) - Adds(UnderWay, Transfers)
      BY <2>1 DEF MoneyInv
    <2> QED BY <2>3, <2>6, <2>8, <2>9, <2>12, <2>10, <2>11
  <1>4. Total(Opening)' = Total(Opening)
    OBVIOUS
  <1> QED BY <1>1, <1>2, <1>3, <1>4 DEF MoneyInv

(* A whole number of cents is moved exactly. *)
LEMMA ExactLeg ==
    ASSUME TypeOK, NEW r \in Transfers, NEW k \in Keys,
           amount[r] % SubUnits = 0
    PROVE  /\ amount[r] \div SubUnits \in Nat
           /\ NewBalance(bal[k], amount[r]) = bal[k] + amount[r] \div SubUnits
           /\ NewBalance(bal[k], -amount[r]) = bal[k] - amount[r] \div SubUnits
  <1> DEFINE c == amount[r] \div SubUnits
             a == amount[r]
             d == SubUnits
  <1>1. a \in Nat /\ d \in Nat \ {0} /\ bal[k] \in Int
    BY HalfCentAssumption DEF TypeOK, Payments, SubUnits
  <1>2. c \in Nat /\ a % d = 0 /\ c = a \div d
    BY <1>1
  <1>3. NewBalance(bal[k], d * c) = bal[k] + c
    BY <1>1, <1>2, WholeCentsExact
  <1>4. NewBalance(bal[k], d * (-c)) = bal[k] + (-c)
    BY <1>1, <1>2, WholeCentsExact
  <1> HIDE DEF a, d
  <1>5. a = d * (a \div d) + (a % d)
    BY <1>1
  <1>6. a = d * c
    BY <1>1, <1>2, <1>5
  <1>7. -a = d * (-c)
    BY <1>1, <1>2, <1>6
  <1> HIDE DEF c
  <1> QED BY <1>1, <1>2, <1>3, <1>4, <1>6, <1>7 DEF a, c, d

(* A step of a request that is outside the claim. *)
LEMMA OthersMoney ==
    ASSUME MoneyInv, NEW x \in Requests \ (Transfers \cup Editors),
           pc'[x] # "idle",
           \A q \in Requests : pc'[q] = "idle" => pc[q] = "idle",
           amount' = amount, \A q \in Transfers : credited'[q] = credited[q]
    PROVE  MoneyInv'
  <1>1. ~OnlyTransfers'
    BY DEF OnlyTransfers, TakesPart
  <1>2. \A q \in Transfers : credited'[q] <= 1
    BY DEF MoneyInv
  <1>3. \A q \in Transfers : pc'[q] = "idle" => amount'[q] = 0
    BY DEF MoneyInv, Requests, Payments
  <1> QED BY <1>1, <1>2, <1>3 DEF MoneyInv

(* A debit takes from the sender's wallet what is then under way; another  *)
(* payment's debit is outside the claim.                                   *)
LEMMA DebitMoney ==
    ASSUME TInv, TInv', MoneyInv, NEW r \in Payments, Debit(r)
    PROVE  MoneyInv'
  <1>1. PICK s \in Steps \cup Outcomes : s # "idle" /\ Goto(r, s)
    BY DEF Debit, Throw, Catch, Steps, Outcomes
  <1>2. pc'[r] # "idle" /\ \A q \in Requests : pc'[q] = "idle" => pc[q] = "idle"
    BY <1>1 DEF Goto, TInv, TypeOK, Requests
  <1>3. CASE r \notin Transfers
    <2>1. r \in Requests \ (Transfers \cup Editors)
      BY <1>3, TransactionsAssumption DEF Requests
    <2>2. amount' = amount /\ \A q \in Transfers : credited'[q] = credited[q]
      BY <1>3 DEF Debit, TInv, TypeOK, Payments, args
    <2> QED BY <1>2, <2>1, <2>2, OthersMoney
  <1>4. CASE r \in Transfers
    <2>1. from[r] \in Keys /\ debited[r] = 0 /\ credited[r] = 0
      BY DEF Debit, TInv, AtStep, AtStatus, PaymentSteps
    <2>2. debited'[r] = 1 /\ credited' = credited /\ amount' = amount
      BY <2>1 DEF Debit, TInv, TypeOK, args
    <2>3. \A q \in Transfers : q # r => /\ debited'[q] = debited[q]
                                        /\ credited'[q] = credited[q]
      BY DEF Debit, TInv, TypeOK, Payments
    <2> DEFINE k == from[r]
               c == amount[r] \div SubUnits
    <2>4. /\ bal' = [bal EXCEPT ![k] = bal'[k]]
          /\ bal'[k] = NewBalance(bal[k], -amount[r])
      BY <1>4, <2>1 DEF Debit, adjustBalance, total, TInv, TypeOK
    <2>5. UnderWay[r] = 0 /\ UnderWay'[r] = c
      BY <1>4, <2>1, <2>2 DEF UnderWay
    <2>6. c \in Nat
      BY <1>4, CentsType DEF TInv
    <2>7. OnlyTransfers' => bal'[k] = bal[k] - c
      BY <1>4, <2>1, <2>2, <2>4, ExactLeg DEF OnlyTransfers, TInv
    <2>8. bal[k] \in Int
      BY <2>1 DEF TInv, TypeOK
    <2>9. credited'[r] <= 1
      BY <2>1, <2>2
    <2>10. /\ OnlyTransfers' => bal'[k] = bal[k] + (-c)
           /\ OnlyTransfers' => UnderWay'[r] = UnderWay[r] - (-c)
           /\ -c \in Int
      BY <2>5, <2>6, <2>7, <2>8
    <2> HIDE DEF c, k
    <2>11. k \in Keys
      BY <2>1 DEF k
    <2> QED BY <1>2, <1>4, <2>2, <2>3, <2>4, <2>9, <2>10, <2>11, LegStep
  <1> QED BY <1>3, <1>4

(* A credit gives to the receiver's wallet what was under way. *)
LEMMA CreditMoney ==
    ASSUME TInv, TInv', MoneyInv, NEW r \in Payments, Credit(r)
    PROVE  MoneyInv'
  <1>1. PICK s \in Steps \cup Outcomes : s # "idle" /\ Goto(r, s)
    BY DEF Credit, Throw, Catch, Steps, Outcomes
  <1>2. pc'[r] # "idle" /\ \A q \in Requests : pc'[q] = "idle" => pc[q] = "idle"
    BY <1>1 DEF Goto, TInv, TypeOK, Requests
  <1>3. CASE r \notin Transfers
    <2>1. r \in Requests \ (Transfers \cup Editors)
      BY <1>3, TransactionsAssumption DEF Requests
    <2>2. amount' = amount /\ \A q \in Transfers : credited'[q] = credited[q]
      BY <1>3 DEF Credit, TInv, TypeOK, Payments, args
    <2> QED BY <1>2, <2>1, <2>2, OthersMoney
  <1>4. CASE r \in Transfers
    <2>1. to[r] \in Keys /\ debited[r] = 1 /\ credited[r] = 0
      BY <1>4 DEF Credit, TInv, AtStep, AtStatus, PaymentSteps
    <2>2. credited'[r] = 1 /\ debited' = debited /\ amount' = amount
      BY <2>1 DEF Credit, TInv, TypeOK, args
    <2>3. \A q \in Transfers : q # r => /\ debited'[q] = debited[q]
                                        /\ credited'[q] = credited[q]
      BY DEF Credit, TInv, TypeOK, Payments
    <2> DEFINE k == to[r]
               c == amount[r] \div SubUnits
    <2>4. /\ bal' = [bal EXCEPT ![k] = bal'[k]]
          /\ bal'[k] = NewBalance(bal[k], amount[r])
      BY <1>4, <2>1, TransactionsAssumption
         DEF Credit, adjustBalance, credit, TInv, TypeOK
    <2>5. UnderWay[r] = c /\ UnderWay'[r] = 0
      BY <1>4, <2>1, <2>2 DEF UnderWay
    <2>6. c \in Nat
      BY <1>4, CentsType DEF TInv
    <2>7. OnlyTransfers' => bal'[k] = bal[k] + c
      BY <1>4, <2>1, <2>2, <2>4, ExactLeg DEF OnlyTransfers, TInv
    <2>8. c \in Int /\ credited'[r] <= 1
          /\ (OnlyTransfers' => UnderWay'[r] = UnderWay[r] - c)
      BY <2>2, <2>5, <2>6
    <2> HIDE DEF c, k
    <2>9. k \in Keys
      BY <2>1 DEF k
    <2> QED BY <1>2, <1>4, <2>2, <2>3, <2>4, <2>7, <2>8, <2>9, LegStep
  <1> QED BY <1>3, <1>4

(* Every step keeps the balance of the money. *)
LEMMA MoneyStep == TInv /\ MoneyInv /\ [Next]_vars => MoneyInv'
  <1> SUFFICES ASSUME TInv, MoneyInv, [Next]_vars PROVE MoneyInv'
    OBVIOUS
  <1>0. TInv'
    BY TInvStep
  <1> USE DEF TInv, TypeOK, Requests, args, columns, entity, legs, undos
  <1>1. ASSUME NEW r \in Payments, Start(r) PROVE NoMoney
    <2>1. /\ pc[r] = "idle" /\ pc'[r] # "idle"
          /\ \A q \in Requests \ {r} : pc'[q] = pc[q]
      BY <1>1 DEF Start, transfer, createWithdrawal, createDeposit,
         createSwap, Arrive, Goto
    <2>2. /\ UNCHANGED <<bal, debited, credited>>
          /\ \A q \in Payments \ {r} : amount'[q] = amount[q]
      BY <1>1 DEF Start, transfer, createWithdrawal, createDeposit,
         createSwap, Arrive
    <2> QED BY <2>1, <2>2 DEF NoMoney, Payments
  <1>2. ASSUME NEW r \in Payments,
               Refuse(r) \/ CheckBalance(r) \/ Insert(r)
               \/ generateReceiptNumber(r) \/ AfterComplete(r) \/ Retry(r)
               \/ SaveFailed(r)
        PROVE  NoMoney
    <2>1. PICK s : s # "idle" /\ Goto(r, s)
      BY <1>2 DEF Refuse, CheckBalance, Insert, generateReceiptNumber,
         AfterComplete, Retry, SaveFailed
    <2>2. UNCHANGED <<bal, debited, credited, amount>>
      BY <1>2 DEF Refuse, CheckBalance, Insert, generateReceiptNumber,
         AfterComplete, Retry, SaveFailed
    <2> QED BY <2>1, <2>2 DEF NoMoney, Goto
  <1>3. ASSUME NEW r \in Payments, Complete(r) PROVE NoMoney
    <2>1. r \in Transfers \cup Withdrawals \cup Swaps
      BY <1>3 DEF Complete, AtStep, PaymentSteps, Payments
    <2>2. PICK s : s # "idle" /\ Goto(r, s)
      BY <1>3, <2>1, TransactionsAssumption DEF Complete
    <2> QED BY <1>3, <2>2 DEF NoMoney, Goto, Complete
  <1>4. ASSUME NEW r \in Requests, Insufficient(r) \/ Error(r)
        PROVE  NoMoney
    <2>1. PICK s : s # "idle" /\ Goto(r, s)
      BY <1>4 DEF Insufficient, Error, Throw, Catch
    <2> QED BY <1>4, <2>1 DEF NoMoney, Goto, Insufficient, Error
  <1>5. ASSUME NEW x \in Editors \cup Reversers, StartOn(x) PROVE NoMoney
    <2>1. PICK s : s # "idle" /\ Goto(x, s)
      BY <1>5 DEF StartOn, cancelTransaction, updateTags, reverseTransaction
    <2>2. UNCHANGED <<bal, debited, credited, amount>>
      BY <1>5 DEF StartOn, cancelTransaction, updateTags, reverseTransaction
    <2> QED BY <2>1, <2>2 DEF NoMoney, Goto
  <1>6. ASSUME NEW x \in Editors \cup Reversers,
               Reload(x) \/ Update(x) \/ CommitReversal(x)
        PROVE  NoMoney
    <2>1. PICK s : s # "idle" /\ Goto(x, s)
      BY <1>6 DEF Reload, Update, CommitReversal
    <2>2. UNCHANGED <<bal, debited, credited, amount>>
      BY <1>6 DEF Reload, Update, CommitReversal
    <2> QED BY <2>1, <2>2 DEF NoMoney, Goto
  <1>7. ASSUME NEW r \in Payments, Refund(r) PROVE MoneyInv'
    <2>1. r \notin Transfers
      BY <1>7, TransactionsAssumption DEF Refund, AtStep
    <2>2. pc'[r] # "idle"
      BY <1>7 DEF Refund, Goto
    <2>3. /\ \A q \in Requests : pc'[q] = "idle" => pc[q] = "idle"
          /\ amount' = amount
          /\ \A q \in Transfers : credited'[q] = credited[q]
      BY <1>7 DEF Refund, Goto
    <2>4. r \in Requests \ (Transfers \cup Editors)
      BY <2>1, TransactionsAssumption
    <2> QED BY <2>2, <2>3, <2>4, OthersMoney
  <1>8. ASSUME NEW x \in Editors \cup Reversers, Repay(x) \/ Recover(x)
        PROVE  MoneyInv'
    <2>1. x \in Reversers /\ x \notin Transfers \cup Editors
      BY <1>8, TransactionsAssumption
         DEF Repay, Recover, StepsOK, Outcomes, Payments
    <2>2. pc'[x] # "idle"
      BY <1>8 DEF Repay, Recover, Goto
    <2>3. /\ \A q \in Requests : pc'[q] = "idle" => pc[q] = "idle"
          /\ amount' = amount
          /\ \A q \in Transfers : credited'[q] = credited[q]
      BY <1>8 DEF Repay, Recover, Goto
    <2> QED BY <2>1, <2>2, <2>3, OthersMoney
  <1>9. CASE Restart
    BY <1>0, <1>9, NoMoneyStep DEF Restart, Active, NoMoney
  <1>10. CASE UNCHANGED vars
    BY <1>0, <1>10, NoMoneyStep DEF vars, NoMoney
  <1>11. ASSUME NEW r \in Payments, Debit(r) \/ Credit(r) PROVE MoneyInv'
    BY <1>0, <1>11, DebitMoney, CreditMoney
  <1> QED BY <1>0, <1>1, <1>2, <1>3, <1>4, <1>5, <1>6, <1>7, <1>8, <1>9,
             <1>10, <1>11, NoMoneyStep DEF Next, Proceed, ProceedOn

(* Transfers conserve money: none is created, whatever fails or restarts,  *)
(* and when every transfer has run to its end none is missing.             *)
THEOREM TransfersConserveMoney == Spec => []TransfersConserve
  <1>1. Init => MoneyInv
    <2> SUFFICES ASSUME Init PROVE MoneyInv
      OBVIOUS
    <2>1. TypeOK
      BY TInvInit DEF TInv
    <2>2. /\ \A r \in Transfers : credited[r] = 0 /\ debited[r] = 0
          /\ \A r \in Transfers : amount[r] = 0
      BY DEF Init, Payments
    <2>3. \A r \in Transfers : UnderWay[r] = 0
      BY <2>2 DEF UnderWay
    <2>4. Adds(UnderWay, Transfers) = 0
      BY <2>3, AddsNat, FiniteAssumption
    <2>5. bal = Opening /\ Total(bal) \in Int
      BY <2>1, MoneyTypes DEF Init
    <2> QED BY <2>2, <2>4, <2>5 DEF MoneyInv
  <1>2. TInv /\ MoneyInv => TransfersConserve
    <2> SUFFICES ASSUME TInv, MoneyInv, OnlyTransfers
                 PROVE  /\ Total(bal) <= Total(Opening)
                        /\ /\ \A r \in Requests : ~Active(r)
                           /\ \A r \in Transfers :
                                 status[r] \in {None, "completed"}
                           => Total(bal) = Total(Opening)
      BY DEF TransfersConserve, OnlyTransfers
    <2>1. /\ Total(bal) \in Int /\ Total(Opening) \in Int
          /\ Adds(UnderWay, Transfers) \in Nat
      BY MoneyTypes DEF TInv
    <2>2. Total(bal) = Total(Opening) - Adds(UnderWay, Transfers)
      BY DEF MoneyInv
    <2>3. ASSUME \A r \in Transfers : status[r] \in {None, "completed"}
          PROVE  Adds(UnderWay, Transfers) = 0
      <3>1. \A r \in Transfers : debited[r] = credited[r]
        BY <2>3 DEF TInv, AtStep, AtStatus, Payments
      <3>2. \A r \in Transfers : UnderWay[r] = 0
        BY <3>1 DEF UnderWay
      <3> QED BY <3>2, AddsNat, FiniteAssumption
    <2> QED BY <2>1, <2>2, <2>3
  <1> QED BY <1>1, <1>2, TInvariance, TInvStep, TInvInit, MoneyStep, PTL
          DEF Spec
============================================================================
