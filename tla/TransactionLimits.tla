------------------------- MODULE TransactionLimits -------------------------
(***************************************************************************)
(* TransactionLimitService.check (src/transactions) and the exchange rates *)
(* it converts with (ExchangeRateService, src/fx).  The totals per user    *)
(* and day, and per user and month, are Maps in the memory of the process. *)
(*                                                                         *)
(* A call awaits the rate and then runs to its end without another await,  *)
(* but not in no time: the clock is read once for the day and once for the *)
(* month, and midnight may fall between the two.                           *)
(***************************************************************************)
EXTENDS Integers

CONSTANTS Users, Requests,
          Currencies,   \* currencies other than USD
          USD,
          Amounts,      \* amounts of requests, fee included
          Rates,        \* rates to USD the providers quote
          SINGLE_TX_LIMIT_USD, DAILY_LIMIT_USD, MONTHLY_LIMIT_USD,
          DaysPerMonth,
          LastDay,      \* bound: the days a behaviour spans
          None

Days == 0..LastDay
monthKey(d) == d \div DaysPerMonth
Months == {monthKey(d) : d \in Days}

ASSUME LimitsAssumption ==
    /\ Amounts \subseteq Nat /\ Rates \subseteq Nat \ {0}
    /\ SINGLE_TX_LIMIT_USD \in Nat
    /\ DAILY_LIMIT_USD \in Nat /\ MONTHLY_LIMIT_USD \in Nat
    /\ DaysPerMonth \in Nat \ {0} /\ LastDay \in Nat
    /\ USD \notin Currencies /\ None \notin Nat \cup Users \cup Currencies

VARIABLES today,        \* the wall clock
          dailyTotals, monthlyTotals,
          cache,        \* per currency: the rate in the cache; None: no entry
          fresh,        \* currencies whose cache entry is younger than the TTL
          pc, user, currency, amount, \* per request: its step and arguments
          amountUsd,    \* per request: the amount converted
          charged       \* history: per user, what was charged since the start

totals == <<dailyTotals, monthlyTotals>>
rates == <<cache, fresh>>
args == <<user, currency, amount>>
vars == <<today, totals, rates, pc, args, amountUsd, charged>>

Outcomes == {"ok", "refused", "failed"}
Steps == {"idle", "openexchangerates", "exchangeratehost", "accumulate"}
Active(r) == pc[r] \in Steps \ {"idle"}

Init == /\ today = 0
        /\ dailyTotals = [k \in Users \X Days |-> 0]
        /\ monthlyTotals = [k \in Users \X Months |-> 0]
        /\ cache = [c \in Currencies |-> None]
        /\ fresh = {}
        /\ pc = [r \in Requests |-> "idle"]
        /\ user = [r \in Requests |-> None]
        /\ currency = [r \in Requests |-> None]
        /\ amount = [r \in Requests |-> 0]
        /\ amountUsd = [r \in Requests |-> 0]
        /\ charged = [u \in Users |-> 0]

Goto(r, step) == pc' = [pc EXCEPT ![r] = step]
Convert(r, a) == amountUsd' = [amountUsd EXCEPT ![r] = a]

(* The call, up to its first await: toUsd needs no rate for US dollars and *)
(* takes a fresh one from the cache.                                       *)
check(r, u, a, c) ==
    /\ pc[r] = "idle"
    /\ user' = [user EXCEPT ![r] = u]
    /\ currency' = [currency EXCEPT ![r] = c]
    /\ amount' = [amount EXCEPT ![r] = a]
    /\ \/ c = USD /\ Convert(r, a) /\ Goto(r, "accumulate")
       \/ /\ c \in fresh
          /\ Convert(r, a * cache[c]) /\ Goto(r, "accumulate")
       \/ /\ c \in Currencies \ fresh
          /\ Goto(r, "openexchangerates") /\ UNCHANGED amountUsd
    /\ UNCHANGED <<today, totals, rates, charged>>

(* A provider answers with a rate, which goes into the cache ... *)
Quote(r, rate) ==
    /\ pc[r] \in {"openexchangerates", "exchangeratehost"}
    /\ cache' = [cache EXCEPT ![currency[r]] = rate]
    /\ fresh' = fresh \cup {currency[r]}
    /\ Convert(r, amount[r] * rate)
    /\ Goto(r, "accumulate")
    /\ UNCHANGED <<today, totals, args, charged>>

(* Mutant: no rate at all is passed on as undefined. *)
fetchWithoutFallback(r) ==
    /\ pc[r] = "openexchangerates"
    /\ Convert(r, None)
    /\ Goto(r, "accumulate")
    /\ UNCHANGED <<today, totals, rates, args, charged>>

(* ... or fails: the second one is asked, and then the call is refused. *)
fetchWithFallback(r) ==
    /\ \/ pc[r] = "openexchangerates" /\ Goto(r, "exchangeratehost")
       \/ pc[r] = "exchangeratehost" /\ Goto(r, "refused")
    /\ UNCHANGED <<today, totals, rates, args, amountUsd, charged>>

(* Mutant: the totals are compared before the amount is added. *)
accumulateLate(r, tomorrow) ==
    LET day == <<user[r], today>>
        month == <<user[r], monthKey(tomorrow)>>
    IN
    /\ pc[r] = "accumulate" /\ tomorrow \in {today, today + 1}
    /\ dailyTotals[day] <= DAILY_LIMIT_USD
    /\ dailyTotals' = [dailyTotals EXCEPT ![day] = @ + amountUsd[r]]
    /\ monthlyTotals' = [monthlyTotals EXCEPT ![month] = @ + amountUsd[r]]
    /\ today' = tomorrow
    /\ Goto(r, "ok")
    /\ UNCHANGED <<rates, args, amountUsd, charged>>

(* Mutant: the daily total is written before the monthly limit is tested. *)
accumulateEagerly(r, tomorrow) ==
    LET day == <<user[r], today>>
        month == <<user[r], monthKey(tomorrow)>>
        passes == monthlyTotals[month] + amountUsd[r] <= MONTHLY_LIMIT_USD
    IN
    /\ pc[r] = "accumulate" /\ tomorrow \in {today, today + 1}
    /\ dailyTotals[day] + amountUsd[r] <= DAILY_LIMIT_USD
    /\ dailyTotals' = [dailyTotals EXCEPT ![day] = @ + amountUsd[r]]
    /\ \/ /\ passes /\ Goto(r, "ok")
          /\ monthlyTotals' = [monthlyTotals EXCEPT ![month] = @ + amountUsd[r]]
          /\ charged' = [charged EXCEPT ![user[r]] = @ + amountUsd[r]]
       \/ ~passes /\ Goto(r, "refused") /\ UNCHANGED <<monthlyTotals, charged>>
    /\ today' = tomorrow
    /\ UNCHANGED <<rates, args, amountUsd>>

(* The rest of check: tomorrow is the day by the time the month is read. *)
accumulate(r, tomorrow) ==
    LET day == <<user[r], today>>
        month == <<user[r], monthKey(tomorrow)>>
        dayTotal == dailyTotals[day] + amountUsd[r]
        monTotal == monthlyTotals[month] + amountUsd[r]
        passes == /\ amountUsd[r] <= SINGLE_TX_LIMIT_USD
                  /\ dayTotal <= DAILY_LIMIT_USD
                  /\ monTotal <= MONTHLY_LIMIT_USD
    IN
    /\ pc[r] = "accumulate"
    /\ tomorrow \in {today, today + 1}
    /\ today' = tomorrow
    /\ \/ /\ passes
          /\ dailyTotals' = [dailyTotals EXCEPT ![day] = dayTotal]
          /\ monthlyTotals' = [monthlyTotals EXCEPT ![month] = monTotal]
          /\ charged' = [charged EXCEPT ![user[r]] = @ + amountUsd[r]]
          /\ Goto(r, "ok")
       \/ ~passes /\ Goto(r, "refused") /\ UNCHANGED <<totals, charged>>
    /\ UNCHANGED <<rates, args, amountUsd>>

NextDay ==
    /\ today < LastDay
    /\ today' = today + 1
    /\ UNCHANGED <<totals, rates, pc, args, amountUsd, charged>>

(* A cache entry grows older than the TTL. *)
Expire(c) ==
    /\ c \in fresh
    /\ fresh' = fresh \ {c}
    /\ UNCHANGED <<today, totals, cache, pc, args, amountUsd, charged>>

(* The process restarts: the Maps are empty again. *)
Restart ==
    /\ dailyTotals' = [k \in Users \X Days |-> 0]
    /\ monthlyTotals' = [k \in Users \X Months |-> 0]
    /\ cache' = [c \in Currencies |-> None]
    /\ fresh' = {}
    /\ pc' = [r \in Requests |-> IF Active(r) THEN "failed" ELSE pc[r]]
    /\ charged' = [u \in Users |-> 0]
    /\ UNCHANGED <<today, args, amountUsd>>

Proceed(r) == \/ \E rate \in Rates : Quote(r, rate)
              \/ fetchWithFallback(r)
              \/ \E tomorrow \in Days : accumulate(r, tomorrow)

Next == \/ \E r \in Requests, u \in Users, a \in Amounts,
              c \in Currencies \cup {USD} : check(r, u, a, c)
        \/ \E r \in Requests : Proceed(r)
        \/ \E c \in Currencies : Expire(c)
        \/ NextDay
        \/ Restart

Spec == Init /\ [][Next]_vars

(***************************************************************************)
(* Properties.                                                             *)
(***************************************************************************)
(* Every variable keeps the shape the code gives it. *)
TypeOK == /\ today \in Days
          /\ dailyTotals \in [Users \X Days -> Nat]
          /\ monthlyTotals \in [Users \X Months -> Nat]
          /\ cache \in [Currencies -> Rates \cup {None}]
          /\ fresh \in SUBSET Currencies
          /\ pc \in [Requests -> Steps \cup Outcomes]
          /\ user \in [Requests -> Users \cup {None}]
          /\ currency \in [Requests -> Currencies \cup {USD, None}]
          /\ amount \in [Requests -> Nat]
          /\ amountUsd \in [Requests -> Nat]
          /\ charged \in [Users -> Nat]

(* Concurrent calls for one user never push a total over its limit,        *)
(* although each computes its amount before an await.                      *)
WithinLimits ==
    /\ \A k \in Users \X Days : dailyTotals[k] <= DAILY_LIMIT_USD
    /\ \A k \in Users \X Months : monthlyTotals[k] <= MONTHLY_LIMIT_USD
============================================================================
