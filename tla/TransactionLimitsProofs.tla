---------------------- MODULE TransactionLimitsProofs ----------------------
(***************************************************************************)
(* Theorems about TransactionLimits, RateLimits, RatesCache, RatesGateway  *)
(* and RateTable, for any users, requests, currencies, amounts, rates,     *)
(* limits, windows, sizes and calendar, and for the five side by side, as  *)
(* MCTransactionLimits puts them.                                          *)
(***************************************************************************)
EXTENDS MCTransactionLimits, MoneyProofs

(* A call that waits for a rate has a currency the cache knows, one that   *)
(* accumulates has a user, and a fresh cache entry has a rate.             *)
Arguments == \A r \in Requests :
    /\ Active(r) => user[r] \in Users
    /\ pc[r] \in {"openexchangerates", "exchangeratehost"} =>
          currency[r] \in Currencies

FreshHasRate == \A c \in fresh : cache[c] \in Rates

LInv == TypeOK /\ Arguments /\ FreshHasRate /\ WithinLimits

(* The inductive invariant holds initially. *)
LEMMA LInvInit == Init => LInv
  BY LimitsAssumption DEF Init, LInv, TypeOK, Steps, Days, Arguments, Active,
     FreshHasRate, WithinLimits

(* Every step preserves the inductive invariant. *)
LEMMA LInvStep == LInv /\ [Next]_vars => LInv'
  <1> SUFFICES ASSUME LInv, [Next]_vars PROVE LInv'
    OBVIOUS
  <1> USE LimitsAssumption
      DEF LInv, TypeOK, Steps, Outcomes, totals, rates, args
  <1>1. ASSUME NEW r \in Requests, NEW u \in Users, NEW a \in Amounts,
               NEW c \in Currencies \cup {USD}, check(r, u, a, c)
        PROVE  LInv'
    <2>1. ASSUME c \in fresh PROVE a * cache[c] \in Nat
      <3>1. cache[c] \in Nat /\ a \in Nat
        BY <2>1 DEF FreshHasRate
      <3> QED BY <3>1
    <2>2. TypeOK'
      BY <1>1, <2>1 DEF check, Goto, Convert
    <2>3. Arguments'
      BY <1>1 DEF check, Goto, Arguments, Active
    <2>4. FreshHasRate' /\ WithinLimits'
      BY <1>1 DEF check, FreshHasRate, WithinLimits
    <2> QED BY <2>2, <2>3, <2>4
  <1>2. ASSUME NEW r \in Requests, NEW rate \in Rates, Quote(r, rate)
        PROVE  LInv'
    <2>1. currency[r] \in Currencies /\ amount[r] * rate \in Nat
      BY <1>2 DEF Quote, Arguments
    <2>2. TypeOK'
      BY <1>2, <2>1 DEF Quote, Goto, Convert
    <2>3. Arguments'
      BY <1>2 DEF Quote, Goto, Arguments, Active
    <2>4. FreshHasRate'
      BY <1>2, <2>1 DEF Quote, FreshHasRate
    <2>5. WithinLimits'
      BY <1>2 DEF Quote, WithinLimits
    <2> QED BY <2>2, <2>3, <2>4, <2>5
  <1>3. ASSUME NEW r \in Requests, fetchWithFallback(r) PROVE LInv'
    BY <1>3 DEF fetchWithFallback, Goto, Arguments, Active, FreshHasRate,
       WithinLimits
  <1>4. ASSUME NEW r \in Requests, NEW tomorrow \in Days,
               accumulate(r, tomorrow)
        PROVE  LInv'
    <2> DEFINE day == <<user[r], today>>
               month == <<user[r], monthKey(tomorrow)>>
    <2>1. day \in Users \X Days /\ month \in Users \X Months
      BY <1>4 DEF accumulate, Arguments, Active, Months
    <2>2. CASE UNCHANGED <<totals, charged>>
      BY <1>4, <2>2 DEF accumulate, Goto, Arguments, Active, FreshHasRate,
         WithinLimits
    <2>3. CASE /\ dailyTotals[day] + amountUsd[r] <= DAILY_LIMIT_USD
               /\ monthlyTotals[month] + amountUsd[r] <= MONTHLY_LIMIT_USD
               /\ dailyTotals' = [dailyTotals EXCEPT ![day] =
                                    dailyTotals[day] + amountUsd[r]]
               /\ monthlyTotals' = [monthlyTotals EXCEPT ![month] =
                                      monthlyTotals[month] + amountUsd[r]]
               /\ charged' = [charged EXCEPT ![user[r]] = @ + amountUsd[r]]
               /\ Goto(r, "ok")
      <3> HIDE DEF day, month
      <3>1. /\ dailyTotals' \in [Users \X Days -> Nat]
            /\ monthlyTotals' \in [Users \X Months -> Nat]
            /\ charged' \in [Users -> Nat]
        <4>1. user[r] \in Users
          BY <1>4 DEF accumulate, Arguments, Active
        <4>2. /\ dailyTotals[day] + amountUsd[r] \in Nat
              /\ monthlyTotals[month] + amountUsd[r] \in Nat
              /\ charged[user[r]] + amountUsd[r] \in Nat
          BY <2>1, <4>1
        <4> QED BY <2>1, <2>3, <4>1, <4>2
      <3>2. TypeOK'
        BY <1>4, <2>3, <3>1 DEF accumulate, Goto
      <3>3. Arguments' /\ FreshHasRate'
        BY <1>4, <2>3 DEF accumulate, Goto, Arguments, Active, FreshHasRate
      <3>4. WithinLimits'
        BY <2>1, <2>3 DEF WithinLimits
      <3> QED BY <3>2, <3>3, <3>4
    <2> QED BY <1>4, <2>2, <2>3 DEF accumulate
  <1>5. ASSUME NEW c \in Currencies, Expire(c) PROVE LInv'
    BY <1>5 DEF Expire, Arguments, Active, FreshHasRate, WithinLimits
  <1>6. CASE NextDay
    BY <1>6 DEF NextDay, Days, Arguments, Active, FreshHasRate, WithinLimits
  <1>7. CASE Restart
    <2>1. TypeOK'
      BY <1>7 DEF Restart, Active
    <2>2. Arguments' /\ FreshHasRate' /\ WithinLimits'
      BY <1>7 DEF Restart, Arguments, Active, FreshHasRate, WithinLimits
    <2> QED BY <2>1, <2>2
  <1>8. CASE UNCHANGED vars
    BY <1>8 DEF vars, Arguments, Active, FreshHasRate, WithinLimits
  <1> QED BY <1>1, <1>2, <1>3, <1>4, <1>5, <1>6, <1>7, <1>8 DEF Next, Proceed

(* The inductive invariant holds in every reachable state. *)
THEOREM LInvariance == Spec => []LInv
  BY LInvInit, LInvStep, PTL DEF Spec

(* The type invariant of the limit service and the rate cache. *)
THEOREM TypeCorrect == Spec => []TypeOK
  BY LInvariance, PTL DEF LInv

(* The totals of check never exceed their limits, for any number of        *)
(* concurrent calls and wherever midnight falls.                           *)
THEOREM LimitsHold == Spec => []WithinLimits
  BY LInvariance, PTL DEF LInv

(***************************************************************************)
(* The two accumulators, over all days and over all months of a user.      *)
(***************************************************************************)
(* The total of a user is the sum over the keys that begin with it. *)
LEMMA SumOfUser ==
    ASSUME NEW D, IsFiniteSet(D), NEW f \in [Users \X D -> Nat], NEW u \in Users
    PROVE  /\ IsFiniteSet({u} \X D)
           /\ Sum(OfUser(f, u)) = Adds(f, {u} \X D)
           /\ Sum(OfUser(f, u)) \in Nat
  <1> DEFINE K == {u} \X D
             g == OfUser(f, u)
  <1>1. IsFiniteSet(K)
    BY FS_Singleton, FS_Product
  <1>2. DOMAIN g = K /\ \A k \in K : g[k] = f[k] /\ f[k] \in Nat
    BY DEF OfUser
  <1>3. Sum(g) = Adds(g, DOMAIN g)
    BY Zenon DEF Sum, Adds
  <1> HIDE DEF g, K
  <1>4. Adds(g, K) = Adds(f, K) /\ Adds(f, K) \in Nat
    BY <1>1, <1>2, AddsSame, AddsNat
  <1> QED BY <1>1, <1>2, <1>3, <1>4 DEF g, K

(* From f to g, the amount a is added under one key, of the user v. *)
Added(f, g, D, v, d, a) ==
    /\ IsFiniteSet(D) /\ v \in Users /\ d \in D /\ a \in Nat
    /\ f \in [Users \X D -> Nat] /\ g \in [Users \X D -> Nat]
    /\ g[<<v, d>>] = f[<<v, d>>] + a
    /\ \A k \in Users \X D : k # <<v, d>> => g[k] = f[k]

(* An amount added under one key of a user is added to its total, and to   *)
(* that of nobody else.                                                    *)
LEMMA SumMoves ==
    ASSUME NEW D, NEW f, NEW g, NEW v, NEW d, NEW a, Added(f, g, D, v, d, a),
           NEW u \in Users
    PROVE  Sum(OfUser(g, u)) = Sum(OfUser(f, u)) + IF u = v THEN a ELSE 0
  <1> USE DEF Added
  <1> DEFINE K == {u} \X D
             x == <<v, d>>
  <1>1. /\ g[x] = f[x] + a /\ f[x] \in Nat
        /\ \A k \in Users \X D : k # x => g[k] = f[k]
    OBVIOUS
  <1>2. /\ IsFiniteSet(K) /\ Sum(OfUser(f, u)) = Adds(f, K)
        /\ Sum(OfUser(g, u)) = Adds(g, K) /\ Adds(f, K) \in Nat
    <2>1. /\ IsFiniteSet(K) /\ Sum(OfUser(f, u)) = Adds(f, K)
          /\ Sum(OfUser(f, u)) \in Nat
      BY SumOfUser, Zenon
    <2>2. Sum(OfUser(g, u)) = Adds(g, K)
      BY SumOfUser, Zenon
    <2> HIDE DEF K
    <2> QED BY <2>1, <2>2
  <1>3. \A k \in K : k \in Users \X D /\ g[k] \in Int /\ f[k] \in Int
    OBVIOUS
  <1>4. (u = v => x \in K) /\ (u # v => x \notin K)
    OBVIOUS
  <1> HIDE DEF K, x
  <1>5. CASE u = v
    <2>1. Adds(g, K) = Adds(f, K) - f[x] + g[x]
      BY <1>1, <1>2, <1>3, <1>4, <1>5, AddsChange
    <2> QED BY <1>1, <1>2, <1>5, <2>1
  <1>6. CASE u # v
    <2>1. \A k \in K : g[k] = f[k]
      BY <1>1, <1>3, <1>4, <1>6
    <2>2. Adds(g, K) = Adds(f, K)
      BY <1>2, <2>1, AddsSame
    <2> QED BY <1>2, <1>6, <2>2
  <1> QED BY <1>5, <1>6

(* There are finitely many days and months. *)
LEMMA CalendarFinite == IsFiniteSet(Days) /\ IsFiniteSet(Months)
  <1>1. IsFiniteSet(Days)
    BY LimitsAssumption, FS_Interval DEF Days
  <1> DEFINE f == [d \in Days |-> monthKey(d)]
  <1>2. f \in Surjection(Days, Months)
    BY DEF Surjection, Months
  <1> QED BY <1>1, <1>2, FS_Surjection

(* The totals of a fresh process are zero. *)
LEMMA NothingCharged ==
    ASSUME NEW D, IsFiniteSet(D), NEW f, f = [k \in Users \X D |-> 0],
           NEW u \in Users
    PROVE  Sum(OfUser(f, u)) = 0
  <1>1. f \in [Users \X D -> Nat] /\ \A k \in {u} \X D : f[k] = 0
    OBVIOUS
  <1>2. Sum(OfUser(f, u)) = Adds(f, {u} \X D) /\ IsFiniteSet({u} \X D)
    BY <1>1, SumOfUser
  <1> QED BY <1>1, <1>2, AddsNat

(* Every step keeps the accumulators in agreement. *)
LEMMA AgreeStep == LInv /\ AccumulatorsAgree /\ [Next]_vars => AccumulatorsAgree'
  <1> SUFFICES ASSUME LInv, AccumulatorsAgree, [Next]_vars, NEW u \in Users
               PROVE  /\ Sum(OfUser(dailyTotals, u))' = charged'[u]
                      /\ Sum(OfUser(monthlyTotals, u))' = charged'[u]
    BY DEF AccumulatorsAgree
  <1>0. /\ Sum(OfUser(dailyTotals, u))' = Sum(OfUser(dailyTotals', u))
        /\ Sum(OfUser(monthlyTotals, u))' = Sum(OfUser(monthlyTotals', u))
    OBVIOUS
  <1>1. /\ Sum(OfUser(dailyTotals, u)) = charged[u]
        /\ Sum(OfUser(monthlyTotals, u)) = charged[u]
    BY DEF AccumulatorsAgree
  <1>2. CASE UNCHANGED <<totals, charged>>
    BY <1>0, <1>1, <1>2 DEF totals
  <1>3. CASE Restart
    BY <1>0, <1>3, CalendarFinite, NothingCharged DEF Restart
  <1>4. ASSUME NEW r \in Requests, NEW tomorrow \in Days,
               accumulate(r, tomorrow), ~UNCHANGED <<totals, charged>>
        PROVE  /\ Sum(OfUser(dailyTotals', u)) = charged'[u]
               /\ Sum(OfUser(monthlyTotals', u)) = charged'[u]
    <2> DEFINE v == user[r]
               a == amountUsd[r]
               m == monthKey(tomorrow)
               day == <<v, today>>
               month == <<v, m>>
    <2>1. /\ v \in Users /\ a \in Nat /\ today \in Days /\ m \in Months
          /\ dailyTotals \in [Users \X Days -> Nat]
          /\ monthlyTotals \in [Users \X Months -> Nat]
          /\ charged \in [Users -> Nat]
      BY <1>4 DEF LInv, TypeOK, Arguments, Active, Steps, accumulate, Months
    <2>2. /\ dailyTotals' = [dailyTotals EXCEPT ![day] = dailyTotals[day] + a]
          /\ monthlyTotals' =
                [monthlyTotals EXCEPT ![month] = monthlyTotals[month] + a]
          /\ charged' = [charged EXCEPT ![v] = charged[v] + a]
      BY <1>4 DEF accumulate
    <2> HIDE DEF v, a, m
    <2>3. Added(dailyTotals, dailyTotals', Days, v, today, a)
      BY <2>1, <2>2, CalendarFinite DEF Added
    <2>4. Added(monthlyTotals, monthlyTotals', Months, v, m, a)
      BY <2>1, <2>2, CalendarFinite DEF Added
    <2>5. /\ Sum(OfUser(dailyTotals', u)) =
                Sum(OfUser(dailyTotals, u)) + IF u = v THEN a ELSE 0
          /\ Sum(OfUser(monthlyTotals', u)) =
                Sum(OfUser(monthlyTotals, u)) + IF u = v THEN a ELSE 0
      BY <2>3, <2>4, SumMoves
    <2>6. charged'[u] = charged[u] + IF u = v THEN a ELSE 0
      BY <2>1, <2>2
    <2> QED BY <1>1, <2>5, <2>6
  <1>5. \/ UNCHANGED <<totals, charged>> \/ Restart
        \/ \E r \in Requests, tomorrow \in Days : accumulate(r, tomorrow)
    BY DEF Next, vars, totals, Proceed, check, Quote, fetchWithFallback, NextDay,
       Expire
  <1> QED BY <1>0, <1>2, <1>3, <1>4, <1>5

(* The daily and the monthly totals of a user add up to what it was        *)
(* charged, for any calendar, wherever midnight fell and whatever was      *)
(* refused.                                                                *)
THEOREM AccumulatorsStayEqual == Spec => []AccumulatorsAgree
  <1>1. Init => AccumulatorsAgree
    <2> SUFFICES ASSUME Init, NEW u \in Users
                 PROVE  /\ Sum(OfUser(dailyTotals, u)) = charged[u]
                        /\ Sum(OfUser(monthlyTotals, u)) = charged[u]
      BY DEF AccumulatorsAgree
    <2> QED BY CalendarFinite, NothingCharged DEF Init
  <1> QED BY <1>1, LInvInit, LInvStep, AgreeStep, PTL DEF Spec

----------------------------------------------------------------------------
(***************************************************************************)
(* The table of rates (RateTable).                                         *)
(***************************************************************************)
(* The pairs that the refresh of r has written. *)
DonePairs(r) == {p \in SupportedPairs : \/ p < refresh[r].pair
                                        \/ p = refresh[r].pair /\ refresh[r].stage = "history"}

(* A refresh that is about to save knows a row, if there is one.           *)
RowFound == \A r \in RateReaders :
    refresh[r].stage = "save" => refresh[r].row \in 0..Len(rateRows[refresh[r].pair])

(* While nothing is disturbed: one refresh at a time, at most one row per  *)
(* pair, and the pairs a refresh has written agree, as do all the others.  *)
Undisturbed ==
    /\ \A p \in SupportedPairs : Len(rateRows[p]) <= 1
    /\ \A r, s \in Refreshing : r = s
    /\ Refreshing = {} => \A p, q \in SupportedPairs : rateRows[p] = rateRows[q]
    /\ \A r \in Refreshing :
        /\ \A p \in DonePairs(r) : rateRows[p] = <<refresh[r].expires>>
        /\ \A p, q \in SupportedPairs \ DonePairs(r) : rateRows[p] = rateRows[q]
        /\ refresh[r].stage = "save" /\ refresh[r].row = 0 => rateRows[refresh[r].pair] = <<>>

RateInv == RateTableTypeOK /\ RowFound /\ (~disturbed => Undisturbed) /\ ListsAreWhole

(* What a refresh is made of. *)
LEMMA RefreshTyped ==
    ASSUME RateTableTypeOK, NEW r \in RateReaders
    PROVE  /\ refresh[r].stage \in {"idle", "find", "save", "history", "done"}
           /\ refresh[r].pair \in SupportedPairs /\ refresh[r].expires \in Nat /\ refresh[r].row \in Nat
           /\ r \in Refreshing <=> refresh[r].stage \in {"find", "save", "history"}
  BY DEF RateTableTypeOK, Refreshing

(* A step that moves the refresh of one reader and leaves the table alone. *)
LEMMA RefreshMoves ==
    ASSUME RateInv, NEW r \in RateReaders, UNCHANGED <<rateRows, rateTick>>,
           NEW x \in [stage : {"idle", "find", "save", "history", "done"},
                      pair : SupportedPairs, expires : Nat, row : Nat],
           refresh' = [refresh EXCEPT ![r] = x],
           x.stage = "save" => x.row \in 0..Len(rateRows[x.pair]),
           listed' \in [RateReaders -> SUBSET SupportedPairs], excused' \subseteq RateReaders,
           disturbed' \in BOOLEAN, ListsAreWhole',
           ~disturbed' => Undisturbed'
    PROVE  RateInv'
  <1>1. RateTableTypeOK'
    BY DEF RateInv, RateTableTypeOK
  <1>2. refresh'[r] = x /\ \A s \in RateReaders : s # r => refresh'[s] = refresh[s]
    BY DEF RateInv, RateTableTypeOK
  <1>3. RowFound'
    BY <1>2 DEF RateInv, RowFound
  <1> QED BY <1>1, <1>3 DEF RateInv

(* A refresh begins: disturbed if another is under way. *)
LEMMA StartRefreshStep ==
    ASSUME RateInv, NEW r \in RateReaders, refresh[r].stage = "idle", startRefresh(r),
           UNCHANGED <<rateRows, rateTick, listed, excused>>
    PROVE  RateInv'
  <1> USE RateTableAssumption
  <1>0. RateTableTypeOK
    BY DEF RateInv
  <1>1. PICK x : x = [NoRefresh EXCEPT !.stage = "find", !.expires = rateTick + TtlTicks]
    OBVIOUS
  <1>2. x \in [stage : {"idle", "find", "save", "history", "done"},
               pair : SupportedPairs, expires : Nat, row : Nat]
        /\ x.stage = "find" /\ x.pair = 1
    <2>1. 1 \in SupportedPairs /\ rateTick + TtlTicks \in Nat
      BY <1>0 DEF RateTableTypeOK, SupportedPairs
    <2> QED BY <1>1, <2>1 DEF NoRefresh
  <1>3. refresh' = [refresh EXCEPT ![r] = x] /\ disturbed' = (disturbed \/ Refreshing # {})
    BY <1>1 DEF startRefresh
  <1>4. refresh'[r] = x /\ \A s \in RateReaders : s # r => refresh'[s] = refresh[s]
    BY <1>0, <1>3 DEF RateTableTypeOK
  <1>5. ASSUME ~disturbed'
        PROVE  Undisturbed'
    <2>1. ~disturbed /\ Refreshing = {} /\ Undisturbed
      BY <1>3, <1>5 DEF RateInv
    <2>2. Refreshing' = {r}
      BY <1>2, <1>4, <2>1 DEF Refreshing
    <2>3. DonePairs(r)' = {}
      BY <1>2, <1>4 DEF DonePairs, SupportedPairs
    <2> QED BY <1>2, <1>4, <2>1, <2>2, <2>3 DEF Undisturbed
  <1>6. ListsAreWhole'
    BY DEF RateInv, ListsAreWhole
  <1>7. /\ listed' \in [RateReaders -> SUBSET SupportedPairs] /\ excused' \subseteq RateReaders
        /\ disturbed' \in BOOLEAN
    BY <1>0, <1>3 DEF RateTableTypeOK
  <1> QED BY <1>2, <1>3, <1>5, <1>6, <1>7, RefreshMoves

(* An answer changes no refresh that is under way. *)
LEMMA GetRatesStep ==
    ASSUME RateInv, NEW r \in RateReaders, getRates(r)
    PROVE  RateInv'
  <1> USE RateTableAssumption
  <1>0. RateTableTypeOK /\ refresh[r].stage = "idle"
    BY DEF RateInv, getRates
  <1>1. CASE startRefresh(r) /\ UNCHANGED <<listed, excused>>
    BY <1>0, <1>1, StartRefreshStep DEF getRates
  <1>2. CASE /\ GoodPairs # {}
             /\ listed' = [listed EXCEPT ![r] = GoodPairs]
             /\ excused' = IF disturbed \/ Refreshing # {} THEN excused \cup {r} ELSE excused
             /\ refresh' = [refresh EXCEPT ![r].stage = "done"]
             /\ UNCHANGED disturbed
    <2>1. PICK x : x = [refresh[r] EXCEPT !.stage = "done"]
      OBVIOUS
    <2>2. /\ x \in [stage : {"idle", "find", "save", "history", "done"},
                    pair : SupportedPairs, expires : Nat, row : Nat]
          /\ x.stage = "done"
      <3>1. refresh[r] \in [stage : {"idle", "find", "save", "history", "done"},
                            pair : SupportedPairs, expires : Nat, row : Nat]
        BY <1>0 DEF RateTableTypeOK
      <3> QED BY <2>1, <3>1
    <2>3. refresh' = [refresh EXCEPT ![r] = x] /\ UNCHANGED <<rateRows, rateTick>>
      BY <1>2, <2>1 DEF getRates
    <2>4. refresh'[r] = x /\ \A s \in RateReaders : s # r => refresh'[s] = refresh[s]
      BY <1>0, <2>3 DEF RateTableTypeOK
    <2>5. Refreshing' = Refreshing /\ r \notin Refreshing
      BY <1>0, <2>2, <2>4 DEF Refreshing
    <2>6. \A s \in Refreshing : DonePairs(s)' = DonePairs(s) /\ refresh'[s] = refresh[s]
      BY <2>4, <2>5 DEF DonePairs, Refreshing
    <2>7. ~disturbed' => Undisturbed'
      BY <1>2, <2>3, <2>5, <2>6 DEF RateInv, Undisturbed
    <2>8. ~disturbed /\ Refreshing = {} => GoodPairs = SupportedPairs
      <3> SUFFICES ASSUME ~disturbed, Refreshing = {}
                   PROVE  GoodPairs = SupportedPairs
        OBVIOUS
      <3>1. PICK p \in SupportedPairs : Good(p)
        BY <1>2 DEF GoodPairs
      <3>2. \A q \in SupportedPairs : rateRows[q] = rateRows[p]
        BY DEF RateInv, Undisturbed
      <3>3. \A q \in SupportedPairs : Good(q)
        BY <3>1, <3>2 DEF Good
      <3> QED BY <3>3 DEF GoodPairs
    <2>9. ListsAreWhole'
      BY <1>0, <1>2, <2>8 DEF RateInv, ListsAreWhole, RateTableTypeOK
    <2>10. /\ listed' \in [RateReaders -> SUBSET SupportedPairs] /\ excused' \subseteq RateReaders
           /\ disturbed' \in BOOLEAN
      BY <1>0, <1>2 DEF RateTableTypeOK, GoodPairs
    <2> QED BY <2>2, <2>3, <2>7, <2>9, <2>10, RefreshMoves
  <1> QED BY <1>1, <1>2 DEF getRates

(* The row a refresh found is still there when it is saved: none is removed. *)
LEMMA FindRowStep ==
    ASSUME RateInv, NEW r \in RateReaders, NEW i \in 0..Len(rateRows[refresh[r].pair]), findRow(r, i)
    PROVE  RateInv'
  <1> USE RateTableAssumption
  <1>0. RateTableTypeOK /\ refresh[r].stage = "find" /\ UNCHANGED <<rateRows, rateTick,
                                                                    listed, excused,
                                                                    disturbed>>
    BY DEF RateInv, findRow
  <1>1. PICK x : x = [refresh[r] EXCEPT !.stage = "save", !.row = i]
    OBVIOUS
  <1>2. /\ x \in [stage : {"idle", "find", "save", "history", "done"},
                  pair : SupportedPairs, expires : Nat, row : Nat]
        /\ x.stage = "save" /\ x.row = i /\ x.pair = refresh[r].pair /\ x.expires = refresh[r].expires
    <2>1. refresh[r] \in [stage : {"idle", "find", "save", "history", "done"},
                          pair : SupportedPairs, expires : Nat, row : Nat]
      BY <1>0 DEF RateTableTypeOK
    <2>2. i \in Nat
      <3>1. rateRows[refresh[r].pair] \in Seq(Nat)
        BY <1>0, <2>1 DEF RateTableTypeOK
      <3> QED BY <3>1
    <2> QED BY <1>1, <2>1, <2>2
  <1>3. refresh' = [refresh EXCEPT ![r] = x]
    BY <1>0, <1>1 DEF findRow, RateTableTypeOK
  <1>4. refresh'[r] = x /\ \A s \in RateReaders : s # r => refresh'[s] = refresh[s]
    BY <1>0, <1>3 DEF RateTableTypeOK
  <1>5. Refreshing' = Refreshing
    BY <1>0, <1>2, <1>4 DEF Refreshing
  <1>6. \A s \in RateReaders : DonePairs(s)' = DonePairs(s) /\ refresh'[s].expires = refresh[s].expires
    BY <1>0, <1>2, <1>4 DEF DonePairs
  <1>7. i = 0 => rateRows[refresh[r].pair] = <<>>
    BY DEF findRow
  <1>8. ASSUME ~disturbed'
        PROVE  Undisturbed'
    <2>1. Undisturbed
      BY <1>0, <1>8 DEF RateInv
    <2>2. \A s \in Refreshing : refresh'[s].stage = "save" /\ refresh'[s].row = 0 => rateRows'[refresh'[s].pair] = <<>>
      BY <1>0, <1>2, <1>4, <1>7, <2>1 DEF Undisturbed, Refreshing
    <2> QED BY <1>0, <1>5, <1>6, <2>1, <2>2 DEF Undisturbed, Refreshing
  <1>9. ListsAreWhole'
    BY <1>0 DEF RateInv, ListsAreWhole
  <1>10. /\ listed' \in [RateReaders -> SUBSET SupportedPairs] /\ excused' \subseteq RateReaders
         /\ disturbed' \in BOOLEAN
    BY <1>0 DEF RateTableTypeOK
  <1> QED BY <1>0, <1>2, <1>3, <1>8, <1>9, <1>10, RefreshMoves

(* A pair is written; undisturbed, it has the one row of this refresh. *)
LEMMA SaveRowStep ==
    ASSUME RateInv, NEW r \in RateReaders, saveRow(r)
    PROVE  RateInv'
  <1> USE RateTableAssumption
  <1>0. RateTableTypeOK /\ refresh[r].stage = "save" /\ UNCHANGED <<rateTick, listed,
                                                                    excused, disturbed>>
    BY DEF RateInv, saveRow
  <1>1. PICK x : x = [refresh[r] EXCEPT !.stage = "history"]
    OBVIOUS
  <1>2. /\ x \in [stage : {"idle", "find", "save", "history", "done"},
                  pair : SupportedPairs, expires : Nat, row : Nat]
        /\ x.stage = "history" /\ x.pair = refresh[r].pair /\ x.expires = refresh[r].expires
        /\ refresh[r].pair \in SupportedPairs /\ refresh[r].expires \in Nat
    <2>1. refresh[r] \in [stage : {"idle", "find", "save", "history", "done"},
                          pair : SupportedPairs, expires : Nat, row : Nat]
      BY <1>0 DEF RateTableTypeOK
    <2> QED BY <1>1, <2>1
  <1>3. refresh' = [refresh EXCEPT ![r] = x]
    BY <1>1 DEF saveRow
  <1>4. refresh'[r] = x /\ \A s \in RateReaders : s # r => refresh'[s] = refresh[s]
    BY <1>0, <1>3 DEF RateTableTypeOK
  <1>5. PICK p \in SupportedPairs : p = refresh[r].pair
    BY <1>2
  <1>6. PICK e \in Nat : e = refresh[r].expires
    BY <1>2
  <1>7. rateRows[p] \in Seq(Nat) /\ refresh[r].row \in 0..Len(rateRows[p])
    BY <1>0, <1>5 DEF RateTableTypeOK, RateInv, RowFound
  <1>8. PICK R : R = IF refresh[r].row = 0 THEN Append(rateRows[p], e)
                     ELSE [rateRows[p] EXCEPT ![refresh[r].row] = e]
    OBVIOUS
  <1>9. rateRows' = [rateRows EXCEPT ![p] = R]
    BY <1>5, <1>6, <1>8 DEF saveRow, ExpiresAt
  <1>10. R \in Seq(Nat) /\ Len(R) >= Len(rateRows[p])
    BY <1>7, <1>8
  <1>11. rateRows' \in [SupportedPairs -> Seq(Nat)]
    BY <1>0, <1>9, <1>10 DEF RateTableTypeOK
  <1>12. rateRows'[p] = R /\ \A q \in SupportedPairs : q # p => rateRows'[q] = rateRows[q]
    BY <1>0, <1>9 DEF RateTableTypeOK
  <1>13. RateTableTypeOK'
    <2>1. refresh' \in [RateReaders -> [stage : {"idle", "find", "save", "history", "done"},
                                        pair : SupportedPairs, expires : Nat, row : Nat]]
      BY <1>0, <1>2, <1>3 DEF RateTableTypeOK
    <2> QED BY <1>0, <1>11, <2>1 DEF RateTableTypeOK
  <1>14. RowFound'
    <2> SUFFICES ASSUME NEW s \in RateReaders, refresh'[s].stage = "save"
                 PROVE  refresh'[s].row \in 0..Len(rateRows'[refresh'[s].pair])
      BY DEF RowFound
    <2>1. s # r /\ refresh'[s] = refresh[s]
      BY <1>2, <1>4
    <2>2. refresh[s].row \in 0..Len(rateRows[refresh[s].pair]) /\ refresh[s].pair \in SupportedPairs
      BY <1>0, <2>1, RefreshTyped DEF RateInv, RowFound
    <2>3. Len(rateRows'[refresh[s].pair]) >= Len(rateRows[refresh[s].pair])
      <3>1. CASE refresh[s].pair = p
        BY <1>10, <1>12, <3>1
      <3>2. CASE refresh[s].pair # p
        BY <1>0, <1>12, <2>2, <3>2 DEF RateTableTypeOK
      <3> QED BY <3>1, <3>2
    <2>4. Len(rateRows'[refresh[s].pair]) \in Nat
      BY <1>11, <2>2
    <2> QED BY <2>1, <2>2, <2>3, <2>4
  <1>15. ASSUME ~disturbed'
         PROVE  Undisturbed'
    <2>1. Undisturbed
      BY <1>0, <1>15 DEF RateInv
    <2>2. Refreshing' = Refreshing /\ r \in Refreshing
      BY <1>0, <1>2, <1>4 DEF Refreshing
    <2>3. DonePairs(r)' = DonePairs(r) \cup {p} /\ p \notin DonePairs(r)
      BY <1>0, <1>2, <1>4, <1>5 DEF DonePairs, SupportedPairs
    <2>4. R = <<e>>
      <3>1. Len(rateRows[p]) <= 1
        BY <2>1 DEF Undisturbed
      <3>2. CASE refresh[r].row = 0
        <4>1. rateRows[p] = <<>>
          BY <1>0, <1>5, <2>1, <2>2, <3>2 DEF Undisturbed
        <4> QED BY <1>8, <3>2, <4>1
      <3>3. CASE refresh[r].row # 0
        <4>0. PICK n, k \in Nat : k <= n /\ n = Len(rateRows[p]) /\ k = refresh[r].row
          <5>1. Len(rateRows[p]) \in Nat
            BY <1>7
          <5> QED BY <1>7, <5>1
        <4>1. refresh[r].row = 1 /\ Len(rateRows[p]) = 1
          <5>1. n <= 1 /\ k # 0 /\ k <= n
            BY <3>1, <3>3, <4>0
          <5>2. k = 1 /\ n = 1
            BY <5>1
          <5> QED BY <4>0, <5>2
        <4>2. R = [rateRows[p] EXCEPT ![1] = e]
          BY <1>8, <4>1
        <4>3. Len(R) = 1 /\ R[1] = e
          BY <1>7, <4>1, <4>2
        <4> QED BY <1>10, <4>3
      <3> QED BY <3>2, <3>3
    <2>5. \A q \in DonePairs(r)' : rateRows'[q] = <<refresh'[r].expires>>
      BY <1>2, <1>4, <1>6, <1>12, <2>1, <2>2, <2>3, <2>4 DEF Undisturbed, DonePairs
    <2>6. \A q, o \in SupportedPairs \ DonePairs(r)' : rateRows'[q] = rateRows'[o]
      BY <1>12, <2>1, <2>2, <2>3 DEF Undisturbed
    <2>7. \A q \in SupportedPairs : Len(rateRows'[q]) <= 1
      <3>1. Len(R) = 1
        BY <2>4
      <3>2. TAKE q \in SupportedPairs
      <3>3. CASE q = p
        <4>1. Len(rateRows'[q]) = 1
          BY <1>12, <3>1, <3>3
        <4> QED BY <4>1
      <3>4. CASE q # p
        <4>1. Len(rateRows[q]) <= 1
          BY <2>1 DEF Undisturbed
        <4> QED BY <1>12, <3>4, <4>1
      <3> QED BY <3>3, <3>4
    <2>8. \A s \in Refreshing' : s = r
      BY <2>1, <2>2 DEF Undisturbed
    <2>9. refresh'[r].stage = "history"
      BY <1>2, <1>4
    <2> QED BY <2>2, <2>5, <2>6, <2>7, <2>8, <2>9 DEF Undisturbed
  <1>16. ListsAreWhole'
    BY <1>0 DEF RateInv, ListsAreWhole
  <1> QED BY <1>13, <1>14, <1>15, <1>16 DEF RateInv

(* The next pair, or the end: then all pairs have the row of this refresh. *)
LEMMA SaveHistoryStep ==
    ASSUME RateInv, NEW r \in RateReaders, saveHistory(r)
    PROVE  RateInv'
  <1> USE RateTableAssumption
  <1>0. RateTableTypeOK /\ refresh[r].stage = "history" /\ UNCHANGED <<rateRows,
                                                                       rateTick, listed,
                                                                       excused, disturbed>>
    BY DEF RateInv, saveHistory
  <1>1. PICK x : x = IF refresh[r].pair = PairCount THEN [refresh[r] EXCEPT !.stage = "done"]
                     ELSE [refresh[r] EXCEPT !.stage = "find", !.pair = refresh[r].pair + 1]
    OBVIOUS
  <1>2. /\ x \in [stage : {"idle", "find", "save", "history", "done"},
                  pair : SupportedPairs, expires : Nat, row : Nat]
        /\ x.expires = refresh[r].expires
        /\ \/ x.stage = "done" /\ refresh[r].pair = PairCount
           \/ x.stage = "find" /\ x.pair = refresh[r].pair + 1
    <2>1. refresh[r] \in [stage : {"idle", "find", "save", "history", "done"},
                          pair : SupportedPairs, expires : Nat, row : Nat]
      BY <1>0 DEF RateTableTypeOK
    <2>2. CASE refresh[r].pair = PairCount
      BY <1>1, <2>1, <2>2
    <2>3. CASE refresh[r].pair # PairCount
      <3>1. refresh[r].pair + 1 \in SupportedPairs
        BY <2>1, <2>3 DEF SupportedPairs
      <3> QED BY <1>1, <2>1, <2>3, <3>1
    <2> QED BY <2>2, <2>3
  <1>3. refresh' = [refresh EXCEPT ![r] = x]
    <2>1. CASE refresh[r].pair = PairCount
      BY <1>1, <2>1 DEF saveHistory
    <2>2. CASE refresh[r].pair # PairCount
      <3>1. x = [refresh[r] EXCEPT !.stage = "find", !.pair = @ + 1]
        BY <1>1, <2>2
      <3> QED BY <2>2, <3>1 DEF saveHistory
    <2> QED BY <2>1, <2>2
  <1>4. refresh'[r] = x /\ \A s \in RateReaders : s # r => refresh'[s] = refresh[s]
    BY <1>0, <1>3 DEF RateTableTypeOK
  <1>5. ASSUME ~disturbed'
        PROVE  Undisturbed'
    <2>1. Undisturbed /\ r \in Refreshing
      BY <1>0, <1>5 DEF RateInv, Refreshing
    <2>2. Refreshing = {r}
      BY <2>1 DEF Undisturbed
    <2>3. CASE x.stage = "done" /\ refresh[r].pair = PairCount
      <3>1. Refreshing' = {}
        BY <1>4, <2>2, <2>3 DEF Refreshing
      <3>2. DonePairs(r) = SupportedPairs
        BY <1>0, <2>3 DEF DonePairs, SupportedPairs
      <3> QED BY <1>0, <2>1, <3>1, <3>2 DEF Undisturbed
    <2>4. CASE x.stage = "find" /\ x.pair = refresh[r].pair + 1
      <3>1. Refreshing' = {r}
        BY <1>4, <2>2, <2>4 DEF Refreshing
      <3>2. DonePairs(r)' = DonePairs(r)
        BY <1>0, <1>4, <2>4, RefreshTyped DEF DonePairs, SupportedPairs
      <3> QED BY <1>0, <1>2, <1>4, <2>1, <2>4, <3>1, <3>2 DEF Undisturbed
    <2> QED BY <1>2, <2>3, <2>4
  <1>6. ListsAreWhole'
    BY <1>0 DEF RateInv, ListsAreWhole
  <1>7. /\ listed' \in [RateReaders -> SUBSET SupportedPairs] /\ excused' \subseteq RateReaders
        /\ disturbed' \in BOOLEAN
    BY <1>0 DEF RateTableTypeOK
  <1> QED BY <1>0, <1>2, <1>3, <1>5, <1>6, <1>7, RefreshMoves

(* A failure disturbs; a new request only forgets an answer. *)
LEMMA EndOfRefreshStep ==
    ASSUME RateInv, NEW r \in RateReaders, refreshFails(r) \/ newRequest(r)
    PROVE  RateInv'
  <1> USE RateTableAssumption
  <1>0. RateTableTypeOK /\ UNCHANGED <<rateRows, rateTick>>
    BY DEF RateInv, refreshFails, newRequest
  <1>1. CASE refreshFails(r)
    <2>1. PICK x : x = [refresh[r] EXCEPT !.stage = "done"]
      OBVIOUS
    <2>2. /\ x \in [stage : {"idle", "find", "save", "history", "done"},
                    pair : SupportedPairs, expires : Nat, row : Nat]
          /\ x.stage = "done"
      <3>1. refresh[r] \in [stage : {"idle", "find", "save", "history", "done"},
                            pair : SupportedPairs, expires : Nat, row : Nat]
        BY <1>0 DEF RateTableTypeOK
      <3> QED BY <2>1, <3>1
    <2>3. refresh' = [refresh EXCEPT ![r] = x] /\ disturbed' = TRUE /\ UNCHANGED <<listed,
                                                                                   excused>>
      BY <1>1, <2>1 DEF refreshFails
    <2>4. ListsAreWhole'
      BY <2>3 DEF RateInv, ListsAreWhole
    <2>5. /\ listed' \in [RateReaders -> SUBSET SupportedPairs] /\ excused' \subseteq RateReaders
          /\ disturbed' \in BOOLEAN
      BY <1>0, <2>3 DEF RateTableTypeOK
    <2> QED BY <1>0, <2>2, <2>3, <2>4, <2>5, RefreshMoves
  <1>2. CASE newRequest(r)
    <2>1. NoRefresh \in [stage : {"idle", "find", "save", "history", "done"},
                         pair : SupportedPairs, expires : Nat, row : Nat]
          /\ NoRefresh.stage = "idle"
      BY DEF NoRefresh, SupportedPairs
    <2>2. /\ refresh[r].stage = "done" /\ refresh' = [refresh EXCEPT ![r] = NoRefresh]
          /\ listed' = [listed EXCEPT ![r] = SupportedPairs] /\ excused' = excused \ {r} /\ UNCHANGED disturbed
      BY <1>2 DEF newRequest
    <2>3. refresh'[r] = NoRefresh /\ \A s \in RateReaders : s # r => refresh'[s] = refresh[s]
      BY <1>0, <2>2 DEF RateTableTypeOK
    <2>4. Refreshing' = Refreshing /\ r \notin Refreshing
      BY <2>1, <2>2, <2>3 DEF Refreshing
    <2>5. \A s \in Refreshing : DonePairs(s)' = DonePairs(s) /\ refresh'[s] = refresh[s]
      BY <2>3, <2>4 DEF DonePairs, Refreshing
    <2>6. ~disturbed' => Undisturbed'
      BY <1>0, <2>2, <2>4, <2>5 DEF RateInv, Undisturbed
    <2>7. ListsAreWhole'
      BY <1>0, <2>2 DEF RateInv, ListsAreWhole, RateTableTypeOK
    <2>8. /\ listed' \in [RateReaders -> SUBSET SupportedPairs] /\ excused' \subseteq RateReaders
          /\ disturbed' \in BOOLEAN
      BY <1>0, <2>2 DEF RateTableTypeOK
    <2> QED BY <1>0, <2>1, <2>2, <2>6, <2>7, <2>8, RefreshMoves
  <1> QED BY <1>1, <1>2

(* Every step of the table keeps the invariant. *)
LEMMA RateInvStep == RateInv /\ [RateTableNext]_rateVars => RateInv'
  <1> SUFFICES ASSUME RateInv, [RateTableNext]_rateVars PROVE RateInv'
    OBVIOUS
  <1>1. ASSUME NEW r \in RateReaders,
               refreshExpiredRates(r) \/ \E p \in SupportedPairs \cup {UnsupportedPair} : getRateByPair(r, p)
        PROVE  RateInv'
    BY <1>1, StartRefreshStep DEF refreshExpiredRates, getRateByPair
  <1>2. ASSUME UNCHANGED <<rateRows, refresh, listed, excused, disturbed>>, rateTick' \in 0..LastRateTick
        PROVE  RateInv'
    <2>1. RateTableTypeOK'
      BY <1>2 DEF RateInv, RateTableTypeOK
    <2>2. RowFound' /\ ListsAreWhole'
      BY <1>2 DEF RateInv, RowFound, ListsAreWhole
    <2>3. ~disturbed' => Undisturbed'
      BY <1>2 DEF RateInv, Undisturbed, Refreshing, DonePairs
    <2> QED BY <2>1, <2>2, <2>3 DEF RateInv
  <1>3. CASE rateTime
    <2>1. rateTick' \in 0..LastRateTick
      BY <1>3, RateTableAssumption DEF rateTime, RateInv, RateTableTypeOK
    <2> QED BY <1>2, <1>3, <2>1 DEF rateTime
  <1>4. CASE UNCHANGED rateVars
    BY <1>2, <1>4 DEF rateVars, RateInv, RateTableTypeOK
  <1> QED BY <1>1, <1>3, <1>4, GetRatesStep, FindRowStep, SaveRowStep, SaveHistoryStep, EndOfRefreshStep
          DEF RateTableNext

(* The invariant of the table holds initially. *)
LEMMA RateInvInit == RateTableInit => RateInv
  <1> SUFFICES ASSUME RateTableInit PROVE RateInv
    OBVIOUS
  <1> USE RateTableAssumption
  <1>1. NoRefresh \in [stage : {"idle", "find", "save", "history", "done"},
                       pair : SupportedPairs, expires : Nat, row : Nat]
        /\ NoRefresh.stage = "idle"
    BY DEF NoRefresh, SupportedPairs
  <1>2. RateTableTypeOK
    <2>1. rateRows \in [SupportedPairs -> Seq(Nat)]
      <3>1. << >> \in Seq(Nat)
        OBVIOUS
      <3> QED BY <3>1 DEF RateTableInit
    <2>2. rateTick \in 0..LastRateTick
      BY DEF RateTableInit
    <2> QED BY <1>1, <2>1, <2>2 DEF RateTableInit, RateTableTypeOK
  <1>3. Refreshing = {} /\ RowFound
    BY <1>1 DEF RateTableInit, Refreshing, RowFound
  <1>4. Undisturbed
    BY <1>3 DEF RateTableInit, Undisturbed
  <1> QED BY <1>2, <1>3, <1>4 DEF RateInv, RateTableInit, ListsAreWhole

(* getRates answers with the whole list as long as refreshes ran one at a  *)
(* time and to their end, for any readers, pairs and time to live.         *)
THEOREM ListsWhole == RateTableSpec => [](RateTableTypeOK /\ ListsAreWhole)
  <1>1. RateInv => RateTableTypeOK /\ ListsAreWhole
    BY DEF RateInv
  <1> QED BY <1>1, RateInvInit, RateInvStep, PTL DEF RateTableSpec

----------------------------------------------------------------------------
(***************************************************************************)
(* The feed of rates (RatesGateway).                                       *)
(***************************************************************************)
(* The buffer holds the newest updates, as many as fit, in order. *)
BufferIsTail ==
    /\ Len(eventBuffer) = IF Len(stampOf) < maxBufferSize THEN Len(stampOf) ELSE maxBufferSize
    /\ \A i \in 1..Len(eventBuffer) : eventBuffer[i] = Len(stampOf) - Len(eventBuffer) + i

StampsAscend == /\ \A i, j \in 1..Len(stampOf) : i <= j => stampOf[i] <= stampOf[j]
                /\ \A i \in 1..Len(stampOf) : stampOf[i] <= instant

LastIsReceived == \/ lastReceivedAt = 0 /\ received = {}
                  \/ \E m \in received : stampOf[m] = lastReceivedAt

GatewayTypes ==
    /\ stampOf \in Seq(1..LastInstant) /\ Len(stampOf) <= MaxUpdates
    /\ eventBuffer \in Seq(1..MaxUpdates)
    /\ instant \in 1..LastInstant
    /\ connected \in BOOLEAN /\ asked \in BOOLEAN
    /\ received \subseteq 1..Len(stampOf)
    /\ lastReceivedAt \in 0..LastInstant
    /\ missing \subseteq 1..Len(stampOf)

GInv == /\ GatewayTypes /\ BufferIsTail /\ StampsAscend /\ LastIsReceived
        /\ missing \cap received = {}
        /\ ReplayIsComplete

(* A sequence that is short enough. *)
LEMMA BoundedSeqs ==
    ASSUME NEW S, NEW n \in Nat, NEW s \in Seq(S), Len(s) <= n
    PROVE  s \in BoundedSeq(S, n)
  <1>1. Len(s) \in 0..n /\ s \in [1..Len(s) -> S]
    OBVIOUS
  <1> QED BY <1>1 DEF BoundedSeq, SeqOf

(* The types, as GatewayTypeOK states them. *)
LEMMA GInvTypes == GInv => GatewayTypeOK
  <1> SUFFICES ASSUME GInv PROVE GatewayTypeOK
    OBVIOUS
  <1> USE GatewayAssumption
  <1>0. GatewayTypes /\ BufferIsTail
    BY DEF GInv
  <1>1. Len(stampOf) \in Nat /\ DOMAIN stampOf = 1..Len(stampOf)
    BY <1>0 DEF GatewayTypes
  <1>2. stampOf \in BoundedSeq(1..LastInstant, MaxUpdates)
    BY <1>0, BoundedSeqs DEF GatewayTypes
  <1>3. Len(eventBuffer) <= maxBufferSize
    BY <1>0, <1>1 DEF BufferIsTail
  <1>4. eventBuffer \in BoundedSeq(1..MaxUpdates, maxBufferSize)
    BY <1>0, <1>3, BoundedSeqs DEF GatewayTypes
  <1> QED BY <1>0, <1>1, <1>2, <1>4 DEF GatewayTypes, GatewayTypeOK

(* What is in the buffer: the updates that maxBufferSize newer ones did not push out. *)
LEMMA Buffered ==
    ASSUME GInv
    PROVE  ToSet(eventBuffer) = {n \in 1..Len(stampOf) : n + maxBufferSize > Len(stampOf)}
  <1> USE GatewayAssumption
  <1>1. GatewayTypes /\ BufferIsTail
    BY DEF GInv
  <1>2. PICK k, b \in Nat : k = Len(stampOf) /\ b = Len(eventBuffer)
    BY <1>1 DEF GatewayTypes
  <1>3. ToSet(eventBuffer) = {eventBuffer[i] : i \in 1..b}
    <2>1. DOMAIN eventBuffer = 1..b
      BY <1>1, <1>2 DEF GatewayTypes
    <2> QED BY <2>1 DEF ToSet
  <1>4. /\ b = IF k < maxBufferSize THEN k ELSE maxBufferSize
        /\ \A i \in 1..b : eventBuffer[i] = k - b + i
    BY <1>1, <1>2 DEF BufferIsTail
  <1>5. \A i \in 1..b : eventBuffer[i] \in 1..k /\ eventBuffer[i] + maxBufferSize > k
    BY <1>4
  <1>6. ASSUME NEW n \in 1..k, n + maxBufferSize > k
        PROVE  n \in {eventBuffer[i] : i \in 1..b}
    <2>1. n - k + b \in 1..b
      BY <1>4, <1>6
    <2>2. eventBuffer[n - k + b] = n
      BY <1>4, <2>1
    <2> QED BY <2>1, <2>2
  <1> QED BY <1>2, <1>3, <1>5, <1>6

(* An update comes last in the buffer; what was excusable still is. *)
LEMMA BroadcastStep ==
    ASSUME GInv, broadcastRateUpdate
    PROVE  GInv'
  <1> USE GatewayAssumption
  <1>0. GatewayTypes /\ BufferIsTail /\ StampsAscend /\ LastIsReceived /\ missing \cap received = {}
    BY DEF GInv
  <1>1. PICK k, b \in Nat : k = Len(stampOf) /\ b = Len(eventBuffer)
    BY <1>0 DEF GatewayTypes
  <1>2. /\ k + 1 <= MaxUpdates /\ stampOf' = Append(stampOf, instant)
        /\ eventBuffer' = Trimmed(Append(eventBuffer, k + 1))
        /\ received' = IF connected THEN received \cup {k + 1} ELSE received
        /\ lastReceivedAt' = IF connected THEN instant ELSE lastReceivedAt
        /\ missing' = IF connected THEN missing ELSE missing \cup {k + 1}
        /\ UNCHANGED <<instant, connected, asked>>
    BY <1>1 DEF broadcastRateUpdate
  <1>3. /\ stampOf' \in Seq(1..LastInstant) /\ Len(stampOf') = k + 1
        /\ stampOf'[k + 1] = instant
        /\ \A i \in 1..k : stampOf'[i] = stampOf[i] /\ stampOf[i] \in 1..LastInstant
    BY <1>0, <1>1, <1>2 DEF GatewayTypes
  <1>4. received \subseteq 1..k /\ missing \subseteq 1..k /\ k + 1 \notin 1..k /\ 1..k \subseteq 1..(k+1)
        /\ k + 1 \in 1..(k+1)
    BY <1>0, <1>1 DEF GatewayTypes
  <1>5. /\ b = IF k < maxBufferSize THEN k ELSE maxBufferSize
        /\ \A i \in 1..b : eventBuffer[i] = k - b + i
    BY <1>0, <1>1 DEF BufferIsTail
  <1>6. PICK A : A = Append(eventBuffer, k + 1)
    OBVIOUS
  <1>7. A \in Seq(1..MaxUpdates) /\ Len(A) = b + 1 /\ \A i \in 1..(b + 1) : A[i] = k - b + i
    <2>1. k + 1 \in 1..MaxUpdates
      BY <1>2
    <2>2. A \in Seq(1..MaxUpdates) /\ Len(A) = b + 1 /\ A[b + 1] = k + 1 /\ \A i \in 1..b : A[i] = eventBuffer[i]
      BY <1>0, <1>1, <1>6, <2>1 DEF GatewayTypes
    <2>3. A[b + 1] = k - b + (b + 1)
      BY <2>2
    <2>4. \A i \in 1..(b + 1) : i \in 1..b \/ i = b + 1
      OBVIOUS
    <2> QED BY <1>5, <2>2, <2>3, <2>4
  <1>8. BufferIsTail' /\ eventBuffer' \in Seq(1..MaxUpdates)
    <2>1. CASE b + 1 > maxBufferSize
      <3>1. eventBuffer' = Tail(A)
        BY <1>2, <1>6, <1>7, <2>1 DEF Trimmed
      <3>2. b = maxBufferSize /\ b # 0 /\ k >= maxBufferSize
        BY <1>5, <2>1
      <3>3. Len(eventBuffer') = b /\ eventBuffer' \in Seq(1..MaxUpdates) /\ \A i \in 1..b : eventBuffer'[i] = A[i + 1]
        BY <1>7, <3>1, <3>2
      <3>4. \A i \in 1..b : eventBuffer'[i] = (k + 1) - b + i
        BY <1>7, <3>3
      <3>5. b = IF k + 1 < maxBufferSize THEN k + 1 ELSE maxBufferSize
        BY <3>2
      <3> QED BY <1>3, <3>3, <3>4, <3>5 DEF BufferIsTail
    <2>2. CASE ~(b + 1 > maxBufferSize)
      <3>1. eventBuffer' = A
        BY <1>2, <1>6, <1>7, <2>2 DEF Trimmed
      <3>2. b = k /\ k < maxBufferSize
        BY <1>5, <2>2
      <3>3. b + 1 = IF k + 1 < maxBufferSize THEN k + 1 ELSE maxBufferSize
        BY <3>2
      <3>4. \A i \in 1..(b + 1) : A[i] = (k + 1) - (b + 1) + i
        BY <1>7
      <3> QED BY <1>3, <1>7, <3>1, <3>3, <3>4 DEF BufferIsTail
    <2> QED BY <2>1, <2>2
  <1>9. GatewayTypes'
    <2>1. received' \subseteq 1..(k + 1) /\ missing' \subseteq 1..(k + 1)
      BY <1>2, <1>4
    <2>2. lastReceivedAt' \in 0..LastInstant
      BY <1>0, <1>2 DEF GatewayTypes
    <2> QED BY <1>0, <1>2, <1>3, <1>8, <2>1, <2>2 DEF GatewayTypes
  <1>10. StampsAscend'
    <2>1. /\ \A i, j \in 1..k : i <= j => stampOf'[i] <= stampOf'[j]
          /\ \A i \in 1..k : stampOf'[i] <= instant
      BY <1>0, <1>1, <1>3 DEF StampsAscend
    <2>2. \A i \in 1..(k + 1) : stampOf'[i] <= instant
      <3>1. instant <= instant
        BY <1>0 DEF GatewayTypes
      <3> QED BY <1>3, <2>1, <3>1
    <2>3. \A i, j \in 1..(k + 1) : i <= j => stampOf'[i] <= stampOf'[j]
      <3>1. SUFFICES ASSUME NEW i \in 1..(k + 1), NEW j \in 1..(k + 1), i <= j PROVE stampOf'[i] <= stampOf'[j]
        OBVIOUS
      <3>2. CASE j = k + 1
        BY <1>3, <2>2, <3>2
      <3>3. CASE j # k + 1
        <4>1. i \in 1..k /\ j \in 1..k
          BY <3>1, <3>3
        <4> QED BY <2>1, <3>1, <4>1
      <3> QED BY <3>2, <3>3
    <2> QED BY <1>2, <1>3, <2>2, <2>3 DEF StampsAscend
  <1>11. LastIsReceived'
    <2>1. CASE connected
      BY <1>2, <1>3, <2>1 DEF LastIsReceived
    <2>2. CASE ~connected
      BY <1>0, <1>2, <1>3, <1>4, <2>2 DEF LastIsReceived
    <2> QED BY <2>1, <2>2
  <1>12. missing' \cap received' = {}
    BY <1>0, <1>2, <1>4
  <1>13. ReplayIsComplete'
    <2> SUFFICES ASSUME connected, asked, NEW n \in missing' PROVE Excusable(n)'
      BY <1>2 DEF ReplayIsComplete
    <2>1. n \in missing /\ Excusable(n) /\ n \in 1..k
      BY <1>2, <1>4 DEF GInv, ReplayIsComplete
    <2>2. received \subseteq received' /\ received \subseteq 1..k
      BY <1>2, <1>4
    <2>3. CASE n + maxBufferSize <= k
      <3>1. n + maxBufferSize <= k + 1
        BY <2>1, <2>3
      <3> QED BY <1>3, <3>1 DEF Excusable
    <2>4. CASE stampOf[n] <= instant - replayWindowMs
      BY <1>2, <1>3, <2>1, <2>4 DEF Excusable
    <2>5. CASE \E m \in received : m # n /\ stampOf[m] >= stampOf[n]
      <3>1. PICK m \in received : m # n /\ stampOf[m] >= stampOf[n]
        BY <2>5
      <3>2. m \in received' /\ stampOf'[m] = stampOf[m] /\ stampOf'[n] = stampOf[n]
        BY <1>3, <2>1, <2>2
      <3> QED BY <3>1, <3>2 DEF Excusable
    <2> QED BY <1>1, <2>1, <2>3, <2>4, <2>5 DEF Excusable
  <1> QED BY <1>8, <1>9, <1>10, <1>11, <1>12, <1>13 DEF GInv

(* Stamps ascend, so a replay that brings anything brings the newest update *)
(* too; what it leaves out was pushed out, or is no newer than Since.      *)
LEMMA ReplayStep ==
    ASSUME GInv, handleReplay
    PROVE  GInv'
  <1> USE GatewayAssumption
  <1>0. GatewayTypes /\ BufferIsTail /\ StampsAscend /\ LastIsReceived /\ missing \cap received = {}
    BY DEF GInv
  <1>1. PICK k \in Nat : k = Len(stampOf)
    BY <1>0 DEF GatewayTypes
  <1>2. PICK missed : missed = {n \in ToSet(eventBuffer) : stampOf[n] > Since}
    OBVIOUS
  <1>3. missed = {n \in 1..k : n + maxBufferSize > k /\ stampOf[n] > Since}
    BY <1>1, <1>2, Buffered
  <1>4. /\ asked' = TRUE /\ received' = received \cup missed /\ missing' = missing \ missed
        /\ lastReceivedAt' = IF missed = {} THEN lastReceivedAt
                             ELSE stampOf[CHOOSE n \in missed : \A m \in missed : m <= n]
        /\ UNCHANGED <<eventBuffer, stampOf, instant, connected>>
    BY <1>2 DEF handleReplay
  <1>5. \A i \in 1..k : stampOf[i] \in 1..LastInstant
    BY <1>0, <1>1 DEF GatewayTypes
  <1>6. Since \in Int /\ (Since = instant - replayWindowMs \/ Since = lastReceivedAt)
    BY <1>0 DEF Since, GatewayTypes
  <1>7. received \subseteq 1..k /\ missing \subseteq 1..k
    BY <1>0, <1>1 DEF GatewayTypes
  <1>8. ASSUME missed # {}
        PROVE  k \in missed /\ lastReceivedAt' = stampOf[k]
    <2>1. PICK n \in 1..k : stampOf[n] > Since
      BY <1>3, <1>8
    <2>2. k \in 1..k /\ n <= k
      BY <2>1
    <2>3. stampOf[n] <= stampOf[k] /\ stampOf[n] \in Int /\ stampOf[k] \in Int
      BY <1>0, <1>1, <1>5, <2>2 DEF StampsAscend
    <2>4. stampOf[k] > Since
      BY <1>6, <2>1, <2>3
    <2>5. k \in missed
      BY <1>3, <2>2, <2>4
    <2>6. (\A m \in missed : m <= k) /\ \A n2 \in missed : n2 \in Int
      BY <1>3
    <2>7. \A c \in missed : (\A m \in missed : m <= c) => c = k
      BY <2>5, <2>6
    <2>8. (CHOOSE c \in missed : \A m \in missed : m <= c) = k
      BY <2>5, <2>6, <2>7
    <2> QED BY <1>4, <1>8, <2>5, <2>8
  <1>9. GatewayTypes'
    <2>1. lastReceivedAt' \in 0..LastInstant
      <3>1. CASE missed = {}
        BY <1>0, <1>4, <3>1 DEF GatewayTypes
      <3>2. CASE missed # {}
        <4>1. k \in 1..k
          BY <1>3, <1>8, <3>2
        <4>2. stampOf[k] \in 0..LastInstant
          BY <1>5, <4>1
        <4> QED BY <1>8, <3>2, <4>2
      <3> QED BY <3>1, <3>2
    <2>2. received' \subseteq 1..k /\ missing' \subseteq 1..k
      BY <1>3, <1>4, <1>7
    <2> QED BY <1>0, <1>1, <1>4, <2>1, <2>2 DEF GatewayTypes
  <1>10. BufferIsTail' /\ StampsAscend'
    BY <1>0, <1>4 DEF BufferIsTail, StampsAscend
  <1>11. LastIsReceived'
    <2>1. CASE missed = {}
      BY <1>0, <1>4, <2>1 DEF LastIsReceived
    <2>2. CASE missed # {}
      BY <1>4, <1>8, <2>2 DEF LastIsReceived
    <2> QED BY <2>1, <2>2
  <1>12. missing' \cap received' = {}
    BY <1>0, <1>4
  <1>13. ReplayIsComplete'
    <2> SUFFICES ASSUME NEW n \in missing' PROVE Excusable(n)'
      BY DEF ReplayIsComplete
    <2>1. n \in missing /\ n \notin missed /\ n \in 1..k
      BY <1>4, <1>7
    <2>2. n + maxBufferSize <= k \/ stampOf[n] <= Since
      <3>1. ~(n + maxBufferSize > k) \/ ~(stampOf[n] > Since)
        BY <1>3, <2>1
      <3>2. stampOf[n] \in Int
        BY <1>5, <2>1
      <3>3. n + maxBufferSize \in Int
        BY <2>1
      <3> QED BY <1>6, <3>1, <3>2, <3>3
    <2>3. ASSUME stampOf[n] <= lastReceivedAt
          PROVE  \E m \in received : m # n /\ stampOf[m] >= stampOf[n]
      <3>1. stampOf[n] \in 1..LastInstant
        BY <1>5, <2>1
      <3>2. lastReceivedAt # 0
        BY <2>3, <3>1
      <3>3. PICK m \in received : stampOf[m] = lastReceivedAt
        BY <1>0, <3>2 DEF LastIsReceived
      <3>4. m # n
        BY <1>0, <2>1
      <3>5. lastReceivedAt \in Int
        BY <1>0 DEF GatewayTypes
      <3>6. lastReceivedAt >= stampOf[n]
        BY <2>3, <3>1, <3>5
      <3> QED BY <3>3, <3>4, <3>6
    <2>4. CASE n + maxBufferSize <= k
      BY <1>1, <1>4, <2>4 DEF Excusable
    <2>5. CASE stampOf[n] <= instant - replayWindowMs
      BY <1>4, <2>5 DEF Excusable
    <2>6. CASE stampOf[n] <= lastReceivedAt
      BY <1>4, <2>3, <2>6 DEF Excusable
    <2> QED BY <1>6, <2>2, <2>4, <2>5, <2>6
  <1> QED BY <1>9, <1>10, <1>11, <1>12, <1>13 DEF GInv

(* Every step of the gateway keeps the invariant. *)
LEMMA GInvStep == GInv /\ [GatewayNext]_gatewayVars => GInv'
  <1> SUFFICES ASSUME GInv, [GatewayNext]_gatewayVars PROVE GInv'
    OBVIOUS
  <1> USE GatewayAssumption
  <1>0. GatewayTypes /\ BufferIsTail /\ StampsAscend /\ LastIsReceived /\ missing \cap received = {}
    BY DEF GInv
  <1>1. CASE handleConnection
    <2>1. missing' \subseteq missing
      BY <1>1 DEF handleConnection
    <2> QED BY <1>0, <1>1, <2>1 DEF handleConnection, GInv, GatewayTypes, BufferIsTail, StampsAscend,
            LastIsReceived, ReplayIsComplete
  <1>2. CASE handleDisconnect
    BY <1>0, <1>2
       DEF handleDisconnect, GInv, GatewayTypes, BufferIsTail, StampsAscend, LastIsReceived,
       ReplayIsComplete
  <1>3. CASE GatewayTick
    <2>1. instant \in Nat /\ instant' = instant + 1 /\ instant' \in 1..LastInstant
          /\ UNCHANGED <<eventBuffer, stampOf, connected, received, lastReceivedAt,
                         missing, asked>>
      BY <1>0, <1>3 DEF GatewayTick, GatewayTypes
    <2>2. GatewayTypes' /\ BufferIsTail' /\ LastIsReceived' /\ missing' \cap received' = {}
      BY <1>0, <2>1 DEF GatewayTypes, BufferIsTail, LastIsReceived
    <2>3. \A i \in 1..Len(stampOf) : stampOf[i] \in Int
      BY <1>0 DEF GatewayTypes
    <2>4. StampsAscend'
      <3>1. \A i \in 1..Len(stampOf) : stampOf[i] <= instant + 1
        BY <1>0, <2>1, <2>3 DEF StampsAscend
      <3> QED BY <1>0, <2>1, <3>1 DEF StampsAscend
    <2>5. ReplayIsComplete'
      <3> SUFFICES ASSUME connected, asked, NEW n \in missing PROVE Excusable(n)'
        BY <2>1 DEF ReplayIsComplete
      <3>1. Excusable(n) /\ n \in 1..Len(stampOf)
        BY <1>0 DEF GInv, ReplayIsComplete, GatewayTypes
      <3>2. ASSUME stampOf[n] <= instant - replayWindowMs
            PROVE  stampOf[n] <= instant' - replayWindowMs
        <4>1. stampOf[n] \in Int
          BY <2>3, <3>1
        <4> QED BY <2>1, <3>2, <4>1
      <3> QED BY <2>1, <3>1, <3>2 DEF Excusable
    <2> QED BY <2>2, <2>4, <2>5 DEF GInv
  <1>4. CASE UNCHANGED gatewayVars
    BY <1>0, <1>4 DEF gatewayVars, GInv, GatewayTypes, BufferIsTail, StampsAscend, LastIsReceived,
       ReplayIsComplete, Excusable
  <1> QED BY <1>1, <1>2, <1>3, <1>4, BroadcastStep, ReplayStep DEF GatewayNext

(* The invariant of the gateway holds initially. *)
LEMMA GInvInit == ASSUME GatewayInit PROVE GInv
  <1> USE GatewayAssumption
  <1>1. stampOf = <<>> /\ eventBuffer = <<>> /\ Len(stampOf) = 0 /\ Len(eventBuffer) = 0
    BY DEF GatewayInit
  <1>2. GatewayTypes
    <2>1. stampOf \in Seq(1..LastInstant) /\ eventBuffer \in Seq(1..MaxUpdates)
      BY <1>1
    <2>2. instant \in 1..LastInstant /\ lastReceivedAt \in 0..LastInstant
      BY DEF GatewayInit
    <2>3. connected \in BOOLEAN /\ asked \in BOOLEAN
      BY DEF GatewayInit
    <2>4. received = {} /\ missing = {} /\ Len(stampOf) <= MaxUpdates
      BY <1>1 DEF GatewayInit
    <2> QED BY <2>1, <2>2, <2>3, <2>4 DEF GatewayTypes
  <1>3. BufferIsTail /\ StampsAscend
    BY <1>1 DEF BufferIsTail, StampsAscend
  <1>4. LastIsReceived /\ ReplayIsComplete /\ missing \cap received = {}
    BY DEF GatewayInit, LastIsReceived, ReplayIsComplete
  <1> QED BY <1>2, <1>3, <1>4 DEF GInv

(* After its replay a client lacks only updates that cannot be replayed,   *)
(* for any buffer and window, however its absences and the updates fall.   *)
THEOREM ReplaysComplete == GatewaySpec => [](GatewayTypeOK /\ ReplayIsComplete)
  <1>1. GatewayInit => GInv
    BY GInvInit
  <1>2. GInv => GatewayTypeOK /\ ReplayIsComplete
    BY GInvTypes DEF GInv
  <1> QED BY <1>1, <1>2, GInvStep, PTL DEF GatewaySpec

----------------------------------------------------------------------------
(***************************************************************************)
(* The cache of rates (RatesCache).                                        *)
(***************************************************************************)
(* A sequence without repetitions, and the order of two of its elements. *)
Distinct(s) == \A i, j \in 1..Len(s) : s[i] = s[j] => i = j
Before(s, x, y) == \E i, j \in 1..Len(s) : i < j /\ s[i] = x /\ s[j] = y

(* The elements of a sequence, by position. *)
LEMMA Elements ==
    ASSUME NEW S, NEW s \in Seq(S), NEW x
    PROVE  x \in ToSet(s) <=> \E i \in 1..Len(s) : s[i] = x
  <1>1. DOMAIN s = 1..Len(s)
    OBVIOUS
  <1> QED BY <1>1 DEF ToSet

(* The length of a sequence without repetitions is the number of its elements. *)
LEMMA DistinctCount ==
    ASSUME NEW S, NEW s \in Seq(S), Distinct(s)
    PROVE  Cardinality(ToSet(s)) = Len(s)
  <1>1. Len(s) \in Nat /\ DOMAIN s = 1..Len(s) /\ s \in [1..Len(s) -> ToSet(s)]
    <2>1. Len(s) \in Nat /\ DOMAIN s = 1..Len(s) /\ s \in [1..Len(s) -> S]
      OBVIOUS
    <2>2. \A i \in 1..Len(s) : s[i] \in ToSet(s)
      BY <2>1 DEF ToSet
    <2> QED BY <2>1, <2>2
  <1>2. s \in Injection(1..Len(s), ToSet(s))
    BY <1>1 DEF Injection, IsInjective, Distinct
  <1>3. s \in Surjection(1..Len(s), ToSet(s))
    BY <1>1 DEF Surjection, ToSet
  <1>4. ExistsBijection(1..Len(s), ToSet(s))
    BY <1>2, <1>3 DEF ExistsBijection, Bijection
  <1> QED BY <1>1, <1>4, FS_CountingElements

(* Removing a key: the others keep their order. *)
LEMMA Removal ==
    ASSUME NEW S, NEW s \in Seq(S), Distinct(s), NEW k
    PROVE  LET D == RemoveFirst(s, k) IN
           /\ D \in Seq(S) /\ Distinct(D)
           /\ ToSet(D) = ToSet(s) \ {k}
           /\ Len(D) = IF k \in ToSet(s) THEN Len(s) - 1 ELSE Len(s)
           /\ \A x, y : Before(D, x, y) => Before(s, x, y)
           /\ k \notin ToSet(s) => D = s
  <1> DEFINE D == RemoveFirst(s, k)
  <1>0. PICK n \in Nat : n = Len(s)
    OBVIOUS
  <1>1. k \in ToSet(s) <=> \E i \in 1..n : s[i] = k
    BY <1>0, Elements
  <1>2. CASE k \notin ToSet(s)
    <2>1. D = s
      BY <1>0, <1>1, <1>2 DEF RemoveFirst
    <2> QED BY <1>2, <2>1
  <1>3. CASE k \in ToSet(s)
    <2>1. PICK i \in 1..n : s[i] = k
      BY <1>1, <1>3
    <2>2. {j \in 1..Len(s) : s[j] = k} = {i}
      BY <1>0, <2>1 DEF Distinct
    <2>3. Min({i}) = i
      BY <2>1 DEF Min
    <2>4. D = RemoveAt(s, i)
      <3>1. \E j \in 1..Len(s) : s[j] = k
        BY <1>0, <2>1
      <3>2. SelectInSeq(s, LAMBDA v : v = k) = i
        BY <2>2, <2>3 DEF SelectInSeq
      <3> QED BY <3>1, <3>2 DEF RemoveFirst
    <2>5. PICK A, B \in Seq(S) : A = SubSeq(s, 1, i - 1) /\ B = SubSeq(s, i + 1, n)
      <3>1. SubSeq(s, 1, i - 1) \in Seq(S)
        BY <1>0, <2>1
      <3>2. SubSeq(s, i + 1, n) \in Seq(S)
        BY <1>0, <2>1
      <3> QED BY <3>1, <3>2
    <2>6. Len(A) = i - 1 /\ (\A j \in 1..(i - 1) : A[j] = s[j]) /\ Len(B) = n - i /\ \A j \in 1..(n - i) : B[j] = s[j + i]
      BY <1>0, <2>1, <2>5
    <2>7. D = A \o B
      BY <1>0, <2>4, <2>5 DEF RemoveAt
    <2> HIDE DEF D
    <2>8. /\ D \in Seq(S) /\ Len(D) = n - 1
          /\ \A j \in 1..(i - 1) : D[j] = s[j]
          /\ \A j \in i..(n - 1) : D[j] = s[j + 1]
      <3>1. D \in Seq(S) /\ Len(D) = n - 1
        <4>1. D \in Seq(S) /\ Len(D) = Len(A) + Len(B)
          BY <2>7
        <4>2. (i - 1) + (n - i) = n - 1
          BY <2>1
        <4> QED BY <2>6, <4>1, <4>2
      <3>2. \A j \in 1..(i - 1) : D[j] = A[j]
        BY <2>1, <2>6, <2>7
      <3>3. \A j \in i..(n - 1) : D[j] = B[j - i + 1] /\ j - i + 1 \in 1..(n - i) /\ (j - i + 1) + i = j + 1
        BY <2>1, <2>6, <2>7
      <3> QED BY <2>6, <3>1, <3>2, <3>3
    <2> DEFINE O(j) == IF j < i THEN j ELSE j + 1
    <2>9. /\ \A j \in 1..(n - 1) : O(j) \in 1..n /\ O(j) # i /\ D[j] = s[O(j)]
          /\ \A a, b \in 1..(n - 1) : a < b => O(a) < O(b)
          /\ \A a, b \in 1..(n - 1) : O(a) = O(b) => a = b
      <3>1. ASSUME NEW j \in 1..(n - 1)
            PROVE  O(j) \in 1..n /\ O(j) # i /\ D[j] = s[O(j)]
        <4>1. CASE j < i
          <5>1. O(j) = j /\ j \in 1..(i - 1) /\ j \in 1..n
            BY <4>1
          <5> QED BY <2>8, <4>1, <5>1
        <4>2. CASE ~(j < i)
          <5>1. O(j) = j + 1 /\ j \in i..(n - 1) /\ j + 1 \in 1..n /\ j + 1 # i
            BY <4>2
          <5> QED BY <2>8, <5>1
        <4> QED BY <4>1, <4>2
      <3> QED BY <3>1
    <2> HIDE DEF O
    <2>10. Distinct(D)
      BY <1>0, <2>8, <2>9 DEF Distinct
    <2>11. \A x, y : Before(D, x, y) => Before(s, x, y)
      BY <1>0, <2>8, <2>9 DEF Before
    <2>12. ToSet(D) = ToSet(s) \ {k}
      <3>1. ASSUME NEW x \in ToSet(D) PROVE x \in ToSet(s) /\ x # k
        <4>1. PICK j \in 1..(n - 1) : D[j] = x
          BY <2>8, Elements
        <4>2. s[O(j)] = x /\ O(j) \in 1..n /\ O(j) # i
          BY <2>9, <4>1
        <4> QED BY <1>0, <2>1, <4>2, Elements DEF Distinct
      <3>2. ASSUME NEW x \in ToSet(s), x # k PROVE x \in ToSet(D)
        <4>1. PICK j \in 1..n : s[j] = x
          BY <1>0, Elements
        <4>2. PICK m \in 1..(n - 1) : m = IF j < i THEN j ELSE j - 1
          BY <2>1, <3>2, <4>1
        <4>3. D[m] = x
          <5>1. CASE j < i
            BY <2>8, <4>1, <4>2, <5>1
          <5>2. CASE ~(j < i)
            <6>1. j # i
              BY <2>1, <3>2, <4>1
            <6>2. m \in i..(n - 1) /\ m + 1 = j
              BY <4>2, <5>2, <6>1
            <6> QED BY <2>8, <4>1, <6>2
          <5> QED BY <5>1, <5>2
        <4> QED BY <2>8, <4>3, Elements
      <3> QED BY <3>1, <3>2
    <2> QED BY <1>0, <1>3, <2>8, <2>10, <2>11, <2>12 DEF D
  <1> QED BY <1>2, <1>3

(* Appending a key that is not there. *)
LEMMA Appending ==
    ASSUME NEW S, NEW s \in Seq(S), Distinct(s), NEW k \in S, k \notin ToSet(s)
    PROVE  LET A == Append(s, k) IN
           /\ A \in Seq(S) /\ Distinct(A) /\ Len(A) = Len(s) + 1
           /\ ToSet(A) = ToSet(s) \cup {k}
           /\ \A x, y : Before(A, x, y) => Before(s, x, y) \/ (y = k /\ x \in ToSet(s))
  <1>0. PICK n \in Nat : n = Len(s)
    OBVIOUS
  <1>1. PICK A \in Seq(S) : A = Append(s, k)
    <2>1. Append(s, k) \in Seq(S)
      OBVIOUS
    <2> QED BY <2>1
  <1>2. Len(A) = n + 1 /\ A[n + 1] = k /\ \A i \in 1..n : A[i] = s[i]
    BY <1>0, <1>1
  <1>3. /\ \A i \in 1..(n + 1) : i \in 1..n \/ i = n + 1
        /\ 1..n \subseteq 1..(n + 1) /\ n + 1 \in 1..(n + 1)
    OBVIOUS
  <1>4. \A i \in 1..n : s[i] # k
    BY <1>0, Elements
  <1>5. Distinct(A)
    BY <1>0, <1>2, <1>3, <1>4 DEF Distinct
  <1>6. ToSet(A) = ToSet(s) \cup {k}
    <2>1. ASSUME NEW x PROVE x \in ToSet(A) <=> x \in ToSet(s) \/ x = k
      <3>1. x \in ToSet(A) <=> \E i \in 1..(n + 1) : A[i] = x
        BY <1>2, Elements
      <3>2. x \in ToSet(s) <=> \E i \in 1..n : s[i] = x
        BY <1>0, Elements
      <3> QED BY <1>2, <1>3, <3>1, <3>2
    <2> QED BY <2>1
  <1>7. ASSUME NEW x, NEW y, Before(A, x, y)
        PROVE  Before(s, x, y) \/ (y = k /\ x \in ToSet(s))
    <2>1. PICK i, j \in 1..(n + 1) : i < j /\ A[i] = x /\ A[j] = y
      BY <1>2, <1>7 DEF Before
    <2>2. i \in 1..n
      BY <2>1
    <2>3. s[i] = x /\ x \in ToSet(s)
      BY <1>0, <1>2, <2>1, <2>2, Elements
    <2>4. CASE j = n + 1
      BY <1>2, <2>1, <2>3, <2>4
    <2>5. CASE j # n + 1
      <3>1. j \in 1..n
        BY <2>5
      <3> QED BY <1>0, <1>2, <2>1, <2>2, <2>3, <3>1 DEF Before
    <2> QED BY <2>4, <2>5
  <1> QED BY <1>0, <1>1, <1>2, <1>5, <1>6, <1>7

(* Dropping the first key. *)
LEMMA Dropping ==
    ASSUME NEW S, NEW s \in Seq(S), Distinct(s), Len(s) >= 1
    PROVE  LET T == Tail(s) IN
           /\ T \in Seq(S) /\ Distinct(T) /\ Len(T) = Len(s) - 1
           /\ Head(s) \in ToSet(s) /\ ToSet(T) = ToSet(s) \ {Head(s)}
           /\ \A x, y : Before(T, x, y) => Before(s, x, y)
           /\ \A y \in ToSet(T) : Before(s, Head(s), y)
  <1>0. PICK n \in Nat : n = Len(s) /\ n >= 1
    OBVIOUS
  <1>1. PICK T \in Seq(S) : T = Tail(s)
    <2>1. Tail(s) \in Seq(S)
      BY <1>0
    <2> QED BY <2>1
  <1>2. Len(T) = n - 1 /\ Head(s) = s[1] /\ \A i \in 1..(n - 1) : T[i] = s[i + 1]
    BY <1>0, <1>1
  <1>3. /\ \A i \in 1..(n - 1) : i + 1 \in 1..n /\ i + 1 > 1
        /\ \A j \in 1..n : j = 1 \/ (j - 1 \in 1..(n - 1) /\ (j - 1) + 1 = j)
        /\ 1 \in 1..n
    BY <1>0
  <1>4. Distinct(T)
    <2>1. SUFFICES ASSUME NEW i \in 1..(n - 1), NEW j \in 1..(n - 1), T[i] = T[j] PROVE i = j
      BY <1>2 DEF Distinct
    <2>2. i + 1 = j + 1
      BY <1>0, <1>2, <1>3, <2>1 DEF Distinct
    <2> QED BY <2>2
  <1>5. Head(s) \in ToSet(s)
    BY <1>0, <1>2, <1>3, Elements
  <1>6. \A y \in ToSet(T) : Before(s, Head(s), y)
    <2>1. SUFFICES ASSUME NEW y \in ToSet(T) PROVE Before(s, Head(s), y)
      OBVIOUS
    <2>2. PICK i \in 1..(n - 1) : T[i] = y
      BY <1>2, Elements
    <2>3. i + 1 \in 1..n /\ 1 < i + 1 /\ s[i + 1] = y
      BY <1>2, <1>3, <2>2
    <2> QED BY <1>0, <1>2, <1>3, <2>3 DEF Before
  <1>7. ToSet(T) = ToSet(s) \ {Head(s)}
    <2>1. ASSUME NEW x \in ToSet(T) PROVE x \in ToSet(s) /\ x # Head(s)
      <3>1. PICK i, j \in 1..n : i < j /\ s[i] = Head(s) /\ s[j] = x
        BY <1>0, <1>6 DEF Before
      <3>2. i # j
        BY <3>1
      <3> QED BY <1>0, <3>1, <3>2, Elements DEF Distinct
    <2>2. ASSUME NEW x \in ToSet(s), x # Head(s) PROVE x \in ToSet(T)
      <3>1. PICK j \in 1..n : s[j] = x
        BY <1>0, Elements
      <3>2. j - 1 \in 1..(n - 1) /\ T[j - 1] = x
        BY <1>2, <1>3, <2>2, <3>1
      <3> QED BY <1>2, <3>2, Elements
    <2> QED BY <2>1, <2>2
  <1>8. ASSUME NEW x, NEW y, Before(T, x, y) PROVE Before(s, x, y)
    <2>1. PICK i, j \in 1..(n - 1) : i < j /\ T[i] = x /\ T[j] = y
      BY <1>2, <1>8 DEF Before
    <2>2. i + 1 \in 1..n /\ j + 1 \in 1..n /\ i + 1 < j + 1
      BY <1>3, <2>1
    <2>3. s[i + 1] = x /\ s[j + 1] = y
      BY <1>2, <2>1
    <2> QED BY <1>0, <2>2, <2>3 DEF Before
  <1> QED BY <1>0, <1>1, <1>2, <1>4, <1>5, <1>6, <1>7, <1>8

CacheTypes ==
    /\ lru \in Seq(Pairs) /\ Len(lru) <= maxSize /\ Distinct(lru)
    /\ cachedAt \in [Pairs -> -1..LastMs]
    /\ \A k \in Pairs : k \in Cached <=> cachedAt[k] # -1
    /\ ms \in 0..LastMs
    /\ usedSince \in [Pairs -> SUBSET Pairs]

(* The map is in order of use: what comes after a key was used after it. *)
UsedInOrder == \A x, y : Before(lru, x, y) => y \in usedSince[x]

(* Whatever was pushed out had maxSize other keys used after it. *)
EvictedLate == \A k \in Pairs : Kept(k) /\ k \notin Cached => Cardinality(usedSince[k]) >= maxSize

CInv == CacheTypes /\ UsedInOrder /\ (\A k \in Cached : Kept(k)) /\ EvictedLate

(* The keys of the map. *)
LEMMA CachedKeys ==
    ASSUME CInv
    PROVE  Cached \subseteq Pairs
  <1>1. \A k \in Cached : \E i \in 1..Len(lru) : lru[i] = k
    BY Elements DEF CInv, CacheTypes, Cached
  <1>2. \A i \in 1..Len(lru) : lru[i] \in Pairs
    BY DEF CInv, CacheTypes
  <1> QED BY <1>1, <1>2

(* A key leaves the map and its history. *)
LEMMA RemoveStep ==
    ASSUME CInv, NEW k \in Pairs, lru' = RemoveFirst(lru, k),
           cachedAt' = [cachedAt EXCEPT ![k] = -1], Forget({k}), UNCHANGED ms
    PROVE  CInv'
  <1> USE RatesCacheAssumption
  <1>0. CacheTypes /\ UsedInOrder /\ (\A j \in Cached : Kept(j)) /\ EvictedLate
    BY DEF CInv
  <1>1. /\ lru' \in Seq(Pairs) /\ Distinct(lru') /\ ToSet(lru') = ToSet(lru) \ {k}
        /\ Len(lru') = (IF k \in ToSet(lru) THEN Len(lru) - 1 ELSE Len(lru))
        /\ \A x, y : Before(lru', x, y) => Before(lru, x, y)
    BY <1>0, Removal DEF CacheTypes
  <1>2. Len(lru') <= maxSize
    BY <1>0, <1>1 DEF CacheTypes
  <1>3. Cached' = Cached \ {k}
    BY <1>1 DEF Cached
  <1>4. cachedAt' \in [Pairs -> -1..LastMs] /\ \A j \in Pairs : j \in Cached' <=> cachedAt'[j] # -1
    <2>1. -1 \in -1..LastMs
      OBVIOUS
    <2> QED BY <1>0, <1>3, <2>1 DEF CacheTypes
  <1>5. /\ usedSince' \in [Pairs -> SUBSET Pairs] /\ usedSince'[k] = {k}
        /\ \A j \in Pairs : j # k => usedSince'[j] = usedSince[j]
    BY <1>0 DEF Forget, CacheTypes
  <1>6. CacheTypes'
    BY <1>0, <1>1, <1>2, <1>4, <1>5 DEF CacheTypes
  <1>7. UsedInOrder'
    <2> SUFFICES ASSUME NEW x, NEW y, Before(lru', x, y) PROVE y \in usedSince'[x]
      BY DEF UsedInOrder
    <2>1. y \in usedSince[x]
      BY <1>0, <1>1 DEF UsedInOrder
    <2>2. x \in ToSet(lru')
      BY <1>1, Elements DEF Before
    <2>3. x # k /\ x \in Pairs
      BY <1>1, <2>2, CachedKeys DEF Cached
    <2> QED BY <1>5, <2>1, <2>3
  <1>8. \A j \in Cached' : Kept(j)'
    <2> SUFFICES ASSUME NEW j \in Cached' PROVE j \notin usedSince'[j]
      BY DEF Kept
    <2>1. j \in Cached /\ j # k /\ j \in Pairs
      BY <1>3, CachedKeys
    <2> QED BY <1>0, <1>5, <2>1 DEF Kept
  <1>9. EvictedLate'
    <2> SUFFICES ASSUME NEW j \in Pairs, j \notin usedSince'[j], j \notin Cached'
                 PROVE  Cardinality(usedSince'[j]) >= maxSize
      BY DEF EvictedLate, Kept
    <2>1. j # k
      BY <1>5
    <2>2. j \notin Cached /\ usedSince'[j] = usedSince[j]
      BY <1>3, <1>5, <2>1
    <2> QED BY <1>0, <2>2 DEF EvictedLate, Kept
  <1> QED BY <1>6, <1>7, <1>8, <1>9 DEF CInv

(* A key is used and comes last; others were pushed out or not. *)
LEMMA UseStep ==
    ASSUME CInv, NEW k \in Pairs, Use(k), UNCHANGED ms,
           NEW O \in Seq(Pairs), Distinct(O), lru' = Append(O, k), Len(O) < maxSize,
           k \notin ToSet(O), ToSet(O) \subseteq Cached,
           \A x, y : Before(O, x, y) => Before(lru, x, y),
           cachedAt' \in [Pairs -> -1..LastMs],
           \A j \in Pairs : j \in ToSet(O) \cup {k} <=> cachedAt'[j] # -1,
           \A j \in Cached : j \in ToSet(O) \cup {k}
                             \/ (Len(O) = maxSize - 1 /\ ToSet(O) \subseteq usedSince[j])
    PROVE  CInv'
  <1> USE RatesCacheAssumption
  <1>0. CacheTypes /\ UsedInOrder /\ (\A j \in Cached : Kept(j)) /\ EvictedLate
    BY DEF CInv
  <1>1. /\ lru' \in Seq(Pairs) /\ Distinct(lru') /\ Len(lru') = Len(O) + 1
        /\ ToSet(lru') = ToSet(O) \cup {k}
        /\ \A x, y : Before(lru', x, y) => Before(O, x, y) \/ (y = k /\ x \in ToSet(O))
    BY Appending
  <1>2. Cached' = ToSet(O) \cup {k}
    BY <1>1 DEF Cached
  <1>3. Len(lru') <= maxSize
    <2>1. Len(O) \in Nat
      OBVIOUS
    <2> QED BY <1>1, <2>1
  <1>4. /\ usedSince' \in [Pairs -> SUBSET Pairs] /\ usedSince'[k] = {}
        /\ \A j \in Pairs : j # k /\ Kept(j) => usedSince'[j] = usedSince[j] \cup {k}
        /\ \A j \in Pairs : j # k /\ ~Kept(j) => usedSince'[j] = {j}
    BY <1>0 DEF Use, CacheTypes
  <1>5. CacheTypes'
    BY <1>0, <1>1, <1>2, <1>3, <1>4 DEF CacheTypes
  <1>6. \A j \in ToSet(O) : j \in Pairs /\ j # k /\ Kept(j) /\ usedSince'[j] = usedSince[j] \cup {k}
    BY <1>0, <1>4, CachedKeys
  <1>7. UsedInOrder'
    <2> SUFFICES ASSUME NEW x, NEW y, Before(lru', x, y) PROVE y \in usedSince'[x]
      BY DEF UsedInOrder
    <2>1. CASE Before(O, x, y)
      <3>1. x \in ToSet(O)
        BY <2>1, Elements DEF Before
      <3>2. y \in usedSince[x]
        BY <1>0, <2>1 DEF UsedInOrder
      <3> QED BY <1>6, <3>1, <3>2
    <2>2. CASE y = k /\ x \in ToSet(O)
      BY <1>6, <2>2
    <2> QED BY <1>1, <2>1, <2>2
  <1>8. \A j \in Cached' : Kept(j)'
    <2> SUFFICES ASSUME NEW j \in Cached' PROVE j \notin usedSince'[j]
      BY DEF Kept
    <2>1. CASE j = k
      BY <1>4, <2>1
    <2>2. CASE j \in ToSet(O)
      BY <1>6, <2>2 DEF Kept
    <2> QED BY <1>2, <2>1, <2>2
  <1>9. EvictedLate'
    <2> SUFFICES ASSUME NEW j \in Pairs, j \notin usedSince'[j], j \notin Cached'
                 PROVE  Cardinality(usedSince'[j]) >= maxSize
      BY DEF EvictedLate, Kept
    <2>1. j # k /\ Kept(j) /\ usedSince'[j] = usedSince[j] \cup {k}
      BY <1>2, <1>4
    <2>2. IsFiniteSet(usedSince'[j]) /\ Cardinality(usedSince'[j]) \in Nat
      BY <1>4, FS_Subset, FS_CardinalityType
    <2>3. CASE j \notin Cached
      <3>1. Cardinality(usedSince[j]) >= maxSize
        BY <1>0, <2>1, <2>3 DEF EvictedLate
      <3>2. Cardinality(usedSince[j]) <= Cardinality(usedSince'[j]) /\ IsFiniteSet(usedSince[j])
        BY <2>1, <2>2, FS_Subset
      <3>3. Cardinality(usedSince[j]) \in Nat
        BY <3>2, FS_CardinalityType
      <3> QED BY <2>2, <3>1, <3>2, <3>3
    <2>4. CASE j \in Cached
      <3>1. Len(O) = maxSize - 1 /\ ToSet(O) \subseteq usedSince[j]
        BY <1>2, <2>4
      <3>2. ToSet(lru') \subseteq usedSince'[j] /\ Len(lru') = maxSize
        BY <1>1, <2>1, <3>1
      <3>3. Cardinality(ToSet(lru')) = maxSize
        BY <1>1, <3>2, DistinctCount
      <3>4. Cardinality(ToSet(lru')) <= Cardinality(usedSince'[j])
        BY <2>2, <3>2, FS_Subset
      <3> QED BY <2>2, <3>3, <3>4
    <2> QED BY <2>3, <2>4
  <1> QED BY <1>5, <1>7, <1>8, <1>9 DEF CInv

(* Every step of the cache keeps the invariant. *)
LEMMA CInvStep == CInv /\ [CacheNext]_cacheVars => CInv'
  <1> SUFFICES ASSUME CInv, [CacheNext]_cacheVars PROVE CInv'
    OBVIOUS
  <1> USE RatesCacheAssumption
  <1>0. CacheTypes /\ UsedInOrder /\ (\A j \in Cached : Kept(j)) /\ EvictedLate
    BY DEF CInv
  <1>1. ASSUME NEW k \in Pairs
        PROVE  /\ RemoveFirst(lru, k) \in Seq(Pairs) /\ Distinct(RemoveFirst(lru, k))
               /\ ToSet(RemoveFirst(lru, k)) = Cached \ {k}
               /\ Len(RemoveFirst(lru, k)) = IF k \in Cached THEN Len(lru) - 1 ELSE Len(lru)
               /\ \A x, y : Before(RemoveFirst(lru, k), x, y) => Before(lru, x, y)
               /\ k \notin Cached => RemoveFirst(lru, k) = lru
    BY <1>0, Removal DEF CacheTypes, Cached
  <1>2. Len(lru) \in Nat /\ Len(lru) <= maxSize
    BY <1>0 DEF CacheTypes
  <1>3. ASSUME NEW k \in Pairs, get(k) PROVE CInv'
    <2>1. CASE Expired(k) /\ lru' = RemoveFirst(lru, k) /\ cachedAt' = [cachedAt EXCEPT ![k] = -1]
               /\ Forget({k})
      BY <1>3, <2>1, RemoveStep DEF get
    <2>2. CASE ~Expired(k) /\ lru' = Append(RemoveFirst(lru, k), k) /\ Use(k) /\ UNCHANGED cachedAt
      <3>1. PICK O : O = RemoveFirst(lru, k)
        OBVIOUS
      <3>2. /\ O \in Seq(Pairs) /\ Distinct(O) /\ ToSet(O) = Cached \ {k} /\ Len(O) = Len(lru) - 1
            /\ \A x, y : Before(O, x, y) => Before(lru, x, y)
            /\ k \in Cached /\ UNCHANGED ms
        BY <1>1, <1>3, <3>1 DEF get
      <3>3. Len(O) < maxSize
        BY <1>2, <3>2
      <3>4. \A j \in Pairs : j \in ToSet(O) \cup {k} <=> cachedAt'[j] # -1
        BY <1>0, <2>2, <3>2 DEF CacheTypes
      <3>5. cachedAt' \in [Pairs -> -1..LastMs]
        BY <1>0, <2>2 DEF CacheTypes
      <3>6. \A j \in Cached : j \in ToSet(O) \cup {k}
        BY <3>2
      <3> QED BY <2>2, <3>1, <3>2, <3>3, <3>4, <3>5, <3>6, UseStep
    <2> QED BY <1>3, <2>1, <2>2 DEF get
  <1>4. ASSUME NEW k \in Pairs, set(k) PROVE CInv'
    <2>1. PICK D : D = RemoveFirst(lru, k)
      OBVIOUS
    <2>2. /\ D \in Seq(Pairs) /\ Distinct(D) /\ ToSet(D) = Cached \ {k}
          /\ Len(D) = (IF k \in Cached THEN Len(lru) - 1 ELSE Len(lru))
          /\ (\A x, y : Before(D, x, y) => Before(lru, x, y))
          /\ (k \notin Cached => D = lru)
      BY <1>1, <2>1
    <2>3. /\ lru' = Append(IF Len(D) >= maxSize THEN Tail(D) ELSE D, k)
          /\ cachedAt' = [j \in Pairs |-> IF j = k THEN ms
                                          ELSE IF Len(D) >= maxSize /\ j = Head(D) THEN -1
                                          ELSE cachedAt[j]]
          /\ Use(k) /\ UNCHANGED ms
      BY <1>4, <2>1 DEF set
    <2>4. cachedAt' \in [Pairs -> -1..LastMs]
      <3>1. -1 \in -1..LastMs /\ ms \in -1..LastMs
        BY <1>0 DEF CacheTypes
      <3> QED BY <1>0, <2>3, <3>1 DEF CacheTypes
    <2>5. ms # -1
      BY <1>0 DEF CacheTypes
    <2>6. CASE ~(Len(D) >= maxSize)
      <3>1. Len(D) < maxSize
        BY <1>2, <2>2, <2>6
      <3>2. \A j \in Pairs : j \in ToSet(D) \cup {k} <=> cachedAt'[j] # -1
        BY <1>0, <2>2, <2>3, <2>5, <2>6 DEF CacheTypes
      <3>3. lru' = Append(D, k)
        BY <2>3, <2>6
      <3>4. \A j \in Cached : j \in ToSet(D) \cup {k}
        BY <2>2
      <3> QED BY <2>2, <2>3, <2>4, <3>1, <3>2, <3>3, <3>4, UseStep
    <2>7. CASE Len(D) >= maxSize
      <3>1. k \notin Cached
        BY <1>2, <2>2, <2>7
      <3>2. D = lru /\ Len(lru) = maxSize /\ Len(lru) >= 1
        <4>1. D = lru
          BY <2>2, <3>1
        <4>2. Len(lru) >= maxSize
          BY <2>7, <4>1
        <4> QED BY <1>2, <4>1, <4>2
      <3>3. PICK T : T = Tail(lru)
        OBVIOUS
      <3>4. /\ T \in Seq(Pairs) /\ Distinct(T) /\ Len(T) = Len(lru) - 1
            /\ Head(lru) \in Cached /\ ToSet(T) = Cached \ {Head(lru)}
            /\ \A x, y : Before(T, x, y) => Before(lru, x, y)
            /\ \A y \in ToSet(T) : Before(lru, Head(lru), y)
        BY <1>0, <3>2, <3>3, Dropping DEF CacheTypes, Cached
      <3>5. Len(T) < maxSize /\ Len(T) = maxSize - 1
        BY <3>2, <3>4
      <3>6. ToSet(T) \subseteq usedSince[Head(lru)]
        BY <1>0, <3>4 DEF UsedInOrder
      <3>7. lru' = Append(T, k)
        BY <2>3, <2>7, <3>2, <3>3
      <3>8. \A j \in Pairs : j \in ToSet(T) \cup {k} <=> cachedAt'[j] # -1
        BY <1>0, <2>3, <2>5, <2>7, <3>1, <3>2, <3>4 DEF CacheTypes
      <3>9. \A j \in Cached : j \in ToSet(T) \cup {k} \/ (Len(T) = maxSize - 1 /\ ToSet(T) \subseteq usedSince[j])
        BY <3>4, <3>5, <3>6
      <3> QED BY <2>3, <2>4, <3>1, <3>4, <3>5, <3>7, <3>8, <3>9, UseStep
    <2> QED BY <2>6, <2>7
  <1>5. ASSUME NEW k \in Pairs, invalidateRate(k) PROVE CInv'
    BY <1>5, RemoveStep DEF invalidateRate
  <1>6. CASE clear
    <2>1. lru' = <<>> /\ lru' \in Seq(Pairs) /\ Len(lru') = 0 /\ Len(lru') <= maxSize /\ DOMAIN lru' = {}
      BY <1>6 DEF clear
    <2>2. Distinct(lru') /\ ToSet(lru') = {} /\ \A x, y : ~Before(lru', x, y)
      BY <2>1 DEF Distinct, ToSet, Before
    <2>3. Cached' = {}
      BY <2>2 DEF Cached
    <2>4. cachedAt' = [k \in Pairs |-> -1] /\ usedSince' = [j \in Pairs |-> {j}] /\ ms' = ms
      BY <1>6 DEF clear, Forget
    <2>5. CacheTypes'
      <3>1. -1 \in -1..LastMs
        OBVIOUS
      <3> QED BY <1>0, <2>1, <2>2, <2>3, <2>4, <3>1 DEF CacheTypes
    <2> QED BY <2>2, <2>3, <2>4, <2>5 DEF CInv, UsedInOrder, EvictedLate, Kept
  <1>7. CASE CacheTick
    <2>1. ms' \in 0..LastMs
      BY <1>0, <1>7 DEF CacheTick, CacheTypes
    <2> QED BY <1>0, <1>7, <2>1 DEF CacheTick, CInv, CacheTypes, UsedInOrder, EvictedLate, Kept, Cached
  <1>8. CASE UNCHANGED cacheVars
    BY <1>0, <1>8 DEF cacheVars, CInv, CacheTypes, UsedInOrder, EvictedLate, Kept, Cached
  <1> QED BY <1>3, <1>4, <1>5, <1>6, <1>7, <1>8 DEF CacheNext

(* The invariant of the cache holds initially. *)
LEMMA CInvInit == ASSUME CacheInit PROVE CInv
  <1> USE RatesCacheAssumption
  <1>1. lru = <<>> /\ lru \in Seq(Pairs) /\ Len(lru) = 0 /\ Len(lru) <= maxSize /\ DOMAIN lru = {}
    BY DEF CacheInit
  <1>2. Distinct(lru) /\ Cached = {} /\ \A x, y : ~Before(lru, x, y)
    BY <1>1 DEF Distinct, ToSet, Before, Cached
  <1>3. CacheTypes
    <2>1. -1 \in -1..LastMs /\ 0 \in 0..LastMs
      OBVIOUS
    <2> QED BY <1>1, <1>2, <2>1 DEF CacheInit, CacheTypes
  <1> QED BY <1>2, <1>3 DEF CacheInit, CInv, UsedInOrder, EvictedLate, Kept

(* What the invariant says of the cache. *)
LEMMA CInvHolds == CInv => CacheTypeOK /\ RecentlyUsedStays
  <1> SUFFICES ASSUME CInv PROVE CacheTypeOK /\ RecentlyUsedStays
    OBVIOUS
  <1> USE RatesCacheAssumption
  <1>0. CacheTypes /\ EvictedLate
    BY DEF CInv
  <1>1. RecentlyUsedStays
    <2> SUFFICES ASSUME NEW k \in Pairs, Kept(k), Cardinality(usedSince[k]) < maxSize, k \notin Cached
                 PROVE  FALSE
      BY DEF RecentlyUsedStays
    <2>1. Cardinality(usedSince[k]) >= maxSize
      BY <1>0 DEF EvictedLate
    <2>2. IsFiniteSet(usedSince[k])
      BY <1>0, FS_Subset DEF CacheTypes
    <2>3. Cardinality(usedSince[k]) \in Nat
      BY <2>2, FS_CardinalityType
    <2> QED BY <2>1, <2>3
  <1>2. lru \in BoundedSeq(Pairs, maxSize)
    BY <1>0, BoundedSeqs DEF CacheTypes
  <1>3. \A i, j \in DOMAIN lru : lru[i] = lru[j] => i = j
    BY <1>0 DEF CacheTypes, Distinct
  <1> QED BY <1>0, <1>1, <1>2, <1>3 DEF CacheTypes, CacheTypeOK

(* Eviction takes the least recently used key, for any keys, size and time *)
(* to live, whatever hits, expiries and invalidations come in between.     *)
THEOREM EvictionSparesTheRecent == CacheSpec => [](CacheTypeOK /\ RecentlyUsedStays)
  <1>1. CacheInit => CInv
    BY CInvInit
  <1> QED BY <1>1, CInvStep, CInvHolds, PTL DEF CacheSpec

----------------------------------------------------------------------------
(***************************************************************************)
(* The limiters (RateLimits).                                              *)
(***************************************************************************)
(* Sets of requests, counted. *)
LEMMA Counting ==
    ASSUME NEW A, NEW B \in SUBSET Hits, A \subseteq B
    PROVE  /\ IsFiniteSet(A) /\ IsFiniteSet(B)
           /\ Cardinality(A) \in Nat /\ Cardinality(B) \in Nat /\ Cardinality(A) <= Cardinality(B)
  <1>1. IsFiniteSet(B)
    BY RateLimitsAssumption, FS_Subset
  <1>2. IsFiniteSet(A) /\ Cardinality(A) <= Cardinality(B)
    BY <1>1, FS_Subset
  <1> QED BY <1>1, <1>2, FS_CardinalityType

(* One request more. *)
LEMMA CountingOne ==
    ASSUME NEW B \in SUBSET Hits, NEW h \in Hits, NEW A, A \subseteq B \cup {h}
    PROVE  Cardinality(A) \in Nat /\ Cardinality(B) \in Nat /\ Cardinality(A) <= Cardinality(B) + 1
  <1>1. IsFiniteSet(B) /\ Cardinality(B) \in Nat
    BY Counting
  <1>2. Cardinality(B \cup {h}) \in Nat /\ Cardinality(B \cup {h}) <= Cardinality(B) + 1
    <2>1. CASE h \in B
      <3>1. B \cup {h} = B
        BY <2>1
      <3> QED BY <1>1, <3>1
    <2>2. CASE h \notin B
      <3>1. Cardinality(B \cup {h}) = Cardinality(B) + 1
        BY <1>1, <2>2, FS_AddElement
      <3> QED BY <1>1, <3>1
    <2> QED BY <2>1, <2>2
  <1>3. Cardinality(A) \in Nat /\ Cardinality(A) <= Cardinality(B \cup {h})
    BY Counting
  <1> QED BY <1>1, <1>2, <1>3

(* Two sets of requests. *)
LEMMA CountingTwo ==
    ASSUME NEW B \in SUBSET Hits, NEW C \in SUBSET Hits, NEW A, A \subseteq B \cup C
    PROVE  /\ Cardinality(A) \in Nat /\ Cardinality(B) \in Nat /\ Cardinality(C) \in Nat
           /\ Cardinality(A) <= Cardinality(B) + Cardinality(C)
  <1>1. IsFiniteSet(B) /\ IsFiniteSet(C) /\ Cardinality(B) \in Nat /\ Cardinality(C) \in Nat
    BY Counting
  <1>2. B \cap C \subseteq B
    OBVIOUS
  <1>3. Cardinality(B \cap C) \in Nat
    BY <1>2, Counting
  <1>4. Cardinality(B \cup C) = Cardinality(B) + Cardinality(C) - Cardinality(B \cap C)
    BY <1>1, FS_Union
  <1>5. Cardinality(A) \in Nat /\ Cardinality(A) <= Cardinality(B \cup C)
    BY Counting
  <1> QED BY <1>1, <1>3, <1>4, <1>5

(* A fixed window of length w with limit L whose record is r, at time now, *)
(* when p is the time at which each request passed.                        *)
From(p, a) == {h \in Hits : p[h] >= a}
Between(p, a, b) == {h \in Hits : p[h] >= a /\ p[h] < b}

(* The open window counted every request that passed in it, and the one    *)
(* that opened it, which is not later than its start.                      *)
OpenCounts(p, r, w) ==
    /\ \A h \in Hits : p[h] < r.start + w
    /\ Cardinality(From(p, r.start)) <= r.count
    /\ Cardinality(From(p, r.start + 1)) <= r.count - 1

(* Of the requests that passed before the window was opened, an interval   *)
(* that reaches into it holds fewer than the limit.                        *)
Closed(p, r, L, w) ==
    \A t \in Ticks : t > r.start - w => Cardinality(Between(p, t, r.start)) <= L - 1

FewerThanTwice(p, L, w) == \A t \in Ticks : Cardinality(Between(p, t, t + w)) <= 2 * L - 1

Windowed(p, r, L, w, now) ==
    /\ FewerThanTwice(p, L, w)
    /\ \/ r = NoRecord /\ \A h \in Hits : p[h] = -1
       \/ /\ r.start \in 0..now /\ r.count \in 1..L
          /\ OpenCounts(p, r, w) /\ Closed(p, r, L, w)

(* Whether the request h passes now or not. *)
Moves(p, q, h, now) ==
    /\ p \in [Hits -> Ticks \cup {-1}] /\ q \in [Hits -> Ticks \cup {-1}]
    /\ \A g \in Hits : p[g] <= now
    /\ p[h] = -1 /\ q[h] \in {-1, now}
    /\ \A g \in Hits : g # h => q[g] = p[g]

(* What that changes in the sets of requests that passed. *)
LEMMA MovedSets ==
    ASSUME NEW now \in Ticks, NEW h \in Hits, NEW p, NEW q, Moves(p, q, h, now)
    PROVE  /\ \A a \in Int : a >= 0 => From(q, a) \subseteq From(p, a) \cup {h}
           /\ \A a \in Int : a > now => From(q, a) = {}
           /\ \A a, b \in Int : a >= 0 /\ (b <= now \/ a > now) => Between(q, a, b) \subseteq Between(p, a, b)
           /\ \A g \in Hits : q[g] <= now
  <1> USE RateLimitsAssumption
  <1>1. \A g \in Hits : p[g] \in Int /\ q[g] \in Int /\ p[g] <= now /\ q[g] <= now
    <2>1. Ticks \cup {-1} \subseteq Int /\ now \in Int /\ now >= 0
      BY DEF Ticks
    <2>2. \A g \in Hits : p[g] \in Int /\ q[g] \in Int /\ p[g] <= now
      BY <2>1 DEF Moves
    <2>3. \A g \in Hits : q[g] = p[g] \/ q[g] = -1 \/ q[g] = now
      BY DEF Moves
    <2> QED BY <2>1, <2>2, <2>3
  <1>2. now \in Int
    BY DEF Ticks
  <1>3. \A g \in Hits : q[g] = p[g] \/ (g = h /\ q[g] = now)
    BY DEF Moves
  <1>4. ASSUME NEW a \in Int, a >= 0 PROVE From(q, a) \subseteq From(p, a) \cup {h}
    BY <1>3 DEF From
  <1>5. ASSUME NEW a \in Int, a > now PROVE From(q, a) = {}
    BY <1>1, <1>2, <1>5 DEF From
  <1>6. ASSUME NEW a \in Int, NEW b \in Int, a >= 0, b <= now \/ a > now
        PROVE  Between(q, a, b) \subseteq Between(p, a, b)
    <2> SUFFICES ASSUME NEW g \in Hits, q[g] >= a, q[g] < b PROVE q[g] = p[g]
      BY DEF Between
    <2>1. q[g] # now
      BY <1>1, <1>2, <1>6
    <2> QED BY <1>3, <2>1
  <1> QED BY <1>1, <1>4, <1>5, <1>6

(* An interval that contains now is what came before the window and what is in it. *)
LEMMA Across ==
    ASSUME NEW p \in [Hits -> Ticks \cup {-1}], NEW a \in Int, NEW b \in Int, NEW s \in Int
    PROVE  Between(p, a, b) \subseteq Between(p, a, s) \cup From(p, s)
  <1>1. \A g \in Hits : p[g] \in Int
    BY DEF Ticks
  <1> QED BY <1>1 DEF Between, From

(* The window is open and has room. *)
LEMMA CountedInWindow ==
    ASSUME NEW now \in Ticks, NEW h \in Hits, NEW p, NEW q, Moves(p, q, h, now),
           NEW L \in Nat \ {0}, NEW w \in Nat \ {0}, NEW r, NEW s,
           r # NoRecord, Windowed(p, r, L, w, now), now < r.start + w,
           s.start = r.start, s.count = r.count + 1, r.count < L
    PROVE  Windowed(q, s, L, w, now)
  <1> USE RateLimitsAssumption
  <1>0. /\ FewerThanTwice(p, L, w) /\ r.start \in 0..now /\ r.count \in 1..L
        /\ OpenCounts(p, r, w) /\ Closed(p, r, L, w)
    BY DEF Windowed
  <1>1. PICK z \in 0..now, c \in 1..L : z = r.start /\ c = r.count /\ z = s.start /\ s.count = c + 1
    BY <1>0
  <1>2. now \in Nat /\ now <= LastTick /\ z \in Nat /\ c \in Nat /\ c < L /\ c + 1 \in 1..L /\ now < z + w
    <2>1. now \in Nat /\ now <= LastTick
      BY DEF Ticks
    <2> QED BY <1>1, <2>1
  <1>3. /\ \A a \in Int : a >= 0 => From(q, a) \subseteq From(p, a) \cup {h}
        /\ \A a, b \in Int : a >= 0 /\ (b <= now \/ a > now) => Between(q, a, b) \subseteq Between(p, a, b)
        /\ \A g \in Hits : q[g] <= now
        /\ q \in [Hits -> Ticks \cup {-1}]
    BY MovedSets DEF Moves
  <1>4. Cardinality(From(q, z)) <= c + 1 /\ Cardinality(From(q, z + 1)) <= c
    <2>1. Cardinality(From(p, z)) <= c /\ Cardinality(From(p, z + 1)) <= c - 1
      BY <1>0, <1>1 DEF OpenCounts
    <2>2. /\ Cardinality(From(q, z)) <= Cardinality(From(p, z)) + 1
          /\ Cardinality(From(q, z)) \in Nat /\ Cardinality(From(p, z)) \in Nat
      <3>1. From(q, z) \subseteq From(p, z) \cup {h} /\ From(p, z) \subseteq Hits
        BY <1>2, <1>3 DEF From
      <3> QED BY <3>1, CountingOne
    <2>3. /\ Cardinality(From(q, z + 1)) <= Cardinality(From(p, z + 1)) + 1
          /\ Cardinality(From(q, z + 1)) \in Nat /\ Cardinality(From(p, z + 1)) \in Nat
      <3>1. From(q, z + 1) \subseteq From(p, z + 1) \cup {h} /\ From(p, z + 1) \subseteq Hits
        BY <1>2, <1>3 DEF From
      <3> QED BY <3>1, CountingOne
    <2> QED BY <1>2, <2>1, <2>2, <2>3
  <1>5. OpenCounts(q, s, w)
    <2>1. \A g \in Hits : q[g] < z + w
      <3>1. \A g \in Hits : q[g] \in Int
        BY <1>3 DEF Ticks
      <3> QED BY <1>2, <1>3, <3>1
    <2>2. (c + 1) - 1 = c
      BY <1>2
    <2> QED BY <1>1, <1>4, <2>1, <2>2 DEF OpenCounts
  <1>6. \A t \in Ticks : t > z - w => Cardinality(Between(q, t, z)) <= L - 1 /\ Cardinality(Between(q, t, z)) \in Nat
    <2> SUFFICES ASSUME NEW t \in Ticks, t > z - w
                 PROVE  Cardinality(Between(q, t, z)) <= L - 1 /\ Cardinality(Between(q, t, z)) \in Nat
      OBVIOUS
    <2>1. Cardinality(Between(p, t, z)) <= L - 1
      BY <1>0, <1>1 DEF Closed
    <2>2. t \in Int /\ t >= 0 /\ z <= now
      BY <1>1, <1>2 DEF Ticks
    <2>3. Between(q, t, z) \subseteq Between(p, t, z) /\ Between(p, t, z) \subseteq Hits
      BY <1>2, <1>3, <2>2 DEF Between
    <2>4. /\ Cardinality(Between(q, t, z)) <= Cardinality(Between(p, t, z))
          /\ Cardinality(Between(q, t, z)) \in Nat /\ Cardinality(Between(p, t, z)) \in Nat
      BY <2>3, Counting
    <2> QED BY <2>1, <2>4
  <1>7. FewerThanTwice(q, L, w)
    <2> SUFFICES ASSUME NEW t \in Ticks PROVE Cardinality(Between(q, t, t + w)) <= 2 * L - 1
      BY DEF FewerThanTwice
    <2>0. t \in Int /\ t >= 0 /\ t + w \in Int
      BY DEF Ticks
    <2>1. CASE t + w <= now \/ t > now
      <3>1. Between(q, t, t + w) \subseteq Between(p, t, t + w) /\ Between(p, t, t + w) \subseteq Hits
        BY <1>3, <2>0, <2>1 DEF Between
      <3>2. Cardinality(Between(q, t, t + w)) \in Nat /\ Cardinality(Between(p, t, t + w)) \in Nat
            /\ Cardinality(Between(q, t, t + w)) <= Cardinality(Between(p, t, t + w))
        BY <3>1, Counting
      <3>3. Cardinality(Between(p, t, t + w)) <= 2 * L - 1
        BY <1>0 DEF FewerThanTwice
      <3> QED BY <3>2, <3>3
    <2>2. CASE ~(t + w <= now) /\ ~(t > now) /\ t > z
      <3>1. Between(q, t, t + w) \subseteq From(q, z + 1) /\ From(q, z + 1) \subseteq Hits
        <4>1. \A g \in Hits : q[g] \in Int
          BY <1>3 DEF Ticks
        <4> QED BY <1>2, <2>0, <2>2, <4>1 DEF Between, From
      <3>2. Cardinality(Between(q, t, t + w)) \in Nat /\ Cardinality(From(q, z + 1)) \in Nat
            /\ Cardinality(Between(q, t, t + w)) <= Cardinality(From(q, z + 1))
        BY <3>1, Counting
      <3> QED BY <1>2, <1>4, <3>2
    <2>3. CASE ~(t + w <= now) /\ ~(t > now) /\ ~(t > z)
      <3>1. t > z - w
        BY <1>1, <1>2, <2>0, <2>3
      <3>2. Between(q, t, t + w) \subseteq Between(q, t, z) \cup From(q, z)
        BY <1>2, <1>3, <2>0, Across
      <3>3. Between(q, t, z) \subseteq Hits /\ From(q, z) \subseteq Hits
        BY DEF Between, From
      <3>4. /\ Cardinality(Between(q, t, t + w)) \in Nat /\ Cardinality(From(q, z)) \in Nat
            /\ Cardinality(Between(q, t, z)) \in Nat
            /\ Cardinality(Between(q, t, t + w)) <= Cardinality(Between(q, t, z)) + Cardinality(From(q, z))
        BY <3>2, <3>3, CountingTwo
      <3>5. Cardinality(Between(q, t, z)) <= L - 1
        BY <1>6, <3>1
      <3> QED BY <1>2, <1>4, <3>4, <3>5
    <2> QED BY <2>1, <2>2, <2>3
  <1>8. Closed(q, s, L, w)
    BY <1>1, <1>6 DEF Closed
  <1> QED BY <1>1, <1>2, <1>5, <1>7, <1>8 DEF Windowed

(* There is no window, or it is over: the next one is opened. *)
LEMMA WindowOpened ==
    ASSUME NEW now \in Ticks, NEW h \in Hits, NEW p, NEW q, Moves(p, q, h, now),
           NEW L \in Nat \ {0}, NEW w \in Nat \ {0}, NEW r, NEW s,
           Windowed(p, r, L, w, now), r = NoRecord \/ now >= r.start + w,
           s.start = now, s.count = 1
    PROVE  Windowed(q, s, L, w, now)
  <1> USE RateLimitsAssumption
  <1>1. now \in Nat /\ now <= LastTick /\ now + 1 \in Int
    BY DEF Ticks
  <1>2. /\ \A a \in Int : a >= 0 => From(q, a) \subseteq From(p, a) \cup {h}
        /\ \A a \in Int : a > now => From(q, a) = {}
        /\ \A a, b \in Int : a >= 0 /\ (b <= now \/ a > now) => Between(q, a, b) \subseteq Between(p, a, b)
        /\ \A g \in Hits : q[g] <= now
        /\ q \in [Hits -> Ticks \cup {-1}] /\ p \in [Hits -> Ticks \cup {-1}]
    BY MovedSets DEF Moves
  <1>3. \A g \in Hits : p[g] \in Int /\ q[g] \in Int
    BY <1>2 DEF Ticks
  <1>4. (\A g \in Hits : p[g] < now)
        /\ \A t \in Ticks : t > now - w => Cardinality(Between(p, t, now)) <= L - 1
    <2>1. CASE r = NoRecord /\ \A g \in Hits : p[g] = -1
      <3>1. \A t \in Ticks : Between(p, t, now) = {}
        BY <2>1 DEF Between, Ticks
      <3> QED BY <1>1, <2>1, <3>1, FS_EmptySet
    <2>2. CASE now >= r.start + w /\ r.start \in 0..now /\ r.count \in 1..L /\ OpenCounts(p, r, w)
      <3>1. PICK z \in 0..now, c \in 1..L : z = r.start /\ c = r.count
        BY <2>2
      <3>2. \A g \in Hits : p[g] < now
        BY <1>1, <1>3, <2>2, <3>1 DEF OpenCounts
      <3>3. ASSUME NEW t \in Ticks, t > now - w
            PROVE  Cardinality(Between(p, t, now)) <= L - 1
        <4>1. t \in Int /\ t > z
          BY <1>1, <2>2, <3>1, <3>3 DEF Ticks
        <4>2. Between(p, t, now) \subseteq From(p, z + 1) /\ From(p, z + 1) \subseteq Hits
          BY <1>3, <4>1 DEF Between, From
        <4>3. /\ Cardinality(Between(p, t, now)) \in Nat /\ Cardinality(From(p, z + 1)) \in Nat
              /\ Cardinality(Between(p, t, now)) <= Cardinality(From(p, z + 1))
          BY <4>2, Counting
        <4>4. Cardinality(From(p, z + 1)) <= c - 1
          BY <2>2, <3>1 DEF OpenCounts
        <4> QED BY <4>3, <4>4
      <3> QED BY <3>2, <3>3
    <2>3. NoRecord.start = -1
      BY DEF NoRecord
    <2> QED BY <1>1, <2>1, <2>2, <2>3 DEF Windowed
  <1>5. OpenCounts(q, s, w)
    <2>1. From(q, now) \subseteq {h}
      <3>1. From(p, now) = {}
        BY <1>1, <1>3, <1>4 DEF From
      <3> QED BY <1>1, <1>2, <3>1
    <2>2. Cardinality(From(q, now)) <= 1 /\ Cardinality(From(q, now)) \in Nat
      <3>1. IsFiniteSet({h}) /\ Cardinality({h}) = 1 /\ {h} \in SUBSET Hits
        BY FS_Singleton
      <3> QED BY <2>1, <3>1, Counting
    <2>3. Cardinality(From(q, now + 1)) = 0
      <3>1. From(q, now + 1) = {}
        BY <1>1, <1>2
      <3> QED BY <3>1, FS_EmptySet
    <2>4. \A g \in Hits : q[g] < now + w
      BY <1>1, <1>2, <1>3
    <2>5. Cardinality(From(q, now + 1)) <= 1 - 1
      BY <2>3
    <2> QED BY <2>2, <2>4, <2>5 DEF OpenCounts
  <1>6. \A t \in Ticks : t > now - w => Cardinality(Between(q, t, now)) <= L - 1 /\ Cardinality(Between(q, t, now)) \in Nat
    <2> SUFFICES ASSUME NEW t \in Ticks, t > now - w
                 PROVE  Cardinality(Between(q, t, now)) <= L - 1 /\ Cardinality(Between(q, t, now)) \in Nat
      OBVIOUS
    <2>1. t \in Int /\ t >= 0
      BY DEF Ticks
    <2>2. Between(q, t, now) \subseteq Between(p, t, now) /\ Between(p, t, now) \subseteq Hits
      BY <1>1, <1>2, <2>1 DEF Between
    <2>3. /\ Cardinality(Between(q, t, now)) \in Nat /\ Cardinality(Between(p, t, now)) \in Nat
          /\ Cardinality(Between(q, t, now)) <= Cardinality(Between(p, t, now))
      BY <2>2, Counting
    <2> QED BY <1>4, <2>3
  <1>7. FewerThanTwice(q, L, w)
    <2> SUFFICES ASSUME NEW t \in Ticks PROVE Cardinality(Between(q, t, t + w)) <= 2 * L - 1
      BY DEF FewerThanTwice
    <2>0. t \in Int /\ t >= 0 /\ t + w \in Int
      BY DEF Ticks
    <2>1. CASE t + w <= now \/ t > now
      <3>1. Between(q, t, t + w) \subseteq Between(p, t, t + w) /\ Between(p, t, t + w) \subseteq Hits
        BY <1>2, <2>0, <2>1 DEF Between
      <3>2. Cardinality(Between(q, t, t + w)) \in Nat /\ Cardinality(Between(p, t, t + w)) \in Nat
            /\ Cardinality(Between(q, t, t + w)) <= Cardinality(Between(p, t, t + w))
        BY <3>1, Counting
      <3>3. Cardinality(Between(p, t, t + w)) <= 2 * L - 1
        BY DEF FewerThanTwice, Windowed
      <3> QED BY <3>2, <3>3
    <2>2. CASE ~(t + w <= now \/ t > now)
      <3>1. t > now - w
        BY <1>1, <2>0, <2>2
      <3>2. Between(q, t, t + w) \subseteq Between(q, t, now) \cup From(q, now)
        BY <1>1, <1>2, <2>0, Across
      <3>3. Between(q, t, now) \subseteq Hits /\ From(q, now) \subseteq Hits
        BY DEF Between, From
      <3>4. /\ Cardinality(Between(q, t, t + w)) \in Nat /\ Cardinality(From(q, now)) \in Nat
            /\ Cardinality(Between(q, t, now)) \in Nat
            /\ Cardinality(Between(q, t, t + w)) <= Cardinality(Between(q, t, now)) + Cardinality(From(q, now))
        BY <3>2, <3>3, CountingTwo
      <3>5. Cardinality(Between(q, t, now)) <= L - 1
        BY <1>6, <3>1
      <3>6. Cardinality(From(q, now)) <= 1
        BY <1>5 DEF OpenCounts
      <3> QED BY <3>4, <3>5, <3>6
    <2> QED BY <2>1, <2>2
  <1>8. Closed(q, s, L, w)
    BY <1>6 DEF Closed
  <1>9. s.start \in 0..now /\ s.count \in 1..L
    BY <1>1
  <1> QED BY <1>5, <1>7, <1>8, <1>9 DEF Windowed

HitFits(h) ==
    /\ hit[h] = "check" => limiter = "endpoint" /\ seen[h] \in EndpointRateLimitConfig
    /\ hit[h] \in Working => limiter = "user" /\ seen[h] \in [count : Nat, start : 0..tick]
    /\ hit[h] = "flag" => limiter = "alert"
    /\ hit[h] # "over" => passedAt[h] = -1
    /\ passedAt[h] <= tick

(* What the endpoint's entry holds includes whatever passed in the window, *)
(* and no configuration that is in use allows more than reshaped.          *)
EndpointFits ==
    limiter = "endpoint" /\ reshaped # -1 =>
        /\ config.windowMs = WindowMs /\ config.maxRequests <= reshaped
        /\ \A h \in Hits : hit[h] = "check" =>
              seen[h].windowMs = WindowMs /\ seen[h].maxRequests <= reshaped
        /\ \A h \in Hits : passedAt[h] # -1 /\ passedAt[h] > tick - WindowMs => h \in timestamps
        /\ \A t \in Ticks : Cardinality(Between(passedAt, t, t + WindowMs)) <= reshaped

(* The user's record: O are the requests that passed before its window.    *)
(* Those of the window passed at its start or later and were counted; of   *)
(* the others, an interval that reaches into it holds at most the limit.   *)
InWindowOf(p, O) == {h \in Hits \ O : p[h] # -1}
OldFrom(p, O, t) == {h \in O : p[h] >= t}

NoMoreThanTwice(p, L, w) == \A t \in Ticks : Cardinality(Between(p, t, t + w)) <= 2 * L

Opened(p, r, O, L, w) ==
    /\ \A h \in O : p[h] # -1 /\ p[h] <= r.start
    /\ \A h \in InWindowOf(p, O) : p[h] >= r.start
    /\ Cardinality(InWindowOf(p, O)) <= r.count /\ r.count <= L
    /\ \A t \in Ticks : t > r.start - w => Cardinality(OldFrom(p, O, t)) <= L

UserWindowed(p, r, L, w) ==
    /\ NoMoreThanTwice(p, L, w)
    /\ \/ r = NoRecord /\ \A h \in Hits : p[h] = -1
       \/ /\ r # NoRecord /\ r.start \in 0..tick
          /\ \E O \in SUBSET Hits : Opened(p, r, O, L, w)

(* A request that is being decided: nothing passed after it took its time, *)
(* and the record is still the one that it read.                           *)
Decides(h) ==
    LET r == counter["ip"] IN
    /\ \A g \in Hits : passedAt[g] <= seen[h].start
    /\ hit[h] = "insert" => r = NoRecord
    /\ hit[h] = "reset" => r # NoRecord /\ seen[h].start > r.start + WindowMs
    /\ hit[h] = "count" => r # NoRecord /\ seen[h].count = r.count + 1
                           /\ seen[h].count <= DEFAULT_LIMITS["read"]

OneUserWindow ==
    /\ \A g, h \in Busy : g = h
    /\ UserWindowed(passedAt, counter["ip"], DEFAULT_LIMITS["read"], WindowMs)
    /\ \A h \in Busy : Decides(h)

UserFits == limiter = "user" /\ ~overlap => OneUserWindow

OtpFits ==
    limiter = "otp" =>
        /\ Windowed(passedAt, counter["ip"], IpLimit, WindowMs, tick)
        /\ Windowed(passedAt, counter["email"], EmailLimit, EmailWindowMs, tick)

OneAlertWindow ==
    /\ \A g, h \in Busy : g = h
    /\ Windowed(passedAt, counter["ip"], 1, WindowMs, tick)
    /\ \A h \in Busy : counter["ip"] = NoRecord \/ tick >= counter["ip"].start + WindowMs

AlertFits == limiter = "alert" /\ ~overlap => OneAlertWindow

LimInv == /\ LimitsTypeOK /\ (\A h \in Hits : HitFits(h))
          /\ EndpointFits /\ UserFits /\ OtpFits /\ AlertFits

HitSteps == {"idle", "check", "flag", "over"} \cup Working

(* The values of maxRequests. *)
LEMMA MaximaAreNumbers == \A m \in maxRequestsSet : m \in Nat /\ m \in Int
  BY RateLimitsAssumption

(* Time passes. *)
LEMMA WindowedLater ==
    ASSUME NEW now \in Int, NEW later \in Int, now <= later,
           NEW p, NEW r, NEW L, NEW w, Windowed(p, r, L, w, now)
    PROVE  Windowed(p, r, L, w, later)
  <1>1. r.start \in 0..now => r.start \in 0..later
    OBVIOUS
  <1> QED BY <1>1 DEF Windowed

(* A step of the request h. *)
LEMMA StepAfter ==
    ASSUME LimInv, NEW h \in Hits, NEW x \in HitSteps \ {"idle"}, hit' = [hit EXCEPT ![h] = x]
    PROVE  /\ hit' \in [Hits -> HitSteps] /\ hit'[h] = x
           /\ \A g \in Hits : g # h => hit'[g] = hit[g]
  <1>1. hit \in [Hits -> HitSteps]
    BY DEF LimInv, LimitsTypeOK, HitSteps
  <1> QED BY <1>1

(* A step of the request h, seen from the others. *)
LEMMA OthersFit ==
    ASSUME LimInv, NEW h \in Hits, NEW x \in HitSteps \ {"idle"}, hit' = [hit EXCEPT ![h] = x],
           UNCHANGED <<limiter, tick>>,
           \A g \in Hits : g # h => seen'[g] = seen[g] /\ passedAt'[g] = passedAt[g],
           NEW g \in Hits, g # h
    PROVE  HitFits(g)'
  <1>1. HitFits(g) /\ hit'[g] = hit[g] /\ seen'[g] = seen[g] /\ passedAt'[g] = passedAt[g]
    BY StepAfter DEF LimInv
  <1> QED BY <1>1 DEF HitFits

(* Whether the request passes or not. *)
LEMMA PassMoves ==
    ASSUME LimInv, NEW h \in Hits, hit[h] # "over",
           Allowed(h) \/ UNCHANGED passedAt
    PROVE  /\ Moves(passedAt, passedAt', h, tick)
           /\ passedAt' \in [Hits -> Ticks \cup {-1}] /\ passedAt'[h] <= tick
           /\ \A g \in Hits : g # h => passedAt'[g] = passedAt[g]
           /\ tick \in Ticks /\ tick \in Nat
  <1> USE RateLimitsAssumption
  <1>1. passedAt \in [Hits -> Ticks \cup {-1}] /\ tick \in Ticks /\ tick \in Nat
    BY DEF LimInv, LimitsTypeOK, Ticks
  <1>2. passedAt[h] = -1 /\ \A g \in Hits : passedAt[g] <= tick
    BY DEF LimInv, HitFits
  <1>3. /\ passedAt' \in [Hits -> Ticks \cup {-1}] /\ passedAt'[h] \in {-1, tick}
        /\ \A g \in Hits : g # h => passedAt'[g] = passedAt[g]
    BY <1>1, <1>2 DEF Allowed
  <1>4. passedAt'[h] <= tick
    BY <1>1, <1>3
  <1> QED BY <1>1, <1>2, <1>3, <1>4 DEF Moves

(* The request h is over. *)
LEMMA OverFits ==
    ASSUME LimInv, NEW h \in Hits, Over(h), UNCHANGED <<limiter, tick>>,
           passedAt'[h] <= tick, \A g \in Hits : g # h => passedAt'[g] = passedAt[g]
    PROVE  /\ hit' \in [Hits -> HitSteps] /\ seen' \in [Hits -> RateLimitRecord \cup EndpointRateLimitConfig]
           /\ hit'[h] = "over" /\ \A g \in Hits : g # h => hit'[g] = hit[g] /\ seen'[g] = seen[g]
           /\ \A g \in Hits : HitFits(g)'
  <1>1. hit' = [hit EXCEPT ![h] = "over"] /\ "over" \in HitSteps \ {"idle"} /\ seen' = [seen EXCEPT ![h] = NoRecord]
    BY DEF Over, HitSteps
  <1>2. seen \in [Hits -> RateLimitRecord \cup EndpointRateLimitConfig]
    BY DEF LimInv, LimitsTypeOK
  <1>4. NoRecord \in RateLimitRecord
    BY DEF NoRecord, RateLimitRecord
  <1>5. seen' \in [Hits -> RateLimitRecord \cup EndpointRateLimitConfig] /\ \A g \in Hits : g # h => seen'[g] = seen[g]
    BY <1>1, <1>2, <1>4
  <1>6. HitFits(h)'
    <2>1. hit'[h] = "over"
      BY <1>1, StepAfter
    <2> QED BY <2>1 DEF HitFits, Working
  <1>7. \A g \in Hits : HitFits(g)'
    BY <1>1, <1>5, <1>6, OthersFit
  <1> QED BY <1>1, <1>5, <1>7, StepAfter

(* The endpoint limiter reads its configuration ... *)
LEMMA ReadConfigStep ==
    ASSUME LimInv, NEW h \in Hits, readConfig(h)
    PROVE  LimInv'
  <1> USE RateLimitsAssumption
  <1>0. /\ LimitsTypeOK /\ EndpointFits /\ limiter = "endpoint" /\ hit[h] = "idle"
        /\ hit' = [hit EXCEPT ![h] = "check"] /\ seen' = [seen EXCEPT ![h] = config]
        /\ UNCHANGED <<limiter, tick, config, timestamps, counter, passedAt, overlap,
                       reshaped>>
        /\ "check" \in HitSteps \ {"idle"}
    BY DEF LimInv, readConfig, HitSteps
  <1>1. /\ seen' \in [Hits -> RateLimitRecord \cup EndpointRateLimitConfig] /\ seen'[h] = config
        /\ \A g \in Hits : g # h => seen'[g] = seen[g]
    BY <1>0 DEF LimitsTypeOK
  <1>2. HitFits(h)'
    <2>1. hit'[h] = "check"
      BY <1>0, StepAfter
    <2>2. passedAt[h] = -1 /\ passedAt[h] <= tick
      BY <1>0 DEF LimInv, HitFits
    <2> QED BY <1>0, <1>1, <2>1, <2>2 DEF HitFits, LimitsTypeOK, Working
  <1>3. \A g \in Hits : HitFits(g)'
    BY <1>0, <1>1, <1>2, OthersFit
  <1>5. LimitsTypeOK'
    BY <1>0, <1>1, StepAfter DEF LimitsTypeOK, HitSteps
  <1>6. EndpointFits'
    BY <1>0, <1>1, StepAfter DEF EndpointFits
  <1> QED BY <1>0, <1>3, <1>5, <1>6 DEF LimInv, UserFits, OtpFits, AlertFits

(* ... and decides: what passed in the window is in the entry, so it has room. *)
LEMMA CheckRateLimitStep ==
    ASSUME LimInv, NEW h \in Hits, checkRateLimit(h) \/ failOpen(h)
    PROVE  LimInv'
  <1> USE RateLimitsAssumption
  <1>0. /\ LimitsTypeOK /\ EndpointFits /\ limiter = "endpoint" /\ hit[h] = "check" /\ Over(h)
        /\ UNCHANGED <<limiter, tick, config, counter, overlap, reshaped>>
        /\ (Allowed(h) \/ UNCHANGED passedAt)
        /\ seen[h] \in EndpointRateLimitConfig
    BY DEF LimInv, checkRateLimit, failOpen, HitFits
  <1>1. /\ Moves(passedAt, passedAt', h, tick)
        /\ passedAt' \in [Hits -> Ticks \cup {-1}] /\ passedAt'[h] <= tick
        /\ \A g \in Hits : g # h => passedAt'[g] = passedAt[g]
        /\ tick \in Ticks /\ tick \in Nat
    BY <1>0, PassMoves
  <1>2. /\ hit' \in [Hits -> HitSteps] /\ seen' \in [Hits -> RateLimitRecord \cup EndpointRateLimitConfig]
        /\ hit'[h] = "over" /\ (\A g \in Hits : g # h => hit'[g] = hit[g] /\ seen'[g] = seen[g])
        /\ (\A g \in Hits : HitFits(g)')
    BY <1>0, <1>1, OverFits
  <1>4. timestamps' \subseteq Hits
    BY <1>0 DEF LimitsTypeOK, checkRateLimit, failOpen, InWindow
  <1>5. LimitsTypeOK'
    BY <1>0, <1>1, <1>2, <1>4 DEF LimitsTypeOK, HitSteps
  <1>6. EndpointFits'
    <2> SUFFICES ASSUME reshaped # -1
                 PROVE  /\ config.windowMs = WindowMs /\ config.maxRequests <= reshaped
                        /\ \A g \in Hits : hit'[g] = "check" =>
                              seen'[g].windowMs = WindowMs /\ seen'[g].maxRequests <= reshaped
                        /\ \A g \in Hits : passedAt'[g] # -1 /\ passedAt'[g] > tick - WindowMs => g \in timestamps'
                        /\ \A t \in Ticks : Cardinality(Between(passedAt', t, t + WindowMs)) <= reshaped
      BY <1>0 DEF EndpointFits
    <2>1. /\ config.windowMs = WindowMs /\ config.maxRequests <= reshaped
          /\ \A g \in Hits : hit[g] = "check" =>
                seen[g].windowMs = WindowMs /\ seen[g].maxRequests <= reshaped
          /\ \A g \in Hits : passedAt[g] # -1 /\ passedAt[g] > tick - WindowMs => g \in timestamps
          /\ \A t \in Ticks : Cardinality(Between(passedAt, t, t + WindowMs)) <= reshaped
      BY <1>0 DEF EndpointFits
    <2>2. \A g \in Hits : hit'[g] = "check" => seen'[g].windowMs = WindowMs /\ seen'[g].maxRequests <= reshaped
      BY <1>2, <2>1
    <2>3. seen[h].windowMs = WindowMs /\ seen[h].maxRequests <= reshaped
      BY <1>0, <2>1
    <2>4. CASE UNCHANGED <<timestamps, passedAt>>
      BY <2>1, <2>2, <2>4
    <2>5. PICK W : W = {g \in timestamps : passedAt[g] > tick - WindowMs}
      OBVIOUS
    <2>6. InWindow(seen[h]) = W
      BY <2>3, <2>5 DEF InWindow
    <2>7. CASE timestamps' = W /\ UNCHANGED passedAt
      BY <2>1, <2>2, <2>5, <2>7
    <2>8. CASE RoomInWindow(seen[h]) /\ timestamps' = W \cup {h} /\ Allowed(h)
      <3>1. \A g \in Hits : passedAt'[g] # -1 /\ passedAt'[g] > tick - WindowMs => g \in timestamps'
        BY <1>1, <2>1, <2>5, <2>8
      <3>2. ASSUME NEW t \in Ticks
            PROVE  Cardinality(Between(passedAt', t, t + WindowMs)) <= reshaped
        <4>0. t \in Int /\ t >= 0 /\ t + WindowMs \in Int /\ reshaped \in Int
          BY <1>0 DEF LimitsTypeOK, Ticks
        <4>1. CASE t + WindowMs <= tick \/ t > tick
          <5>1. /\ Between(passedAt', t, t + WindowMs) \subseteq Between(passedAt, t, t + WindowMs)
                /\ Between(passedAt, t, t + WindowMs) \subseteq Hits
            BY <1>1, <4>0, <4>1, MovedSets DEF Between
          <5>2. /\ Cardinality(Between(passedAt', t, t + WindowMs)) \in Nat
                /\ Cardinality(Between(passedAt, t, t + WindowMs)) \in Nat
                /\ Cardinality(Between(passedAt', t, t + WindowMs)) <= Cardinality(Between(passedAt, t, t + WindowMs))
            BY <5>1, Counting
          <5>3. Cardinality(Between(passedAt, t, t + WindowMs)) <= reshaped
            BY <2>1
          <5> QED BY <4>0, <5>2, <5>3
        <4>2. CASE ~(t + WindowMs <= tick) /\ ~(t > tick)
          <5>1. Between(passedAt', t, t + WindowMs) \subseteq W \cup {h}
            <6> SUFFICES ASSUME NEW g \in Hits, passedAt'[g] >= t, g # h PROVE g \in W
              BY DEF Between
            <6>1. passedAt'[g] = passedAt[g] /\ passedAt[g] \in Int
              BY <1>0, <1>1 DEF LimitsTypeOK, Ticks
            <6>2. passedAt[g] # -1 /\ passedAt[g] > tick - WindowMs
              BY <1>1, <4>0, <4>2, <6>1
            <6> QED BY <2>1, <2>5, <6>2
          <5>2. W \in SUBSET Hits
            BY <1>0, <2>5 DEF LimitsTypeOK
          <5>3. /\ Cardinality(W) \in Nat /\ Cardinality(Between(passedAt', t, t + WindowMs)) \in Nat
                /\ Cardinality(Between(passedAt', t, t + WindowMs)) <= Cardinality(W) + 1
            BY <5>1, <5>2, CountingOne
          <5>4. Cardinality(W) < seen[h].maxRequests
            BY <2>6, <2>8 DEF RoomInWindow
          <5>5. seen[h].maxRequests \in Int
            <6>1. seen[h].maxRequests \in maxRequestsSet
              BY <1>0 DEF EndpointRateLimitConfig
            <6> QED BY <6>1, MaximaAreNumbers
          <5> QED BY <2>3, <4>0, <5>3, <5>4, <5>5
        <4> QED BY <4>1, <4>2
      <3> QED BY <2>1, <2>2, <3>1, <3>2
    <2> QED BY <2>4, <2>6, <2>7, <2>8 DEF checkRateLimit, failOpen
  <1> QED BY <1>0, <1>2, <1>5, <1>6 DEF LimInv, UserFits, OtpFits, AlertFits

(* The configuration changes. *)
LEMMA UpdateConfigStep ==
    ASSUME LimInv, NEW c \in EndpointRateLimitConfig, updateConfig(c)
    PROVE  LimInv'
  <1> USE RateLimitsAssumption
  <1>0. /\ LimitsTypeOK /\ EndpointFits /\ limiter = "endpoint" /\ config' = c
        /\ UNCHANGED <<limiter, tick, timestamps, counter, hit, seen, passedAt, overlap>>
        /\ reshaped' = IF c.windowMs # config.windowMs \/ reshaped = -1 THEN -1
                       ELSE IF c.maxRequests > reshaped THEN c.maxRequests ELSE reshaped
    BY DEF LimInv, updateConfig
  <1>1. c.maxRequests \in maxRequestsSet /\ c.maxRequests \in Int /\ reshaped \in Int
    <2>1. c.maxRequests \in maxRequestsSet
      BY DEF EndpointRateLimitConfig
    <2>2. reshaped \in Int
      BY <1>0 DEF LimitsTypeOK
    <2> QED BY <2>1, <2>2, MaximaAreNumbers
  <1>2. LimitsTypeOK'
    BY <1>0, <1>1 DEF LimitsTypeOK
  <1>3. \A h \in Hits : HitFits(h)'
    BY <1>0 DEF LimInv, HitFits
  <1>4. EndpointFits'
    <2> SUFFICES ASSUME reshaped' # -1
                 PROVE  /\ c.windowMs = WindowMs /\ c.maxRequests <= reshaped'
                        /\ \A h \in Hits : hit[h] = "check" =>
                              seen[h].windowMs = WindowMs /\ seen[h].maxRequests <= reshaped'
                        /\ \A h \in Hits : passedAt[h] # -1 /\ passedAt[h] > tick - WindowMs => h \in timestamps
                        /\ \A t \in Ticks : Cardinality(Between(passedAt, t, t + WindowMs)) <= reshaped'
      BY <1>0 DEF EndpointFits
    <2>1. /\ reshaped # -1 /\ c.windowMs = config.windowMs /\ reshaped' \in Int
          /\ reshaped <= reshaped' /\ c.maxRequests <= reshaped'
      BY <1>0, <1>1
    <2>2. /\ config.windowMs = WindowMs /\ config.maxRequests <= reshaped
          /\ \A h \in Hits : hit[h] = "check" =>
                seen[h].windowMs = WindowMs /\ seen[h].maxRequests <= reshaped
          /\ \A h \in Hits : passedAt[h] # -1 /\ passedAt[h] > tick - WindowMs => h \in timestamps
          /\ \A t \in Ticks : Cardinality(Between(passedAt, t, t + WindowMs)) <= reshaped
      BY <1>0, <2>1 DEF EndpointFits
    <2>3. ASSUME NEW h \in Hits, hit[h] = "check"
          PROVE  seen[h].windowMs = WindowMs /\ seen[h].maxRequests <= reshaped'
      <3>1. seen[h].maxRequests \in Int
        <4>1. seen[h] \in EndpointRateLimitConfig
          BY <2>3 DEF LimInv, HitFits
        <4>2. seen[h].maxRequests \in maxRequestsSet
          BY <4>1 DEF EndpointRateLimitConfig
        <4> QED BY <4>2, MaximaAreNumbers
      <3> QED BY <1>1, <2>1, <2>2, <2>3, <3>1
    <2>4. ASSUME NEW t \in Ticks
          PROVE  Cardinality(Between(passedAt, t, t + WindowMs)) <= reshaped'
      <3>1. Between(passedAt, t, t + WindowMs) \subseteq Hits
        BY DEF Between
      <3>2. Cardinality(Between(passedAt, t, t + WindowMs)) \in Nat
        BY <3>1, Counting
      <3> QED BY <1>1, <2>1, <2>2, <3>2
    <2> QED BY <2>1, <2>2, <2>3, <2>4
  <1> QED BY <1>0, <1>2, <1>3, <1>4 DEF LimInv, UserFits, OtpFits, AlertFits

(* The records. *)
LEMMA RecordTypes ==
    ASSUME LimInv
    PROVE  \A k \in Keys : /\ counter[k] \in RateLimitRecord /\ counter[k].count \in Nat
                           /\ counter[k].start \in Ticks \cup {-1} /\ counter[k].start \in Int
  <1> USE RateLimitsAssumption
  <1>1. \A k \in Keys : counter[k] \in RateLimitRecord
    BY DEF LimInv, LimitsTypeOK
  <1> QED BY <1>1 DEF Ticks, RateLimitRecord

(* PerUserRateLimitService: a request takes its time. *)
LEMMA CheckUserStep ==
    ASSUME LimInv, NEW h \in Hits, checkUser(h)
    PROVE  LimInv'
  <1> USE RateLimitsAssumption
  <1>0. /\ LimitsTypeOK /\ UserFits /\ limiter = "user" /\ hit[h] = "idle"
        /\ overlap' = (overlap \/ Busy # {})
        /\ seen' = [seen EXCEPT ![h] = [count |-> 0, start |-> tick]]
        /\ hit' = [hit EXCEPT ![h] = "find"] /\ "find" \in HitSteps \ {"idle"}
        /\ UNCHANGED <<limiter, tick, config, timestamps, counter, passedAt, reshaped>>
    BY DEF LimInv, checkUser, HitSteps, Working
  <1>1. /\ hit' \in [Hits -> HitSteps] /\ hit'[h] = "find"
        /\ \A g \in Hits : g # h => hit'[g] = hit[g]
    BY <1>0, StepAfter
  <1>2. tick \in Ticks /\ tick \in Nat /\ tick \in 0..tick
    BY <1>0 DEF LimitsTypeOK, Ticks
  <1>3. PICK s : s = [count |-> 0, start |-> tick]
    OBVIOUS
  <1>4. s \in RateLimitRecord /\ s \in [count : Nat, start : 0..tick] /\ s.start = tick
    BY <1>2, <1>3 DEF RateLimitRecord
  <1>5. /\ seen' \in [Hits -> RateLimitRecord \cup EndpointRateLimitConfig] /\ seen'[h] = s
        /\ \A g \in Hits : g # h => seen'[g] = seen[g]
    <2>1. seen' = [seen EXCEPT ![h] = s]
      BY <1>0, <1>3
    <2> QED BY <1>0, <1>4, <2>1 DEF LimitsTypeOK
  <1>6. passedAt[h] = -1 /\ \A g \in Hits : passedAt[g] <= tick
    BY <1>0 DEF LimInv, HitFits
  <1>7. HitFits(h)'
    BY <1>0, <1>1, <1>4, <1>5, <1>6 DEF HitFits
  <1>8. \A g \in Hits : HitFits(g)'
    BY <1>0, <1>5, <1>7, OthersFit
  <1>9. LimitsTypeOK'
    <2>1. overlap' \in BOOLEAN
      BY <1>0
    <2> QED BY <1>0, <1>1, <1>5, <2>1 DEF LimitsTypeOK, HitSteps
  <1>10. UserFits'
    <2> SUFFICES ASSUME ~overlap' PROVE OneUserWindow'
      BY DEF UserFits
    <2>1. ~overlap /\ Busy = {}
      BY <1>0
    <2>2. Busy' = {h}
      BY <1>1, <2>1 DEF Busy, Working
    <2>3. UserWindowed(passedAt, counter["ip"], DEFAULT_LIMITS["read"], WindowMs)
      BY <1>0, <2>1 DEF UserFits, OneUserWindow
    <2>4. Decides(h)'
      BY <1>0, <1>1, <1>4, <1>5, <1>6 DEF Decides
    <2> QED BY <1>0, <2>2, <2>3, <2>4 DEF OneUserWindow, UserWindowed
  <1> QED BY <1>0, <1>8, <1>9, <1>10 DEF LimInv, EndpointFits, OtpFits, AlertFits

(* It is over without a change of the record. *)
LEMMA UserOver ==
    ASSUME LimInv, NEW h \in Hits, hit[h] \in Working, Over(h),
           UNCHANGED <<limiter, tick, config, timestamps, counter, passedAt, overlap, reshaped>>
    PROVE  LimInv'
  <1>0. LimitsTypeOK /\ UserFits /\ limiter = "user" /\ passedAt[h] <= tick
    BY DEF LimInv, HitFits
  <1>1. /\ hit' \in [Hits -> HitSteps] /\ seen' \in [Hits -> RateLimitRecord \cup EndpointRateLimitConfig]
        /\ hit'[h] = "over" /\ (\A g \in Hits : g # h => hit'[g] = hit[g] /\ seen'[g] = seen[g])
        /\ (\A g \in Hits : HitFits(g)')
    BY <1>0, OverFits
  <1>2. LimitsTypeOK'
    BY <1>0, <1>1 DEF LimitsTypeOK, HitSteps
  <1>3. UserFits'
    <2> SUFFICES ASSUME ~overlap PROVE OneUserWindow'
      BY DEF UserFits
    <2>1. Busy' = {}
      <3>1. h \in Busy
        BY DEF Busy
      <3>2. Busy = {h}
        BY <1>0, <3>1 DEF UserFits, OneUserWindow
      <3> QED BY <1>1, <3>2 DEF Busy, Working
    <2> QED BY <1>0, <2>1 DEF UserFits, OneUserWindow, UserWindowed
  <1> QED BY <1>0, <1>1, <1>2, <1>3 DEF LimInv, EndpointFits, OtpFits, AlertFits

LEMMA FailUserStep == ASSUME LimInv, NEW h \in Hits, failUser(h) PROVE LimInv'
  BY UserOver DEF failUser

(* It judges the record by its time. *)
LEMMA FindRecordStep ==
    ASSUME LimInv, NEW h \in Hits, NEW category \in Category, findRecord(h, category)
    PROVE  LimInv'
  <1> USE RateLimitsAssumption
  <1>0. /\ LimitsTypeOK /\ UserFits /\ limiter = "user" /\ hit[h] = "find" /\ hit[h] \in Working
        /\ seen[h] \in [count : Nat, start : 0..tick]
        /\ UNCHANGED <<limiter, tick, config, timestamps, counter, passedAt, overlap, reshaped>>
        /\ "ip" \in Keys
    BY DEF LimInv, findRecord, HitFits, Working, Keys
  <1>1. PICK r : r = counter["ip"]
    OBVIOUS
  <1>2. r \in RateLimitRecord /\ r.count \in Nat /\ r.start \in Int
    BY <1>0, <1>1, RecordTypes
  <1>3. PICK now \in 0..tick : now = seen[h].start
    BY <1>0
  <1>4. tick \in Ticks /\ tick \in Nat /\ now \in Ticks /\ now \in Nat
    BY <1>0 DEF LimitsTypeOK, Ticks
  <1>5. ASSUME NEW step \in {"insert", "reset", "count"},
               hit' = [hit EXCEPT ![h] = step],
               seen' = [seen EXCEPT ![h] = [count |-> r.count + 1, start |-> now]],
               step = "insert" => r = NoRecord,
               step = "reset" => r # NoRecord /\ now > r.start + WindowMs,
               step = "count" => r # NoRecord /\ r.count < DEFAULT_LIMITS["read"]
        PROVE  LimInv'
    <2>1. step \in HitSteps \ {"idle"} /\ step \in Working
      BY <1>5 DEF HitSteps, Working
    <2>2. /\ hit' \in [Hits -> HitSteps] /\ hit'[h] = step
          /\ (\A g \in Hits : g # h => hit'[g] = hit[g])
      BY <1>5, <2>1, StepAfter
    <2>3. PICK s : s = [count |-> r.count + 1, start |-> now]
      OBVIOUS
    <2>4. /\ s \in [count : Nat, start : 0..tick] /\ s \in RateLimitRecord
          /\ s.start = now /\ s.count = r.count + 1
      BY <1>2, <1>4, <2>3 DEF RateLimitRecord
    <2>5. /\ seen' \in [Hits -> RateLimitRecord \cup EndpointRateLimitConfig] /\ seen'[h] = s
          /\ \A g \in Hits : g # h => seen'[g] = seen[g]
      <3>1. seen' = [seen EXCEPT ![h] = s]
        BY <1>5, <2>3
      <3> QED BY <1>0, <2>4, <3>1 DEF LimitsTypeOK
    <2>6. HitFits(h)'
      <3>1. passedAt[h] = -1 /\ passedAt[h] <= tick
        BY <1>0 DEF LimInv, HitFits
      <3> QED BY <1>0, <1>5, <2>2, <2>4, <2>5, <3>1 DEF HitFits
    <2>7. \A g \in Hits : HitFits(g)'
      BY <1>0, <1>5, <2>1, <2>5, <2>6, OthersFit
    <2>8. LimitsTypeOK'
      BY <1>0, <2>2, <2>5 DEF LimitsTypeOK, HitSteps
    <2>9. UserFits'
      <3> SUFFICES ASSUME ~overlap PROVE OneUserWindow'
        BY <1>0 DEF UserFits
      <3>1. h \in Busy
        BY <1>0 DEF Busy
      <3>2. Busy = {h} /\ Decides(h) /\ UserWindowed(passedAt, counter["ip"], DEFAULT_LIMITS["read"], WindowMs)
        BY <1>0, <3>1 DEF UserFits, OneUserWindow
      <3>3. Busy' = {h}
        BY <2>1, <2>2, <3>2 DEF Busy, Working
      <3>4. step = "count" => s.count <= DEFAULT_LIMITS["read"]
        BY <1>2, <1>5, <2>4
      <3>5. Decides(h)'
        BY <1>0, <1>1, <1>3, <1>5, <2>2, <2>4, <2>5, <3>2, <3>4 DEF Decides
      <3> QED BY <1>0, <3>2, <3>3, <3>5 DEF OneUserWindow, UserWindowed
    <2> QED BY <1>0, <2>7, <2>8, <2>9 DEF LimInv, EndpointFits, OtpFits, AlertFits
  <1>6. CASE Over(h)
    BY <1>0, <1>6, UserOver
  <1>7. DEFAULT_LIMITS[category] <= DEFAULT_LIMITS["read"] /\ DEFAULT_LIMITS[category] \in Nat
        /\ DEFAULT_LIMITS["read"] \in Nat
    BY DEF Category
  <1>8. r.count < DEFAULT_LIMITS[category] => r.count < DEFAULT_LIMITS["read"]
    BY <1>2, <1>7
  <1>9. UserWindowExpired(r, now) => now > r.start + WindowMs
    BY <1>2, <1>4 DEF UserWindowExpired
  <1>10. ASSUME NEW step \in {"insert", "reset", "count"},
                hit' = [hit EXCEPT ![h] = step],
                seen' = [seen EXCEPT ![h] = [count |-> counter["ip"].count + 1, start |-> seen[h].start]],
                \/ step = "insert" /\ counter["ip"] = NoRecord
                \/ step = "reset" /\ counter["ip"] # NoRecord /\ UserWindowExpired(counter["ip"], seen[h].start)
                \/ step = "count" /\ counter["ip"] # NoRecord /\ counter["ip"].count < DEFAULT_LIMITS[category]
         PROVE  LimInv'
    BY <1>1, <1>3, <1>5, <1>8, <1>9, <1>10
  <1> QED BY <1>6, <1>10 DEF findRecord

(* A window is opened, or one more is counted in it: what the record and   *)
(* the history become when h passes at now, or does not.                   *)
LEMMA OpensOrCounts ==
    ASSUME NEW p \in [Hits -> Ticks \cup {-1}], NEW q, NEW h \in Hits, NEW now \in Ticks,
           Moves(p, q, h, now),
           NEW r, NEW s, NEW z \in Nat, NEW L \in Nat \ {0}, NEW w \in Nat \ {0},
           NoMoreThanTwice(p, L, w), s.start = z, z <= now, s.count \in Nat, s.count <= L,
           NEW O \in SUBSET Hits, h \notin O,
           \A g \in O : p[g] # -1 /\ p[g] <= z,
           \A g \in InWindowOf(p, O) : p[g] >= z,
           Cardinality(InWindowOf(p, O)) + 1 <= s.count,
           \A t \in Ticks : t > z - w => Cardinality(OldFrom(p, O, t)) <= L
    PROVE  Opened(q, s, O, L, w) /\ NoMoreThanTwice(q, L, w)
  <1> USE RateLimitsAssumption
  <1>1. /\ now \in Nat /\ \A g \in Hits : p[g] \in Int /\ q[g] \in Int /\ p[g] <= now /\ q[g] <= now
    <2>1. now \in Nat /\ \A g \in Hits : p[g] \in Int /\ q[g] \in Int
      BY DEF Moves, Ticks
    <2> QED BY <2>1, MovedSets DEF Moves
  <1>2. \A g \in Hits : q[g] = p[g] \/ (g = h /\ q[g] = now)
    BY DEF Moves
  <1>3. \A g \in O : q[g] = p[g]
    BY <1>2
  <1>4. InWindowOf(q, O) \subseteq InWindowOf(p, O) \cup {h} /\ \A g \in InWindowOf(q, O) : q[g] >= z
    BY <1>1, <1>2 DEF InWindowOf
  <1>5. /\ Cardinality(InWindowOf(q, O)) \in Nat /\ Cardinality(InWindowOf(p, O)) \in Nat
        /\ Cardinality(InWindowOf(q, O)) <= Cardinality(InWindowOf(p, O)) + 1
    <2>1. InWindowOf(p, O) \in SUBSET Hits
      BY DEF InWindowOf
    <2> QED BY <1>4, <2>1, CountingOne
  <1>6. Cardinality(InWindowOf(q, O)) <= s.count /\ Cardinality(InWindowOf(q, O)) <= L
    BY <1>5
  <1>7. \A t \in Ticks : OldFrom(q, O, t) = OldFrom(p, O, t)
    BY <1>3 DEF OldFrom
  <1>8. Opened(q, s, O, L, w)
    BY <1>3, <1>4, <1>6, <1>7 DEF Opened
  <1>9. ASSUME NEW t \in Ticks PROVE Cardinality(Between(q, t, t + w)) <= 2 * L
    <2>0. t \in Int /\ t >= 0 /\ t + w \in Int
      BY DEF Ticks
    <2>1. CASE t + w <= z
      <3>1. Between(q, t, t + w) \subseteq Between(p, t, t + w) /\ Between(p, t, t + w) \subseteq Hits
        BY <1>1, <1>2, <2>0, <2>1 DEF Between
      <3>2. /\ Cardinality(Between(q, t, t + w)) \in Nat /\ Cardinality(Between(p, t, t + w)) \in Nat
            /\ Cardinality(Between(q, t, t + w)) <= Cardinality(Between(p, t, t + w))
        BY <3>1, Counting
      <3>3. Cardinality(Between(p, t, t + w)) <= 2 * L
        BY DEF NoMoreThanTwice
      <3> QED BY <3>2, <3>3
    <2>2. CASE ~(t + w <= z)
      <3>1. t > z - w
        BY <2>0, <2>2
      <3>2. Between(q, t, t + w) \subseteq OldFrom(q, O, t) \cup InWindowOf(q, O)
        BY <1>1, <2>0 DEF Between, OldFrom, InWindowOf
      <3>3. OldFrom(q, O, t) \in SUBSET Hits /\ InWindowOf(q, O) \in SUBSET Hits
        BY DEF OldFrom, InWindowOf
      <3>4. /\ Cardinality(Between(q, t, t + w)) \in Nat /\ Cardinality(OldFrom(q, O, t)) \in Nat
            /\ Cardinality(Between(q, t, t + w)) <= Cardinality(OldFrom(q, O, t)) + Cardinality(InWindowOf(q, O))
        BY <3>2, <3>3, CountingTwo
      <3>5. Cardinality(OldFrom(q, O, t)) <= L
        BY <1>7, <3>1
      <3> QED BY <1>5, <1>6, <3>4, <3>5
    <2> QED BY <2>1, <2>2
  <1> QED BY <1>8, <1>9 DEF NoMoreThanTwice

(* The record is stored and the request passes, or is not answered. *)
LEMMA StoreRecordStep ==
    ASSUME LimInv, NEW h \in Hits, storeRecord(h)
    PROVE  LimInv'
  <1> USE RateLimitsAssumption
  <1>0. /\ LimitsTypeOK /\ UserFits /\ limiter = "user" /\ hit[h] \in {"insert", "count", "reset"} /\ Over(h)
        /\ hit[h] \in Working /\ hit[h] # "over"
        /\ seen[h] \in [count : Nat, start : 0..tick]
        /\ (Allowed(h) \/ UNCHANGED passedAt)
        /\ UNCHANGED <<limiter, tick, config, timestamps, overlap, reshaped>>
        /\ "ip" \in Keys
    BY DEF LimInv, storeRecord, HitFits, Keys, Working
  <1>1. /\ Moves(passedAt, passedAt', h, tick)
        /\ passedAt' \in [Hits -> Ticks \cup {-1}] /\ passedAt'[h] <= tick
        /\ \A g \in Hits : g # h => passedAt'[g] = passedAt[g]
        /\ tick \in Ticks /\ tick \in Nat
    BY <1>0, PassMoves
  <1>2. /\ hit' \in [Hits -> HitSteps] /\ seen' \in [Hits -> RateLimitRecord \cup EndpointRateLimitConfig]
        /\ hit'[h] = "over" /\ (\A g \in Hits : g # h => hit'[g] = hit[g] /\ seen'[g] = seen[g])
        /\ (\A g \in Hits : HitFits(g)')
    BY <1>0, <1>1, OverFits
  <1>3. PICK r : r = counter["ip"]
    OBVIOUS
  <1>4. r \in RateLimitRecord /\ r.count \in Nat /\ r.start \in Int
    BY <1>0, <1>3, RecordTypes
  <1>5. PICK now \in 0..tick, c \in Nat : now = seen[h].start /\ c = seen[h].count
    BY <1>0
  <1>6. now \in Ticks /\ now \in Nat /\ now <= tick
    BY <1>1, <1>5 DEF Ticks
  <1>7. PICK s : s = IF hit[h] = "count" THEN [r EXCEPT !.count = c]
                     ELSE [count |-> 1, start |-> now]
    OBVIOUS
  <1>8. /\ s \in RateLimitRecord
        /\ hit[h] = "count" => s.start = r.start /\ s.count = c
        /\ hit[h] # "count" => s.start = now /\ s.count = 1
    <2>1. CASE hit[h] # "count"
      BY <1>6, <1>7, <2>1 DEF RateLimitRecord
    <2>2. CASE hit[h] = "count"
      <3>1. s = [r EXCEPT !.count = c]
        BY <1>7, <2>2
      <3>2. s \in RateLimitRecord /\ s.start = r.start /\ s.count = c
        BY <1>4, <3>1 DEF RateLimitRecord
      <3> QED BY <2>2, <3>2
    <2> QED BY <2>1, <2>2
  <1>9. /\ counter' \in [Keys -> RateLimitRecord] /\ counter'["ip"] = s
    <2>1. counter' = [counter EXCEPT !["ip"] = s]
      BY <1>3, <1>5, <1>7 DEF storeRecord
    <2> QED BY <1>0, <1>8, <2>1 DEF LimitsTypeOK
  <1>10. LimitsTypeOK'
    BY <1>0, <1>1, <1>2, <1>9 DEF LimitsTypeOK, HitSteps
  <1>11. UserFits'
    <2> SUFFICES ASSUME ~overlap PROVE OneUserWindow'
      BY <1>0 DEF UserFits
    <2> DEFINE L == DEFAULT_LIMITS["read"]
    <2>1. h \in Busy
      BY <1>0 DEF Busy
    <2>2. Busy = {h} /\ Decides(h) /\ UserWindowed(passedAt, r, L, WindowMs)
      BY <1>0, <1>3, <2>1 DEF UserFits, OneUserWindow
    <2>3. Busy' = {}
      BY <1>2, <2>2 DEF Busy, Working
    <2>4. L \in Nat \ {0} /\ NoMoreThanTwice(passedAt, L, WindowMs)
      BY <2>2 DEF UserWindowed
    <2>5. /\ passedAt \in [Hits -> Ticks \cup {-1}] /\ passedAt[h] = -1
          /\ \A g \in Hits : passedAt[g] \in Int
      BY <1>0, <1>1 DEF LimitsTypeOK, Moves, Ticks
    <2> HIDE DEF L
    <2>6. CASE hit[h] = "count"
      <3>1. r # NoRecord /\ c = r.count + 1 /\ c <= L
        BY <1>3, <1>5, <2>2, <2>6 DEF Decides, L
      <3>2. PICK O \in SUBSET Hits : Opened(passedAt, r, O, L, WindowMs)
        BY <2>2, <3>1 DEF UserWindowed
      <3>3. r.start \in 0..tick
        BY <2>2, <3>1 DEF UserWindowed
      <3>4. h \notin O /\ Cardinality(InWindowOf(passedAt, O)) + 1 <= s.count /\ s.count \in Nat /\ s.count <= L
        <4>1. InWindowOf(passedAt, O) \subseteq Hits
          BY DEF InWindowOf
        <4>2. Cardinality(InWindowOf(passedAt, O)) \in Nat
          BY <4>1, Counting
        <4> QED BY <1>4, <1>8, <2>5, <2>6, <3>1, <3>2, <4>2 DEF Opened
      <3>5. PICK z \in 0..tick : z = r.start /\ z = s.start
        BY <1>8, <2>6, <3>3
      <3>6. z \in Nat /\ z <= tick
        BY <1>1, <3>5
      <3>7. /\ \A g \in O : passedAt[g] # -1 /\ passedAt[g] <= z
            /\ \A g \in InWindowOf(passedAt, O) : passedAt[g] >= z
            /\ \A t \in Ticks : t > z - WindowMs => Cardinality(OldFrom(passedAt, O, t)) <= L
        BY <3>2, <3>5 DEF Opened
      <3>8. Opened(passedAt', s, O, L, WindowMs) /\ NoMoreThanTwice(passedAt', L, WindowMs)
        BY <1>1, <2>4, <2>5, <3>4, <3>5, <3>6, <3>7, OpensOrCounts
      <3>9. UserWindowed(passedAt, counter["ip"], L, WindowMs)'
        <4>1. s # NoRecord
          BY <1>4, <1>8, <2>6, <3>1 DEF NoRecord
        <4>2. \E Q \in SUBSET Hits : Opened(passedAt', s, Q, L, WindowMs)
          BY <3>8
        <4> QED BY <1>0, <1>9, <3>5, <3>8, <4>1, <4>2 DEF UserWindowed, L
      <3> QED BY <2>3, <3>9 DEF OneUserWindow, L
    <2>7. CASE hit[h] # "count"
      <3> DEFINE O == {g \in Hits : passedAt[g] # -1}
      <3>1. \A g \in O : passedAt[g] # -1 /\ passedAt[g] <= now
        BY <1>5, <2>2 DEF Decides
      <3>2. O \in SUBSET Hits /\ h \notin O /\ InWindowOf(passedAt, O) = {}
        BY <2>5 DEF InWindowOf
      <3>3. Cardinality(InWindowOf(passedAt, O)) + 1 <= s.count /\ s.count \in Nat /\ s.count <= L
        <4>1. Cardinality(InWindowOf(passedAt, O)) = 0
          BY <3>2, FS_EmptySet
        <4> QED BY <1>8, <2>4, <2>7, <4>1
      <3>4. ASSUME NEW t \in Ticks, t > now - WindowMs
            PROVE  Cardinality(OldFrom(passedAt, O, t)) <= L
        <4>1. CASE r = NoRecord
          <5>1. OldFrom(passedAt, O, t) = {}
            <6>1. r = NoRecord => \A g \in Hits : passedAt[g] = -1
              <7>1. ASSUME r = NoRecord, r # NoRecord PROVE FALSE
                BY <7>1
              <7> QED BY <2>2, <7>1 DEF UserWindowed
            <6> QED BY <4>1, <6>1 DEF OldFrom
          <5> QED BY <2>4, <5>1, FS_EmptySet
        <4>2. CASE r # NoRecord
          <5>1. now > r.start + WindowMs
            <6>1. hit[h] = "reset"
              BY <1>0, <1>3, <2>2, <2>7, <4>2 DEF Decides
            <6> QED BY <1>3, <1>5, <2>2, <6>1 DEF Decides
          <5>2. PICK P \in SUBSET Hits : Opened(passedAt, r, P, L, WindowMs)
            BY <2>2, <4>2 DEF UserWindowed
          <5>3. t \in Int /\ t > r.start
            BY <1>4, <1>6, <3>4, <5>1 DEF Ticks
          <5>4. OldFrom(passedAt, O, t) \subseteq InWindowOf(passedAt, P) /\ InWindowOf(passedAt, P) \subseteq Hits
            <6> SUFFICES ASSUME NEW g \in Hits, passedAt[g] # -1, passedAt[g] >= t PROVE g \notin P
              BY DEF OldFrom, InWindowOf
            <6> QED BY <1>4, <2>5, <5>2, <5>3 DEF Opened
          <5>5. /\ Cardinality(OldFrom(passedAt, O, t)) \in Nat /\ Cardinality(InWindowOf(passedAt, P)) \in Nat
                /\ Cardinality(OldFrom(passedAt, O, t)) <= Cardinality(InWindowOf(passedAt, P))
            BY <5>4, Counting
          <5>6. Cardinality(InWindowOf(passedAt, P)) <= r.count /\ r.count <= L
            BY <5>2 DEF Opened
          <5> QED BY <1>4, <2>4, <5>5, <5>6
        <4> QED BY <4>1, <4>2
      <3>5. \A g \in InWindowOf(passedAt, O) : passedAt[g] >= now
        BY <3>2
      <3> HIDE DEF O
      <3>6. Opened(passedAt', s, O, L, WindowMs) /\ NoMoreThanTwice(passedAt', L, WindowMs)
        BY <1>1, <1>6, <1>8, <2>4, <2>5, <2>7, <3>1, <3>2, <3>3, <3>4, <3>5, OpensOrCounts
      <3>7. UserWindowed(passedAt, counter["ip"], L, WindowMs)'
        <4>1. s.start \in 0..tick
          BY <1>5, <1>8, <2>7
        <4>2. \E Q \in SUBSET Hits : Opened(passedAt', s, Q, L, WindowMs)
          BY <3>2, <3>6
        <4>3. s # NoRecord
          BY <1>8, <2>7 DEF NoRecord
        <4> QED BY <1>0, <1>9, <3>6, <4>1, <4>2, <4>3 DEF UserWindowed, L
      <3> QED BY <2>3, <3>7 DEF OneUserWindow, L
    <2> QED BY <2>6, <2>7
  <1> QED BY <1>0, <1>2, <1>10, <1>11 DEF LimInv, EndpointFits, OtpFits, AlertFits

(* OtpThrottleGuard counts a request that is not refused. *)
LEMMA BumpedFits ==
    ASSUME LimInv, NEW h \in Hits, NEW q, Moves(passedAt, q, h, tick), NEW k \in Keys,
           NEW L \in Nat \ {0}, NEW w \in Nat \ {0},
           Windowed(passedAt, counter[k], L, w, tick), ~Full(counter[k], L, w)
    PROVE  /\ Windowed(q, Bumped(counter[k], w), L, w, tick)
           /\ Bumped(counter[k], w) \in RateLimitRecord
  <1> USE RateLimitsAssumption
  <1>1. PICK r : r = counter[k]
    OBVIOUS
  <1>2. r \in RateLimitRecord /\ r.count \in Nat /\ r.start \in Ticks \cup {-1} /\ r.start \in Int
    BY <1>1, RecordTypes
  <1>3. tick \in Ticks /\ tick \in Nat
    BY DEF LimInv, LimitsTypeOK, Ticks
  <1>4. PICK s : s = Bumped(r, w)
    OBVIOUS
  <1>5. CASE r # NoRecord /\ tick < r.start + w
    <2>1. s = [r EXCEPT !.count = r.count + 1]
      BY <1>4, <1>5 DEF Bumped
    <2>2. s.start = r.start /\ s.count = r.count + 1 /\ s \in RateLimitRecord
      BY <1>2, <2>1 DEF RateLimitRecord
    <2>3. r.count < L
      BY <1>1, <1>2, <1>5 DEF Full
    <2>4. Windowed(q, s, L, w, tick)
      BY <1>1, <1>3, <1>5, <2>2, <2>3, CountedInWindow
    <2> QED BY <1>1, <1>4, <2>2, <2>4
  <1>6. CASE ~(r # NoRecord /\ tick < r.start + w)
    <2>1. s = [count |-> 1, start |-> tick]
      BY <1>4, <1>6 DEF Bumped
    <2>2. s.start = tick /\ s.count = 1 /\ s \in RateLimitRecord
      BY <1>3, <2>1 DEF RateLimitRecord
    <2>3. r = NoRecord \/ tick >= r.start + w
      BY <1>2, <1>3, <1>6
    <2>4. Windowed(q, s, L, w, tick)
      BY <1>1, <1>3, <2>2, <2>3, WindowOpened
    <2> QED BY <1>1, <1>4, <2>2, <2>4
  <1> QED BY <1>5, <1>6

(* OtpThrottleGuard: both windows move in one step. *)
LEMMA CanActivateOtpStep ==
    ASSUME LimInv, NEW h \in Hits, canActivateOtp(h)
    PROVE  LimInv'
  <1> USE RateLimitsAssumption
  <1>0. /\ LimitsTypeOK /\ OtpFits /\ limiter = "otp" /\ hit[h] = "idle" /\ Over(h)
        /\ UNCHANGED <<limiter, tick, config, timestamps, overlap, reshaped>>
        /\ (Allowed(h) \/ UNCHANGED passedAt)
        /\ "ip" \in Keys /\ "email" \in Keys
    BY DEF LimInv, canActivateOtp, Keys
  <1>1. /\ Moves(passedAt, passedAt', h, tick)
        /\ passedAt' \in [Hits -> Ticks \cup {-1}] /\ passedAt'[h] <= tick
        /\ \A g \in Hits : g # h => passedAt'[g] = passedAt[g]
        /\ tick \in Ticks /\ tick \in Nat
    BY <1>0, PassMoves
  <1>2. /\ hit' \in [Hits -> HitSteps] /\ seen' \in [Hits -> RateLimitRecord \cup EndpointRateLimitConfig]
        /\ hit'[h] = "over" /\ (\A g \in Hits : g # h => hit'[g] = hit[g] /\ seen'[g] = seen[g])
        /\ (\A g \in Hits : HitFits(g)')
    BY <1>0, <1>1, OverFits
  <1>3. /\ Windowed(passedAt, counter["ip"], IpLimit, WindowMs, tick)
        /\ Windowed(passedAt, counter["email"], EmailLimit, EmailWindowMs, tick)
    BY <1>0 DEF OtpFits
  <1>4. ASSUME NEW k \in Keys, NEW L \in Nat \ {0}, NEW w \in Nat \ {0},
               Windowed(passedAt, counter[k], L, w, tick), ~Full(counter[k], L, w)
        PROVE  /\ Windowed(passedAt', Bumped(counter[k], w), L, w, tick)
               /\ Bumped(counter[k], w) \in RateLimitRecord
    BY <1>1, <1>4, BumpedFits
  <1>5. \A k \in Keys : counter[k] \in RateLimitRecord
    BY RecordTypes
  <1>6. ASSUME NEW a, NEW b, counter' = [ip |-> a, email |-> b],
               a \in RateLimitRecord, b \in RateLimitRecord,
               Windowed(passedAt', a, IpLimit, WindowMs, tick),
               Windowed(passedAt', b, EmailLimit, EmailWindowMs, tick)
        PROVE  LimInv'
    <2>1. counter'["ip"] = a /\ counter'["email"] = b /\ counter' \in [Keys -> RateLimitRecord]
      BY <1>6 DEF Keys
    <2>3. LimitsTypeOK'
      BY <1>0, <1>1, <1>2, <2>1 DEF LimitsTypeOK, HitSteps
    <2>4. OtpFits'
      BY <1>0, <1>6, <2>1 DEF OtpFits
    <2> QED BY <1>0, <1>2, <2>3, <2>4 DEF LimInv, EndpointFits, UserFits, AlertFits
  <1>7. counter = [ip |-> counter["ip"], email |-> counter["email"]]
    BY <1>0 DEF LimitsTypeOK, Keys
  <1>8. CASE UNCHANGED <<counter, passedAt>>
    <2>1. counter' = [ip |-> counter["ip"], email |-> counter["email"]]
      BY <1>7, <1>8
    <2> QED BY <1>0, <1>3, <1>5, <1>6, <1>8, <2>1
  <1>9. CASE /\ ~Full(counter["ip"], IpLimit, WindowMs)
             /\ counter' = [counter EXCEPT !["ip"] = Bumped(@, WindowMs)]
             /\ UNCHANGED passedAt
    <2>1. /\ Windowed(passedAt', Bumped(counter["ip"], WindowMs), IpLimit, WindowMs, tick)
          /\ Bumped(counter["ip"], WindowMs) \in RateLimitRecord
      BY <1>0, <1>3, <1>4, <1>9
    <2>2. PICK a : a = Bumped(counter["ip"], WindowMs)
      OBVIOUS
    <2>3. counter' = [ip |-> a, email |-> counter["email"]]
      BY <1>7, <1>9, <2>2
    <2> QED BY <1>0, <1>3, <1>5, <1>6, <1>9, <2>1, <2>2, <2>3
  <1>10. CASE /\ ~Full(counter["ip"], IpLimit, WindowMs)
              /\ ~Full(counter["email"], EmailLimit, EmailWindowMs)
              /\ counter' = [ip |-> Bumped(counter["ip"], WindowMs),
                             email |-> Bumped(counter["email"], EmailWindowMs)]
    <2>1. /\ Windowed(passedAt', Bumped(counter["ip"], WindowMs), IpLimit, WindowMs, tick)
          /\ Bumped(counter["ip"], WindowMs) \in RateLimitRecord
      BY <1>0, <1>3, <1>4, <1>10
    <2>2. /\ Windowed(passedAt', Bumped(counter["email"], EmailWindowMs), EmailLimit, EmailWindowMs, tick)
          /\ Bumped(counter["email"], EmailWindowMs) \in RateLimitRecord
      BY <1>0, <1>3, <1>4, <1>10
    <2>3. PICK a, b : a = Bumped(counter["ip"], WindowMs) /\ b = Bumped(counter["email"], EmailWindowMs)
      OBVIOUS
    <2>4. counter' = [ip |-> a, email |-> b]
      BY <1>10, <2>3
    <2> QED BY <1>6, <2>1, <2>2, <2>3, <2>4
  <1> QED BY <1>8, <1>9, <1>10 DEF canActivateOtp

(* AdminAlertService finds the flag gone or set. *)
LEMMA IsRateLimitedStep ==
    ASSUME LimInv, NEW h \in Hits, isRateLimited(h)
    PROVE  LimInv'
  <1> USE RateLimitsAssumption
  <1>0. /\ LimitsTypeOK /\ AlertFits /\ limiter = "alert" /\ hit[h] = "idle"
        /\ overlap' = (overlap \/ Busy # {})
        /\ UNCHANGED <<limiter, tick, config, timestamps, counter, seen, passedAt,
                       reshaped>>
        /\ "ip" \in Keys
    BY DEF LimInv, isRateLimited, Keys
  <1>1. PICK x : x = IF counter["ip"] # NoRecord /\ tick < counter["ip"].start + WindowMs THEN "over" ELSE "flag"
    OBVIOUS
  <1>2. hit' = [hit EXCEPT ![h] = x] /\ x \in {"over", "flag"} /\ x \in HitSteps \ {"idle"}
    BY <1>1 DEF isRateLimited, HitSteps
  <1>3. /\ hit' \in [Hits -> HitSteps] /\ hit'[h] = x
        /\ (\A g \in Hits : g # h => hit'[g] = hit[g])
    BY <1>2, StepAfter
  <1>4. HitFits(h)'
    <2>1. passedAt[h] = -1 /\ passedAt[h] <= tick
      BY <1>0 DEF LimInv, HitFits
    <2> QED BY <1>0, <1>2, <1>3, <2>1 DEF HitFits, Working
  <1>5. \A g \in Hits : HitFits(g)'
    BY <1>0, <1>2, <1>4, OthersFit
  <1>7. LimitsTypeOK'
    <2>1. overlap' \in BOOLEAN
      BY <1>0
    <2> QED BY <1>0, <1>3, <2>1 DEF LimitsTypeOK, HitSteps
  <1>8. AlertFits'
    <2> SUFFICES ASSUME ~overlap' PROVE OneAlertWindow'
      BY DEF AlertFits
    <2>1. ~overlap /\ Busy = {} /\ Windowed(passedAt, counter["ip"], 1, WindowMs, tick)
      BY <1>0 DEF AlertFits, OneAlertWindow
    <2>2. Busy' \subseteq {h} /\ (h \in Busy' => x = "flag")
      BY <1>2, <1>3, <2>1 DEF Busy, Working
    <2>3. x = "flag" => counter["ip"] = NoRecord \/ tick >= counter["ip"].start + WindowMs
      <3>1. counter["ip"].start \in Int /\ tick \in Int
        BY <1>0, RecordTypes DEF LimitsTypeOK, Ticks
      <3> QED BY <1>1, <3>1
    <2> QED BY <1>0, <2>1, <2>2, <2>3 DEF OneAlertWindow
  <1> QED BY <1>0, <1>5, <1>7, <1>8 DEF LimInv, EndpointFits, UserFits, OtpFits

(* The flag is set again and the alert goes out. *)
LEMMA SendAlertStep ==
    ASSUME LimInv, NEW h \in Hits, sendAlert(h)
    PROVE  LimInv'
  <1> USE RateLimitsAssumption
  <1>0. /\ LimitsTypeOK /\ AlertFits /\ limiter = "alert" /\ hit[h] = "flag" /\ Over(h) /\ Allowed(h)
        /\ UNCHANGED <<limiter, tick, config, timestamps, overlap, reshaped>>
        /\ "ip" \in Keys
    BY DEF LimInv, sendAlert, HitFits, Keys
  <1>1. /\ Moves(passedAt, passedAt', h, tick)
        /\ passedAt' \in [Hits -> Ticks \cup {-1}] /\ passedAt'[h] <= tick
        /\ \A g \in Hits : g # h => passedAt'[g] = passedAt[g]
        /\ tick \in Ticks /\ tick \in Nat
    BY <1>0, PassMoves
  <1>2. /\ hit' \in [Hits -> HitSteps] /\ seen' \in [Hits -> RateLimitRecord \cup EndpointRateLimitConfig]
        /\ hit'[h] = "over" /\ (\A g \in Hits : g # h => hit'[g] = hit[g] /\ seen'[g] = seen[g])
        /\ (\A g \in Hits : HitFits(g)')
    BY <1>0, <1>1, OverFits
  <1>3. PICK z : z = [count |-> 1, start |-> tick]
    OBVIOUS
  <1>5. z \in RateLimitRecord /\ z.start = tick /\ z.count = 1
    BY <1>1, <1>3 DEF RateLimitRecord
  <1>6. /\ counter' \in [Keys -> RateLimitRecord] /\ counter'["ip"] = z
        /\ \A k \in Keys : k # "ip" => counter'[k] = counter[k]
    BY <1>0, <1>3, <1>5 DEF sendAlert, LimitsTypeOK
  <1>8. LimitsTypeOK'
    BY <1>0, <1>1, <1>2, <1>6 DEF LimitsTypeOK, HitSteps
  <1>9. AlertFits'
    <2> SUFFICES ASSUME ~overlap' PROVE OneAlertWindow'
      BY DEF AlertFits
    <2>1. h \in Busy
      BY <1>0 DEF Busy
    <2>2. /\ Busy = {h} /\ Windowed(passedAt, counter["ip"], 1, WindowMs, tick)
          /\ counter["ip"] = NoRecord \/ tick >= counter["ip"].start + WindowMs
      BY <1>0, <2>1 DEF AlertFits, OneAlertWindow
    <2>3. Busy' = {}
      BY <1>2, <2>2 DEF Busy, Working
    <2>4. 1 \in Nat \ {0} /\ WindowMs \in Nat \ {0}
      OBVIOUS
    <2>5. Windowed(passedAt', z, 1, WindowMs, tick)
      BY <1>1, <1>5, <2>2, <2>4, WindowOpened
    <2> QED BY <1>0, <1>6, <2>3, <2>5 DEF OneAlertWindow
  <1> QED BY <1>0, <1>2, <1>8, <1>9 DEF LimInv, EndpointFits, UserFits, OtpFits

(* Time passes. *)
LEMMA LimitTickStep ==
    ASSUME LimInv, LimitTick
    PROVE  LimInv'
  <1> USE RateLimitsAssumption
  <1>0. /\ LimitsTypeOK /\ (\A h \in Hits : HitFits(h)) /\ EndpointFits /\ UserFits /\ OtpFits /\ AlertFits
        /\ tick' = tick + 1 /\ tick < LastTick
        /\ UNCHANGED <<limiter, config, timestamps, counter, hit, seen, passedAt,
                       overlap, reshaped>>
    BY DEF LimInv, LimitTick
  <1>1. tick \in Nat /\ tick' \in Nat /\ tick' \in Ticks /\ tick <= tick' /\ tick \in Int /\ tick' \in Int
    BY <1>0 DEF LimitsTypeOK, Ticks
  <1>2. Busy' = Busy /\ \A h \in Hits : passedAt[h] \in Int
    BY <1>0 DEF Busy, LimitsTypeOK, Ticks
  <1>3. LimitsTypeOK'
    BY <1>0, <1>1, <1>2 DEF LimitsTypeOK
  <1>4. \A h \in Hits : HitFits(h)'
    <2> SUFFICES ASSUME NEW h \in Hits PROVE HitFits(h)'
      OBVIOUS
    <2>1. HitFits(h) /\ passedAt[h] \in Int
      BY <1>0, <1>2
    <2>2. 0..tick \subseteq 0..tick'
      BY <1>1
    <2>3. \A s : s \in [count : Nat, start : 0..tick] => s \in [count : Nat, start : 0..tick']
      BY <2>2
    <2>4. passedAt[h] <= tick'
      BY <1>0, <1>1, <2>1 DEF HitFits
    <2> QED BY <1>0, <1>2, <2>1, <2>3, <2>4 DEF HitFits
  <1>5. EndpointFits'
    <2>1. ASSUME NEW h \in Hits, passedAt[h] > tick' - WindowMs PROVE passedAt[h] > tick - WindowMs
      BY <1>0, <1>1, <1>2, <2>1
    <2> QED BY <1>0, <2>1 DEF EndpointFits
  <1>6. \A p, r, L, w : Windowed(p, r, L, w, tick) => Windowed(p, r, L, w, tick')
    BY <1>1, WindowedLater
  <1>7. UserFits'
    <2>1. \A h \in Hits : Decides(h)' <=> Decides(h)
      BY <1>0 DEF Decides
    <2>2. \A p, r, L, w : UserWindowed(p, r, L, w) => UserWindowed(p, r, L, w)'
      <3>1. 0..tick \subseteq 0..tick'
        BY <1>1
      <3> QED BY <3>1 DEF UserWindowed
    <2>3. Busy \subseteq Hits
      BY DEF Busy
    <2> QED BY <1>0, <1>2, <2>1, <2>2, <2>3 DEF UserFits, OneUserWindow, UserWindowed
  <1>8. OtpFits'
    BY <1>0, <1>6 DEF OtpFits
  <1>9. AlertFits'
    <2>1. counter["ip"].start \in Int
      BY RecordTypes DEF Keys
    <2>2. tick >= counter["ip"].start + WindowMs => tick' >= counter["ip"].start + WindowMs
      BY <1>0, <1>1, <2>1
    <2> QED BY <1>0, <1>2, <1>6, <2>2 DEF AlertFits, OneAlertWindow
  <1> QED BY <1>3, <1>4, <1>5, <1>7, <1>8, <1>9 DEF LimInv

(* Every step of the limiters keeps the invariant. *)
LEMMA LimInvStep == LimInv /\ [LimitsNext]_limitVars => LimInv'
  <1> SUFFICES ASSUME LimInv, [LimitsNext]_limitVars PROVE LimInv'
    OBVIOUS
  <1>1. CASE UNCHANGED limitVars
    BY <1>1
       DEF limitVars, LimInv, LimitsTypeOK, HitFits, EndpointFits, UserFits,
       OneUserWindow, UserWindowed, Decides, OtpFits, AlertFits, OneAlertWindow, Busy
  <1> QED BY <1>1, ReadConfigStep, CheckRateLimitStep, UpdateConfigStep, CheckUserStep, FindRecordStep,
          StoreRecordStep, FailUserStep,
          CanActivateOtpStep, IsRateLimitedStep, SendAlertStep, LimitTickStep DEF LimitsNext

(* The invariant of the limiters holds initially. *)
LEMMA LimInvInit == ASSUME LimitsInit PROVE LimInv
  <1> USE RateLimitsAssumption
  <1>2. NoRecord \in RateLimitRecord /\ NoRecord.count = 0 /\ NoRecord.start = -1
    BY DEF NoRecord, RateLimitRecord
  <1>3. config \in EndpointRateLimitConfig /\ config.windowMs = WindowMs /\ config.maxRequests \in maxRequestsSet
        /\ reshaped = config.maxRequests
    BY DEF LimitsInit, EndpointRateLimitConfig
  <1>4. 0 \in Ticks /\ tick = 0
    BY DEF LimitsInit, Ticks
  <1>5. LimitsTypeOK
    BY <1>2, <1>3, <1>4 DEF LimitsInit, LimitsTypeOK
  <1>6. Busy = {}
    BY DEF LimitsInit, Busy, Working
  <1>7. \A h \in Hits : HitFits(h)
    BY <1>4 DEF LimitsInit, HitFits, Working
  <1>9. \A t \in Ticks, b \in Int : Between(passedAt, t, b) = {} /\ Cardinality(Between(passedAt, t, b)) = 0
    <2>1. \A t \in Ticks, b \in Int : Between(passedAt, t, b) = {}
      BY DEF LimitsInit, Between, Ticks
    <2> QED BY <2>1, FS_EmptySet
  <1>10. EndpointFits
    <2>1. config.maxRequests \in Nat
      BY <1>3, MaximaAreNumbers
    <2>2. \A t \in Ticks : Cardinality(Between(passedAt, t, t + WindowMs)) <= reshaped
      <3>1. \A t \in Ticks : t + WindowMs \in Int
        BY DEF Ticks
      <3> QED BY <1>3, <1>9, <2>1, <3>1
    <2> QED BY <1>3, <2>1, <2>2 DEF LimitsInit, EndpointFits
  <1>11. ASSUME NEW L \in Nat \ {0}, NEW w \in Nat \ {0}
         PROVE  Windowed(passedAt, NoRecord, L, w, tick)
    <2>1. \A t \in Ticks : t + w \in Int
      BY DEF Ticks
    <2>2. 0 <= 2 * L - 1
      OBVIOUS
    <2>3. FewerThanTwice(passedAt, L, w)
      BY <1>9, <2>1, <2>2 DEF FewerThanTwice
    <2> QED BY <2>3 DEF LimitsInit, Windowed
  <1>12. counter["ip"] = NoRecord /\ counter["email"] = NoRecord
    BY DEF LimitsInit, Keys
  <1>13. WindowMs + 1 \in Nat \ {0} /\ 1 \in Nat \ {0} /\ DEFAULT_LIMITS["read"] \in Nat \ {0}
    OBVIOUS
  <1>14. OtpFits /\ AlertFits
    BY <1>6, <1>11, <1>12, <1>13 DEF OtpFits, AlertFits, OneAlertWindow
  <1>15. UserFits
    <2>1. NoMoreThanTwice(passedAt, DEFAULT_LIMITS["read"], WindowMs)
      <3>1. \A t \in Ticks : t + WindowMs \in Int
        BY DEF Ticks
      <3> QED BY <1>9, <1>13, <3>1 DEF NoMoreThanTwice
    <2> QED BY <1>6, <1>12, <2>1 DEF LimitsInit, UserFits, OneUserWindow, UserWindowed
  <1> QED BY <1>5, <1>7, <1>10, <1>14, <1>15 DEF LimInv

(* What the invariant says of the limiters. *)
LEMMA LimInvHolds == LimInv => LimitsTypeOK /\ WindowsHold
  <1> SUFFICES ASSUME LimInv PROVE LimitsTypeOK /\ WindowsHold
    OBVIOUS
  <1> USE RateLimitsAssumption
  <1>0. LimitsTypeOK /\ EndpointFits /\ UserFits /\ OtpFits /\ AlertFits
    BY DEF LimInv
  <1>1. \A h \in Hits : passedAt[h] \in Int
    BY <1>0 DEF LimitsTypeOK, Ticks
  <1>2. ASSUME NEW t \in Ticks, NEW w \in Nat PROVE PassedWithin(t, w) = Between(passedAt, t, t + w)
    <2>1. t \in Int
      BY DEF Ticks
    <2>2. \A x \in Int : x \in t..(t + w - 1) <=> x >= t /\ x < t + w
      BY <2>1
    <2> QED BY <1>1, <2>2 DEF PassedWithin, Between
  <1>3. SlidingWindowHolds
    BY <1>0, <1>2 DEF EndpointFits, SlidingWindowHolds
  <1>4. ASSUME NEW t \in Ticks, limiter = "user", ~overlap
        PROVE  Cardinality(PassedWithin(t, WindowMs)) <= 2 * DEFAULT_LIMITS["read"]
    <2>1. NoMoreThanTwice(passedAt, DEFAULT_LIMITS["read"], WindowMs)
      BY <1>0, <1>4 DEF UserFits, OneUserWindow, UserWindowed
    <2>2. PassedWithin(t, WindowMs) = Between(passedAt, t, t + WindowMs)
      BY <1>2
    <2> QED BY <2>1, <2>2 DEF NoMoreThanTwice
  <1>5. ASSUME NEW t \in Ticks, limiter = "otp"
        PROVE  /\ Cardinality(PassedWithin(t, WindowMs)) <= 2 * IpLimit - 1
               /\ Cardinality(PassedWithin(t, EmailWindowMs)) <= 2 * EmailLimit - 1
    <2>1. FewerThanTwice(passedAt, IpLimit, WindowMs) /\ FewerThanTwice(passedAt, EmailLimit, EmailWindowMs)
      BY <1>0, <1>5 DEF OtpFits, Windowed
    <2>2. PassedWithin(t, WindowMs) = Between(passedAt, t, t + WindowMs)
          /\ PassedWithin(t, EmailWindowMs) = Between(passedAt, t, t + EmailWindowMs)
      BY <1>2
    <2> QED BY <2>1, <2>2 DEF FewerThanTwice
  <1>6. ASSUME NEW t \in Ticks, limiter = "alert", ~overlap
        PROVE  Cardinality(PassedWithin(t, WindowMs)) <= 1
    <2>1. FewerThanTwice(passedAt, 1, WindowMs)
      BY <1>0, <1>6 DEF AlertFits, OneAlertWindow, Windowed
    <2>2. PassedWithin(t, WindowMs) = Between(passedAt, t, t + WindowMs) /\ 2 * 1 - 1 = 1
      BY <1>2
    <2> QED BY <2>1, <2>2 DEF FewerThanTwice
  <1> QED BY <1>0, <1>3, <1>4, <1>5, <1>6 DEF WindowsHold, FixedWindowHolds

(* No interval of a window's length holds more than the sliding limiter's  *)
(* limit, nor as many as twice a fixed window's limit (the user's: more    *)
(* than twice), for any requests, limits and windows, as long as two       *)
(* requests do not overlap on a record.                                    *)
THEOREM LimitersHold == LimitsSpec => [](LimitsTypeOK /\ WindowsHold)
  <1>1. LimitsInit => LimInv
    BY LimInvInit
  <1> QED BY <1>1, LimInvStep, LimInvHolds, PTL DEF LimitsSpec

----------------------------------------------------------------------------
(***************************************************************************)
(* Side by side (MCTransactionLimits).                                     *)
(***************************************************************************)

(* Whichever of the five moves, each of them behaves as its own            *)
(* specification says.                                                     *)
LEMMA EachMoves == MCSpec => Spec /\ LimitsSpec /\ CacheSpec /\ GatewaySpec /\ RateTableSpec
  <1>1. MCInit => Init /\ LimitsInit /\ CacheInit /\ GatewayInit /\ RateTableInit
    BY DEF MCInit
  <1>2. [MCNext]_MCVars => /\ [Next]_vars /\ [LimitsNext]_limitVars /\ [CacheNext]_cacheVars
                           /\ [GatewayNext]_gatewayVars /\ [RateTableNext]_rateVars
    BY DEF MCNext, MCVars
  <1> QED BY <1>1, <1>2, PTL
          DEF MCSpec, Spec, LimitsSpec, CacheSpec, GatewaySpec, RateTableSpec

(* One of the five moves. *)
OneMoves == focus \in Parts

(* The type invariant of the module that moves. *)
THEOREM PartsTyped == MCSpec => []MCTypeOK
  <1>1. /\ TypeOK /\ LimitsTypeOK /\ CacheTypeOK /\ GatewayTypeOK /\ RateTableTypeOK
        /\ OneMoves
        => MCTypeOK
    BY PartsAssumption DEF MCTypeOK, OneMoves
  <1>2. MCInit => OneMoves
    BY DEF MCInit, OneMoves
  <1>3. OneMoves /\ [MCNext]_MCVars => OneMoves'
    BY DEF MCNext, MCVars, OneMoves
  <1>4. MCSpec => []OneMoves
    BY <1>2, <1>3, PTL DEF MCSpec
  <1> QED BY <1>1, <1>4, EachMoves, TypeCorrect, LimitersHold, EvictionSparesTheRecent,
             ReplaysComplete, ListsWhole, PTL

(* Who asks for rates is served. *)
THEOREM RatesServed == MCSpec => []RatesAreServed
  <1>1. RecentlyUsedStays /\ ReplayIsComplete /\ ListsAreWhole => RatesAreServed
    BY DEF RatesAreServed
  <1> QED BY <1>1, EachMoves, EvictionSparesTheRecent, ReplaysComplete, ListsWhole, PTL
============================================================================
