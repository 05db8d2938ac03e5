-------------------------- MODULE OperationsProofs --------------------------
(***************************************************************************)
(* Theorems about the modules that MCOperations puts side by side, each    *)
(* about the specification of its own module, for any sets of actors and   *)
(* rows: trades and rollbacks, jobs, webhook subscriptions, administrative *)
(* saves, reports on the ledger, listings and exports, the configuration   *)
(* of a process and the migrations.  The last theorems say the same of the *)
(* specification that puts them side by side.                              *)
(***************************************************************************)
EXTENDS MCOperations, MoneyProofs

(* A set in which any two members are equal has at most one of them: how   *)
(* every "at most one" below is read off.                                  *)
LEMMA AtMostOne ==
    ASSUME NEW S, \A x, y \in S : x = y
    PROVE  IsFiniteSet(S) /\ Cardinality(S) <= 1
  <1>1. CASE S = {}
    BY <1>1, FS_EmptySet
  <1>2. CASE S # {}
    <2>1. PICK x : S = {x}
      BY <1>2
    <2>2. IsFiniteSet({x}) /\ Cardinality({x}) = 1
      BY FS_Singleton
    <2> QED BY <2>1, <2>2
  <1> QED BY <1>1, <1>2

(* One more member. *)
LEMMA OneMore ==
    ASSUME NEW S, IsFiniteSet(S), NEW x, x \notin S
    PROVE  /\ IsFiniteSet(S \cup {x}) /\ Cardinality(S) \in Nat
           /\ Cardinality(S \cup {x}) = Cardinality(S) + 1
  BY FS_AddElement, FS_CardinalityType

(* One member less. *)
LEMMA OneLess ==
    ASSUME NEW S, IsFiniteSet(S), NEW x \in S
    PROVE  /\ IsFiniteSet(S \ {x}) /\ Cardinality(S) \in Nat
           /\ Cardinality(S \ {x}) = Cardinality(S) - 1
  BY FS_RemoveElement, FS_CardinalityType

----------------------------------------------------------------------------
(* FxTrades. *)

Currencies == {"from", "to"}
Started == {t \in Trades : trades[t] # "none"}
Kept == {t \in Trades : trades[t] \notin {"none", "reversed"}}
(* The trades that are reversed, or whose reversal has begun its legs. *)
Undoing == {t \in Trades : trades[t] = "reversed" \/ \E r \in saving : reversal[r] = t}
(* What the trades say was moved so far in a currency, leg by leg. *)
Net(c) == [t \in Trades |-> IF t \in Started \ Undoing THEN Moved(c)[t] ELSE 0]
(* The legs that are still under way, and what each of them moves. *)
LegsOn(c) == {l \in legs : l[2] = c}
LegDelta == [l \in (Trades \cup Reversals) \X Currencies \X Int |-> l[3]]
(* The legs that are not whole cents. *)
BrokenLegs(c) == {l \in LegsOn(c) : ~WholeCents(l[3])}
Broken(c, S) == {t \in S : ~WholeCents(Moved(c)[t])}

(* A trade not begun and a reversal whose legs are not begun owe nothing. *)
LegsBegun == /\ IsFiniteSet(legs)
             /\ \A l \in legs : l[1] \in Started \cup saving \cup answered

(* The balances are what was moved so far, less the legs that are still    *)
(* under way, to within half a cent for each leg made that is not whole    *)
(* cents.                                                                  *)
Opening(c) == IF c = "from" THEN InitialFunds ELSE 0
Drift(c) == SubUnits * funds[c] + Adds(LegDelta, LegsOn(c)) - SubUnits * Opening(c) - Adds(Net(c), Trades)
Made(c) == Cardinality(Broken(c, Started)) + Cardinality(Broken(c, Undoing)) - Cardinality(BrokenLegs(c))
FundsMoved ==
    ~legFailed /\ doubled = {} =>
        \A c \in Currencies : Drift(c) <= HalfCent * Made(c) /\ -Drift(c) <= HalfCent * Made(c)

(* A request reverses a trade until it is answered; a trade that was never *)
(* doubled is reversed by one request at most, which finds it executed.    *)
ReversalsReal ==
    /\ \A r \in saving : reversal[r] # NoTrade
    /\ \A r \in Reversals : reversal[r] # NoTrade =>
            trades[reversal[r]] \in {"executed", "reversed"}
    /\ \A r \in Reversals : reversal[r] # NoTrade => r \notin answered
    /\ \A r, q \in Reversals : reversal[r] # NoTrade /\ reversal[r] \notin doubled =>
            /\ trades[reversal[r]] = "executed"
            /\ reversal[q] = reversal[r] => q = r

TradesInv == /\ TradesTypeOK /\ LegsBegun /\ FundsMoved /\ ReversalsReal

(* A conversion gives a number of sub-units. *)
LEMMA ConvertedIsNat ==
    ASSUME NEW a \in FromAmounts, NEW rate \in Rates
    PROVE  a \in Nat /\ Converted(a, rate) \in Nat
  <1>1. a \in Nat /\ rate \in Nat /\ RateUnit \in Nat \ {0}
    BY TradesAssumption
  <1>2. a * rate \in Nat
    BY <1>1
  <1> DEFINE x == 2 * a * rate + RateUnit
             d == 2 * RateUnit
  <1>3. x \in Int /\ x >= 0 /\ d \in Nat \ {0}
    BY <1>1, <1>2
  <1>4. Converted(a, rate) = x \div d
    BY DEF Converted
  <1> HIDE DEF x, d
  <1>5. x \div d \in Int /\ x < d * (x \div d) + d
    BY <1>3, DivFacts
  <1>6. x \div d >= 0
    <2> DEFINE q == x \div d
    <2> HIDE DEF q
    <2>1. q \in Int /\ x < d * q + d
      BY <1>5 DEF q
    <2>2. q >= 0
      BY <1>3, <2>1
    <2> QED BY <2>2 DEF q
  <1> QED BY <1>1, <1>4, <1>5, <1>6


(* One trade changes, and the sum over all of them with it. *)
LEMMA TradesChange ==
    ASSUME NEW f, NEW g, NEW t \in Trades,
           \A x \in Trades : f[x] \in Int /\ g[x] \in Int,
           \A x \in Trades : x # t => g[x] = f[x]
    PROVE  Adds(g, Trades) = Adds(f, Trades) - f[t] + g[t]
  <1>1. IsFiniteSet(Trades)
    BY TradesAssumption
  <1> QED BY <1>1, AddsChange

(* The sets that are counted and the sums are numbers. *)
LEMMA TradesFinite ==
    ASSUME TradesTypeOK, LegsBegun, NEW c \in Currencies
    PROVE  /\ \A S \in SUBSET Trades : IsFiniteSet(S) /\ Cardinality(S) \in Nat
           /\ \A S \in SUBSET legs : IsFiniteSet(S) /\ Cardinality(S) \in Nat
           /\ \A t \in Trades : Moved(c)[t] \in Int /\ Net(c)[t] \in Int
           /\ \A l \in legs : LegDelta[l] = l[3] /\ LegDelta[l] \in Int
           /\ \A S \in SUBSET legs : Adds(LegDelta, S) \in Int
           /\ Adds(Net(c), Trades) \in Int
           /\ SubUnits \in Nat \ {0} /\ HalfCent \in Nat \ {0} /\ Opening(c) \in Nat
           /\ SubUnits * funds[c] \in Int /\ SubUnits * Opening(c) \in Int
           /\ Made(c) \in Int /\ HalfCent * Made(c) \in Int /\ Drift(c) \in Int
  <1>1. \A S \in SUBSET Trades : IsFiniteSet(S) /\ Cardinality(S) \in Nat
    BY TradesAssumption, FS_Subset, FS_CardinalityType
  <1>2. \A S \in SUBSET legs : IsFiniteSet(S) /\ Cardinality(S) \in Nat
    BY FS_Subset, FS_CardinalityType DEF LegsBegun
  <1>3. \A t \in Trades : Moved(c)[t] \in Int /\ Net(c)[t] \in Int
    BY DEF TradesTypeOK, Moved, Net
  <1>4. \A l \in legs : LegDelta[l] = l[3] /\ LegDelta[l] \in Int
    BY DEF TradesTypeOK, LegDelta, Currencies
  <1>5. \A S \in SUBSET legs : Adds(LegDelta, S) \in Int
    <2> SUFFICES ASSUME NEW S \in SUBSET legs PROVE Adds(LegDelta, S) \in Int
      OBVIOUS
    <2>1. \A l \in S : LegDelta[l] \in Int
      BY <1>4
    <2> QED BY <1>2, <2>1, AddsType
  <1>6. Adds(Net(c), Trades) \in Int
    BY <1>1, <1>3, AddsType
  <1>7. SubUnits \in Nat \ {0} /\ HalfCent \in Nat \ {0} /\ Opening(c) \in Nat
    BY HalfCentAssumption, TradesAssumption DEF SubUnits, Opening
  <1>8. SubUnits * funds[c] \in Int /\ SubUnits * Opening(c) \in Int
    BY <1>7 DEF TradesTypeOK, Currencies
  <1>9. /\ Broken(c, Started) \in SUBSET Trades /\ Broken(c, Undoing) \in SUBSET Trades
        /\ LegsOn(c) \in SUBSET legs /\ BrokenLegs(c) \in SUBSET legs
    BY DEF Broken, Started, Undoing, LegsOn, BrokenLegs
  <1>10. Made(c) \in Int
    BY <1>1, <1>2, <1>9 DEF Made
  <1>11. HalfCent * Made(c) \in Int
    BY <1>7, <1>10
  <1>12. Drift(c) \in Int
    BY <1>5, <1>6, <1>8, <1>9 DEF Drift
  <1> QED BY <1>1, <1>2, <1>3, <1>4, <1>5, <1>6, <1>7, <1>8, <1>10, <1>11, <1>12

(* A leg that is begun adds to the legs under way what it moves. *)
LEMMA LegBegun ==
    ASSUME TradesTypeOK, LegsBegun, NEW c \in Currencies,
           NEW l \in (Trades \cup Reversals) \X Currencies \X Int, l[2] = c, l \notin legs,
           LegsOn(c)' = LegsOn(c) \cup {l}
    PROVE  /\ Adds(LegDelta, LegsOn(c))' = Adds(LegDelta, LegsOn(c)) + l[3]
           /\ Cardinality(BrokenLegs(c))' = Cardinality(BrokenLegs(c)) + IF WholeCents(l[3]) THEN 0 ELSE 1
  <1>1. LegsOn(c) \in SUBSET legs /\ BrokenLegs(c) \in SUBSET legs
    BY DEF LegsOn, BrokenLegs
  <1>2. IsFiniteSet(LegsOn(c)) /\ IsFiniteSet(BrokenLegs(c)) /\ Cardinality(BrokenLegs(c)) \in Nat
    BY <1>1, TradesFinite
  <1>3. l \notin LegsOn(c) /\ l \notin BrokenLegs(c)
    BY <1>1
  <1> DEFINE S == LegsOn(c) \cup {l}
  <1>4. IsFiniteSet(S) /\ \A x \in S : LegDelta[x] \in Int
    <2>1. LegDelta[l] \in Int
      BY DEF LegDelta
    <2> QED BY <1>1, <1>2, <2>1, TradesFinite, OneMore
  <1>5. Adds(LegDelta, S) = LegDelta[l] + Adds(LegDelta, S \ {l}) /\ S \ {l} = LegsOn(c)
    BY <1>3, <1>4, AddsSplit
  <1>6. Adds(LegDelta, LegsOn(c))' = Adds(LegDelta, S)
    <2>1. LegDelta' = LegDelta
      BY DEF LegDelta, Currencies
    <2> QED BY <2>1
  <1>7. LegDelta[l] = l[3]
    BY DEF LegDelta
  <1>8. Adds(LegDelta, LegsOn(c)) \in Int
    BY <1>1, TradesFinite
  <1>9. BrokenLegs(c)' = IF WholeCents(l[3]) THEN BrokenLegs(c) ELSE BrokenLegs(c) \cup {l}
    BY DEF BrokenLegs
  <1>10. Cardinality(BrokenLegs(c))' = Cardinality(BrokenLegs(c)) + IF WholeCents(l[3]) THEN 0 ELSE 1
    <2>1. CASE WholeCents(l[3])
      BY <1>2, <1>9, <2>1
    <2>2. CASE ~WholeCents(l[3])
      BY <1>2, <1>3, <1>9, <2>2, OneMore
    <2> QED BY <2>1, <2>2
  <1>11. Adds(LegDelta, LegsOn(c))' = Adds(LegDelta, LegsOn(c)) + l[3]
    <2>1. Adds(LegDelta, S) = l[3] + Adds(LegDelta, LegsOn(c))
      BY <1>5, <1>7
    <2>2. l[3] \in Int
      OBVIOUS
    <2> HIDE DEF S
    <2> QED BY <1>6, <1>8, <2>1, <2>2
  <1> QED BY <1>10, <1>11

(* A leg that is made leaves the legs under way. *)
LEMMA LegMade ==
    ASSUME TradesTypeOK, LegsBegun, NEW c \in Currencies, NEW l \in legs, l[2] = c,
           LegsOn(c)' = LegsOn(c) \ {l}
    PROVE  /\ l[3] \in Int
           /\ Adds(LegDelta, LegsOn(c)) = l[3] + Adds(LegDelta, LegsOn(c))'
           /\ Cardinality(BrokenLegs(c))' = Cardinality(BrokenLegs(c)) - IF WholeCents(l[3]) THEN 0 ELSE 1
  <1>1. LegsOn(c) \in SUBSET legs /\ BrokenLegs(c) \in SUBSET legs /\ l \in LegsOn(c)
    BY DEF LegsOn, BrokenLegs
  <1>2. IsFiniteSet(LegsOn(c)) /\ IsFiniteSet(BrokenLegs(c)) /\ Cardinality(BrokenLegs(c)) \in Nat
    BY <1>1, TradesFinite
  <1>3. \A x \in LegsOn(c) : LegDelta[x] \in Int
    BY <1>1, TradesFinite
  <1>4. Adds(LegDelta, LegsOn(c)) = LegDelta[l] + Adds(LegDelta, LegsOn(c) \ {l})
    BY <1>1, <1>2, <1>3, AddsSplit
  <1>5. LegDelta' = LegDelta /\ LegDelta[l] = l[3] /\ l[3] \in Int
    <2>1. LegDelta' = LegDelta
      BY DEF LegDelta, Currencies
    <2> QED BY <2>1, TradesFinite
  <1>6. BrokenLegs(c)' = IF WholeCents(l[3]) THEN BrokenLegs(c) ELSE BrokenLegs(c) \ {l}
    BY DEF BrokenLegs
  <1>7. Cardinality(BrokenLegs(c))' = Cardinality(BrokenLegs(c)) - IF WholeCents(l[3]) THEN 0 ELSE 1
    <2>1. CASE WholeCents(l[3])
      BY <1>2, <1>6, <2>1
    <2>2. CASE ~WholeCents(l[3])
      <3>1. l \in BrokenLegs(c)
        BY <1>1, <2>2 DEF BrokenLegs
      <3> QED BY <1>2, <1>6, <2>2, <3>1, OneLess
    <2> QED BY <2>1, <2>2
  <1> QED BY <1>4, <1>5, <1>7

(* One more trade of those that are not whole cents, or the same. *)
LEMMA BrokenMore ==
    ASSUME NEW c, NEW S \in SUBSET Trades, NEW t \in Trades, t \notin S
    PROVE  /\ Cardinality(Broken(c, S)) \in Nat
           /\ Cardinality(Broken(c, S \cup {t})) =
                Cardinality(Broken(c, S)) + IF WholeCents(Moved(c)[t]) THEN 0 ELSE 1
  <1>1. IsFiniteSet(Broken(c, S)) /\ t \notin Broken(c, S)
    BY TradesAssumption, FS_Subset DEF Broken
  <1>2. Broken(c, S \cup {t}) = IF WholeCents(Moved(c)[t]) THEN Broken(c, S) ELSE Broken(c, S) \cup {t}
    BY DEF Broken
  <1>3. Cardinality(Broken(c, S)) \in Nat
    BY <1>1, FS_CardinalityType
  <1>4. CASE WholeCents(Moved(c)[t])
    BY <1>2, <1>3, <1>4
  <1>5. CASE ~WholeCents(Moved(c)[t])
    BY <1>1, <1>2, <1>3, <1>5, OneMore
  <1> QED BY <1>3, <1>4, <1>5

(* The invariant holds initially. *)
LEMMA TradesInvInit == TradesInit => TradesInv
  <1> SUFFICES ASSUME TradesInit PROVE TradesInv
    OBVIOUS
  <1> USE TradesAssumption DEF TradesInit
  <1>1. Started = {} /\ Undoing = {} /\ \A c : LegsOn(c) = {} /\ BrokenLegs(c) = {}
    BY DEF Started, Undoing, LegsOn, BrokenLegs
  <1>2. Cardinality({}) = 0 /\ IsFiniteSet({})
    BY FS_EmptySet
  <1>3. TradesTypeOK
    <2>1. funds \in [{"from", "to"} -> Nat]
      OBVIOUS
    <2> QED BY <2>1 DEF TradesTypeOK
  <1>4. LegsBegun /\ ReversalsReal
    BY <1>2 DEF LegsBegun, ReversalsReal
  <1>5. FundsMoved
    <2> SUFFICES ASSUME NEW c \in Currencies
                 PROVE  Drift(c) <= HalfCent * Made(c) /\ -Drift(c) <= HalfCent * Made(c)
      BY DEF FundsMoved
    <2>1. Made(c) = 0
      <3>1. Broken(c, Started) = {} /\ Broken(c, Undoing) = {}
        BY <1>1 DEF Broken
      <3>2. /\ Cardinality(Broken(c, Started)) = 0 /\ Cardinality(Broken(c, Undoing)) = 0
            /\ Cardinality(BrokenLegs(c)) = 0
        BY <1>1, <1>2, <3>1
      <3> HIDE DEF TradesInit
      <3> QED BY <3>2 DEF Made
    <2>2. Adds(LegDelta, LegsOn(c)) = 0
      BY <1>1, AddsEmpty
    <2>3. Adds(Net(c), Trades) = 0
      <3>1. \A t \in Trades : Net(c)[t] = 0
        BY <1>1 DEF Net
      <3> QED BY <3>1, AddsNat
    <2>4. funds[c] = Opening(c)
      BY DEF Opening, Currencies
    <2>5. Drift(c) = 0
      <3>1. SubUnits * funds[c] \in Int
        BY <1>3, <1>4, TradesFinite
      <3> QED BY <2>2, <2>3, <2>4, <3>1 DEF Drift
    <2> QED BY <2>1, <2>5, HalfCentAssumption
  <1> QED BY <1>3, <1>4, <1>5 DEF TradesInv

(* A step that begins no leg and makes none leaves what FundsMoved says. *)
LEMMA FundsStill ==
    ASSUME Started' = Started, Undoing' = Undoing, UNCHANGED <<legs, funds, amounts>>
    PROVE  \A c \in Currencies : Drift(c)' = Drift(c) /\ Made(c)' = Made(c)
  <1>1. \A c \in Currencies : /\ Moved(c)' = Moved(c) /\ LegsOn(c)' = LegsOn(c)
                              /\ BrokenLegs(c)' = BrokenLegs(c)
    BY DEF Moved, LegsOn, BrokenLegs, amounts
  <1>2. \A c \in Currencies : Net(c)' = Net(c)
    BY <1>1 DEF Net
  <1>3. \A c \in Currencies : Made(c)' = Made(c)
    BY <1>1 DEF Made, Broken
  <1>4. LegDelta' = LegDelta /\ \A c \in Currencies : Opening(c)' = Opening(c)
    BY DEF LegDelta, Currencies, Opening
  <1>5. \A c \in Currencies : Drift(c)' = Drift(c)
    BY <1>1, <1>2, <1>4 DEF Drift
  <1> QED BY <1>3, <1>5

(* A leg of d is begun as the trades come to say d more: nothing drifts,   *)
(* and as many legs are made as before.                                    *)
LEMMA FundsBegun ==
    ASSUME TradesTypeOK, LegsBegun, TradesTypeOK', LegsBegun', NEW c \in Currencies, UNCHANGED funds,
           NEW l \in (Trades \cup Reversals) \X Currencies \X Int, l[2] = c, l \notin legs,
           LegsOn(c)' = LegsOn(c) \cup {l},
           Adds(Net(c), Trades)' = Adds(Net(c), Trades) + l[3],
           Cardinality(Broken(c, Started))' + Cardinality(Broken(c, Undoing))' =
               Cardinality(Broken(c, Started)) + Cardinality(Broken(c, Undoing))
               + IF WholeCents(l[3]) THEN 0 ELSE 1
    PROVE  Drift(c)' = Drift(c) /\ Made(c)' = Made(c)
  <1>1. /\ Adds(LegDelta, LegsOn(c))' = Adds(LegDelta, LegsOn(c)) + l[3]
        /\ Cardinality(BrokenLegs(c))' = Cardinality(BrokenLegs(c)) + IF WholeCents(l[3]) THEN 0 ELSE 1
    BY LegBegun
  <1>2. l[3] \in Int /\ LegsOn(c) \in SUBSET legs /\ BrokenLegs(c) \in SUBSET legs
    BY DEF LegsOn, BrokenLegs
  <1>3. /\ Adds(LegDelta, LegsOn(c)) \in Int /\ Adds(Net(c), Trades) \in Int
        /\ SubUnits * funds[c] \in Int /\ SubUnits * Opening(c) \in Int
        /\ Cardinality(BrokenLegs(c)) \in Nat
    BY <1>2, TradesFinite
  <1>4. Broken(c, Started) \in SUBSET Trades /\ Broken(c, Undoing) \in SUBSET Trades
    BY DEF Broken, Started, Undoing
  <1>5. Cardinality(Broken(c, Started)) \in Nat /\ Cardinality(Broken(c, Undoing)) \in Nat
    BY <1>4, TradesFinite
  <1>6. Made(c)' = Made(c)
    <2>1. Made(c)' = Cardinality(Broken(c, Started))' + Cardinality(Broken(c, Undoing))'
                     - Cardinality(BrokenLegs(c))'
      BY DEF Made
    <2> DEFINE w == IF WholeCents(l[3]) THEN 0 ELSE 1
    <2>2. w \in Nat
      OBVIOUS
    <2> HIDE DEF w
    <2>3. /\ Cardinality(BrokenLegs(c))' = Cardinality(BrokenLegs(c)) + w
          /\ Cardinality(Broken(c, Started))' + Cardinality(Broken(c, Undoing))' =
                Cardinality(Broken(c, Started)) + Cardinality(Broken(c, Undoing)) + w
      BY <1>1 DEF w
    <2>4. Cardinality(Broken(c, Started))' \in Nat /\ Cardinality(Broken(c, Undoing))' \in Nat
      <3>1. Broken(c, Started)' \in SUBSET Trades /\ Broken(c, Undoing)' \in SUBSET Trades
        BY DEF Broken, Started, Undoing
      <3> QED BY <3>1, TradesFinite
    <2>5. Made(c) = Cardinality(Broken(c, Started)) + Cardinality(Broken(c, Undoing))
                    - Cardinality(BrokenLegs(c))
      BY DEF Made
    <2> QED BY <2>1, <2>2, <2>3, <2>4, <2>5, <1>3, <1>5
  <1>7. Drift(c)' = Drift(c)
    <2>1. Drift(c)' = SubUnits * funds[c] + Adds(LegDelta, LegsOn(c))' - SubUnits * Opening(c)
                      - Adds(Net(c), Trades)'
      BY DEF Drift, Opening
    <2> QED BY <2>1, <1>1, <1>2, <1>3 DEF Drift
  <1> QED BY <1>6, <1>7

(* Every step preserves it. *)
LEMMA TradesInvStep == TradesInv /\ [TradesNext]_tradeVars => TradesInv'
  <1> SUFFICES ASSUME TradesInv, [TradesNext]_tradeVars PROVE TradesInv'
    OBVIOUS
  <1> USE TradesAssumption DEF TradesInv
  <1>0. ASSUME Started' = Started, Undoing' = Undoing, UNCHANGED <<legs, funds, amounts>>,
               legFailed' = FALSE /\ doubled' = {} => legFailed = FALSE /\ doubled = {}
        PROVE  FundsMoved'
    <2> SUFFICES ASSUME ~legFailed', doubled' = {}, NEW c \in Currencies
                 PROVE  Drift(c)' <= (HalfCent * Made(c))' /\ (-Drift(c))' <= (HalfCent * Made(c))'
      BY DEF FundsMoved
    <2>1. Drift(c)' = Drift(c) /\ Made(c)' = Made(c)
      BY <1>0, FundsStill
    <2>2. ~legFailed /\ doubled = {}
      BY <1>0
    <2> QED BY <2>1, <2>2 DEF FundsMoved
  <1>1. ASSUME NEW t \in Trades, NEW a \in FromAmounts, NEW rate \in Rates, executeTrade(t, a, rate)
        PROVE  TradesInv'
    <2> USE <1>1 DEF executeTrade
    <2> DEFINE to == Converted(a, rate)
               leg(c) == IF c = "from" THEN <<t, "from", -a>> ELSE <<t, "to", to>>
    <2>0. a \in Nat /\ to \in Nat
      BY ConvertedIsNat
    <2> HIDE DEF to
    <2>1. Started' = Started \cup {t} /\ t \notin Started /\ t \notin Undoing /\ Undoing' = Undoing
      BY DEF TradesTypeOK, Started, Undoing, ReversalsReal
    <2>2. legs' = legs \cup {leg("from"), leg("to")} /\ leg("from") \notin legs /\ leg("to") \notin legs
      BY <2>1 DEF LegsBegun, to, TradesTypeOK
    <2>3. TradesTypeOK'
      BY <2>0, <2>2 DEF TradesTypeOK, to
    <2>4. LegsBegun'
      <3>1. IsFiniteSet(legs)'
        <4>1. IsFiniteSet(legs \cup {leg("from")})
          BY FS_AddElement DEF LegsBegun
        <4>2. IsFiniteSet((legs \cup {leg("from")}) \cup {leg("to")})
          BY <4>1, FS_AddElement
        <4>3. legs' = (legs \cup {leg("from")}) \cup {leg("to")}
          BY <2>2
        <4> QED BY <4>2, <4>3
      <3> QED BY <2>1, <2>2, <3>1 DEF LegsBegun
    <2>5. ReversalsReal'
      BY DEF ReversalsReal, TradesTypeOK
    <2>6. FundsMoved'
      <3> SUFFICES ASSUME ~legFailed', doubled' = {}, NEW c \in Currencies
                   PROVE  Drift(c)' <= (HalfCent * Made(c))' /\ (-Drift(c))' <= (HalfCent * Made(c))'
        BY DEF FundsMoved
      <3> DEFINE l == leg(c)
      <3>1. /\ l \in (Trades \cup Reversals) \X Currencies \X Int /\ l[2] = c /\ l \notin legs
            /\ LegsOn(c)' = LegsOn(c) \cup {l}
        BY <2>0, <2>2 DEF Currencies, LegsOn
      <3>2. Moved(c)'[t] = l[3] /\ \A x \in Trades \ {t} : Moved(c)'[x] = Moved(c)[x]
        BY <2>0 DEF Moved, TradesTypeOK, Currencies, to
      <3> HIDE DEF l, leg
      <3>3. Net(c)[t] = 0 /\ Net(c)'[t] = l[3] /\ \A x \in Trades \ {t} : Net(c)'[x] = Net(c)[x]
        BY <2>1, <3>2 DEF Net
      <3>4. Adds(Net(c), Trades)' = Adds(Net(c), Trades) + l[3]
        <4> DEFINE f == Net(c)
        <4>a. PICK g : g = Net(c)'
          OBVIOUS
        <4>1. \A x \in Trades : f[x] \in Int /\ g[x] \in Int
          <5>1. \A x \in Trades : Net(c)'[x] \in Int
            BY <2>3 DEF TradesTypeOK, Net, Moved
          <5> QED BY <4>a, <5>1, TradesFinite
        <4>2. \A x \in Trades : x # t => g[x] = f[x]
          BY <3>3, <4>a
        <4>3. f[t] = 0 /\ g[t] = l[3]
          BY <3>3, <4>a
        <4>4. Adds(f, Trades) \in Int
          BY TradesFinite
        <4> HIDE DEF f
        <4>5. Adds(g, Trades) = Adds(f, Trades) - f[t] + g[t]
          BY ONLY <4>1, <4>2, TradesChange
        <4>6. Adds(g, Trades) = Adds(f, Trades) + l[3]
          BY <4>1, <4>3, <4>4, <4>5
        <4> QED BY <4>a, <4>6 DEF f
      <3>5. /\ Cardinality(Broken(c, Started))' =
                  Cardinality(Broken(c, Started)) + IF WholeCents(l[3]) THEN 0 ELSE 1
            /\ Cardinality(Broken(c, Undoing))' = Cardinality(Broken(c, Undoing))
        <4>1. Broken(c, Undoing)' = Broken(c, Undoing)
          BY <2>1, <3>2 DEF Broken, Undoing
        <4>2. Broken(c, Started)' = IF WholeCents(l[3]) THEN Broken(c, Started) ELSE Broken(c, Started) \cup {t}
          BY <2>1, <3>2 DEF Broken, Started
        <4>3. /\ IsFiniteSet(Broken(c, Started)) /\ t \notin Broken(c, Started)
              /\ Cardinality(Broken(c, Started)) \in Nat
          BY <2>1, TradesFinite DEF Broken, Started
        <4>4. CASE WholeCents(l[3])
          BY <4>1, <4>2, <4>3, <4>4
        <4>5. CASE ~WholeCents(l[3])
          BY <4>1, <4>2, <4>3, <4>5, OneMore
        <4> QED BY <4>4, <4>5
      <3>6. Cardinality(Broken(c, Started)) \in Nat /\ Cardinality(Broken(c, Undoing)) \in Nat
        BY TradesFinite DEF Broken, Started, Undoing
      <3>7. Cardinality(Broken(c, Started))' + Cardinality(Broken(c, Undoing))' =
               Cardinality(Broken(c, Started)) + Cardinality(Broken(c, Undoing))
               + IF WholeCents(l[3]) THEN 0 ELSE 1
        BY <3>5, <3>6
      <3>8. Drift(c)' = Drift(c) /\ Made(c)' = Made(c)
        BY <2>3, <2>4, <3>1, <3>4, <3>7, FundsBegun
      <3>9. ~legFailed /\ doubled = {}
        OBVIOUS
      <3> QED BY <3>8, <3>9 DEF FundsMoved
    <2> QED BY <2>3, <2>4, <2>5, <2>6
  <1>2. ASSUME NEW t \in Trades, NEW stored \in BOOLEAN, saveTrade(t, stored) PROVE TradesInv'
    <2> USE <1>2 DEF saveTrade
    <2>1. Started' = Started /\ Undoing' = Undoing
      BY DEF TradesTypeOK, Started, Undoing
    <2>2. TradesTypeOK'
      BY DEF TradesTypeOK, amounts
    <2>3. LegsBegun' /\ ReversalsReal'
      BY <2>1 DEF LegsBegun, ReversalsReal, TradesTypeOK
    <2>4. FundsMoved'
      BY <1>0, <2>1
    <2> QED BY <2>2, <2>3, <2>4
  <1>3. ASSUME NEW r \in Reversals, NEW t \in Trades, reverseTrade(r, t) PROVE TradesInv'
    <2> USE <1>3 DEF reverseTrade
    <2>1. Started' = Started /\ Undoing' = Undoing
      BY DEF TradesTypeOK, Started, Undoing, ReversalsReal
    <2>2. TradesTypeOK'
      BY DEF TradesTypeOK, amounts
    <2>3. LegsBegun'
      BY <2>1 DEF LegsBegun
    <2>4. ReversalsReal'
      BY DEF ReversalsReal, TradesTypeOK, Reversible
    <2>5. doubled' = {} => doubled = {}
      OBVIOUS
    <2>6. FundsMoved'
      BY <1>0, <2>1, <2>5
    <2> QED BY <2>2, <2>3, <2>4, <2>6
  <1>4. ASSUME NEW r \in Reversals, reverseLegs(r) PROVE TradesInv'
    <2> USE <1>4 DEF reverseLegs
    <2> DEFINE t == reversal[r]
               leg(c) == IF c = "from" THEN <<r, "from", fromAmount[t]>> ELSE <<r, "to", -toAmount[t]>>
    <2>0. t \in Trades /\ r \notin answered /\ fromAmount[t] \in Nat /\ toAmount[t] \in Nat
      BY DEF TradesTypeOK, ReversalsReal
    <2>1. Started' = Started /\ r \notin Started /\ Undoing' = Undoing \cup {t}
      BY <2>0 DEF TradesTypeOK, Started, Undoing
    <2>2. legs' = legs \cup {leg("from"), leg("to")} /\ leg("from") \notin legs /\ leg("to") \notin legs
      BY <2>0, <2>1 DEF LegsBegun
    <2>3. TradesTypeOK'
      BY <2>0, <2>2 DEF TradesTypeOK, amounts
    <2>4. LegsBegun'
      <3>1. IsFiniteSet(legs)'
        <4>1. IsFiniteSet(legs \cup {leg("from")})
          BY FS_AddElement DEF LegsBegun
        <4>2. IsFiniteSet((legs \cup {leg("from")}) \cup {leg("to")})
          BY <4>1, FS_AddElement
        <4>3. legs' = (legs \cup {leg("from")}) \cup {leg("to")}
          BY <2>2
        <4> QED BY <4>2, <4>3
      <3> QED BY <2>1, <2>2, <3>1 DEF LegsBegun
    <2>5. ReversalsReal'
      BY DEF ReversalsReal, TradesTypeOK
    <2>6. FundsMoved'
      <3> SUFFICES ASSUME ~legFailed', doubled' = {}, NEW c \in Currencies
                   PROVE  Drift(c)' <= (HalfCent * Made(c))' /\ (-Drift(c))' <= (HalfCent * Made(c))'
        BY DEF FundsMoved
      <3>0. ~legFailed /\ doubled = {}
        OBVIOUS
      <3>a. t \in Started /\ t \notin Undoing
        BY <2>0, <3>0 DEF ReversalsReal, Started, Undoing, TradesTypeOK
      <3> DEFINE l == leg(c)
      <3>1. /\ l \in (Trades \cup Reversals) \X Currencies \X Int /\ l[2] = c /\ l \notin legs
            /\ LegsOn(c)' = LegsOn(c) \cup {l}
        BY <2>0, <2>2 DEF Currencies, LegsOn
      <3>2. Moved(c)' = Moved(c) /\ Moved(c)[t] \in Int /\ l[3] = -Moved(c)[t] /\ -l[3] = Moved(c)[t]
        BY <2>0 DEF Moved, amounts, Currencies
      <3> HIDE DEF l, leg, t
      <3>3. Net(c)[t] = -l[3] /\ Net(c)'[t] = 0 /\ \A x \in Trades \ {t} : Net(c)'[x] = Net(c)[x]
        BY <2>0, <2>1, <3>a, <3>2 DEF Net
      <3>4. Adds(Net(c), Trades)' = Adds(Net(c), Trades) + l[3]
        <4> DEFINE f == Net(c)
        <4>a. PICK g : g = Net(c)'
          OBVIOUS
        <4>1. \A x \in Trades : f[x] \in Int /\ g[x] \in Int
          <5>1. \A x \in Trades : Net(c)'[x] \in Int
            BY <2>3 DEF TradesTypeOK, Net, Moved
          <5> QED BY <4>a, <5>1, TradesFinite
        <4>2. \A x \in Trades : x # t => g[x] = f[x]
          BY <3>3, <4>a
        <4>3. f[t] = -l[3] /\ g[t] = 0 /\ l[3] \in Int
          BY <3>1, <3>3, <4>a
        <4>4. Adds(f, Trades) \in Int
          BY TradesFinite
        <4> HIDE DEF f
        <4>5. Adds(g, Trades) = Adds(f, Trades) - f[t] + g[t]
          <5>1. t \in Trades
            BY <2>0
          <5> QED BY ONLY <4>1, <4>2, <5>1, TradesChange
        <4>6. Adds(g, Trades) = Adds(f, Trades) + l[3]
          BY <4>1, <4>3, <4>4, <4>5
        <4> QED BY <4>a, <4>6 DEF f
      <3>5. WholeCents(l[3]) <=> WholeCents(Moved(c)[t])
        BY <3>2, WholeCentsFacts
      <3>6. /\ Cardinality(Broken(c, Undoing))' =
                  Cardinality(Broken(c, Undoing)) + IF WholeCents(l[3]) THEN 0 ELSE 1
            /\ Cardinality(Broken(c, Started))' = Cardinality(Broken(c, Started))
        <4>1. Broken(c, Started)' = Broken(c, Started)
          BY <2>1, <3>2 DEF Broken
        <4>2. Broken(c, Undoing)' = Broken(c, Undoing \cup {t})
          BY <2>1, <3>2 DEF Broken
        <4>3. Undoing \in SUBSET Trades
          BY DEF Undoing
        <4>4. Cardinality(Broken(c, Undoing \cup {t})) =
                  Cardinality(Broken(c, Undoing)) + IF WholeCents(Moved(c)[t]) THEN 0 ELSE 1
          BY <2>0, <3>a, <4>3, BrokenMore
        <4> QED BY <3>5, <4>1, <4>2, <4>4
      <3>7. Cardinality(Broken(c, Started)) \in Nat /\ Cardinality(Broken(c, Undoing)) \in Nat
        BY TradesFinite DEF Broken, Started, Undoing
      <3>8. Cardinality(Broken(c, Started))' + Cardinality(Broken(c, Undoing))' =
               Cardinality(Broken(c, Started)) + Cardinality(Broken(c, Undoing))
               + IF WholeCents(l[3]) THEN 0 ELSE 1
        BY <3>6, <3>7
      <3>9. Drift(c)' = Drift(c) /\ Made(c)' = Made(c)
        BY <2>3, <2>4, <3>1, <3>4, <3>8, FundsBegun
      <3> QED BY <3>0, <3>9 DEF FundsMoved
    <2> QED BY <2>3, <2>4, <2>5, <2>6
  <1>5. ASSUME NEW r \in Reversals, NEW stored \in BOOLEAN, saveReversal(r, stored) PROVE TradesInv'
    <2> USE <1>5 DEF saveReversal
    <2>0. reversal[r] \in Trades /\ r \notin answered /\ trades[reversal[r]] # "none"
      BY DEF TradesTypeOK, ReversalsReal
    <2>1. TradesTypeOK'
      BY <2>0 DEF TradesTypeOK, amounts
    <2>2. ReversalsReal'
      BY <2>0 DEF TradesTypeOK, ReversalsReal
    <2>3. Started' = Started
      <3>1. CASE stored
        <4>1. trades' = [trades EXCEPT ![reversal[r]] = "reversed"]
          BY <3>1
        <4> QED BY <4>1, <2>0 DEF Started, TradesTypeOK
      <3>2. CASE ~stored
        BY <3>2 DEF Started
      <3> QED BY <3>1, <3>2
    <2>4. LegsBegun'
      BY <2>3 DEF LegsBegun
    <2>5. FundsMoved'
      <3>1. CASE stored
        <4>1. trades' = [trades EXCEPT ![reversal[r]] = "reversed"] /\ doubled' = doubled
          BY <3>1
        <4>2. Undoing' = Undoing
          <5>1. \A x \in Trades : trades'[x] = "reversed" <=> x = reversal[r] \/ trades[x] = "reversed"
            BY <2>0, <4>1 DEF TradesTypeOK
          <5>2. \A x \in Trades : (\E q \in saving' : reversal'[q] = x) <=>
                                  (\E q \in saving : q # r /\ reversal[q] = x)
            BY DEF TradesTypeOK
          <5> QED BY <2>0, <5>1, <5>2 DEF Undoing
        <4> QED BY <1>0, <2>3, <4>1, <4>2
      <3>2. CASE ~stored
        <4>1. doubled' # {}
          BY <3>2
        <4> QED BY <4>1 DEF FundsMoved
      <3> QED BY <3>1, <3>2
    <2> QED BY <2>1, <2>2, <2>4, <2>5
  <1>6. ASSUME NEW l \in legs, NEW done \in BOOLEAN, adjustLeg(l, done) PROVE TradesInv'
    <2> USE <1>6 DEF adjustLeg
    <2>1. Started' = Started /\ Undoing' = Undoing
      BY DEF Started, Undoing
    <2>2. ReversalsReal'
      BY DEF ReversalsReal
    <2>3. l[2] \in Currencies /\ l[3] \in Int /\ funds[l[2]] \in Nat
      BY DEF TradesTypeOK, Currencies
    <2>4. NewBalance(funds[l[2]], l[3]) \in Int
      <3>1. PICK b \in Int, x \in Int : b = funds[l[2]] /\ x = l[3]
        BY <2>3
      <3>2. NewBalance(b, x) \in Int
        BY AdjustmentError
      <3> QED BY <3>1, <3>2
    <2>5. TradesTypeOK'
      <3>1. funds' \in [{"from", "to"} -> Nat]
        <4>1. CASE Covered(l) /\ done
          BY <2>3, <2>4, <4>1 DEF Covered, TradesTypeOK
        <4>2. CASE ~(Covered(l) /\ done)
          BY <4>2 DEF TradesTypeOK
        <4> QED BY <4>1, <4>2
      <3>2. legFailed' \in BOOLEAN
        BY DEF TradesTypeOK
      <3>3. legs' \subseteq (Trades \cup Reversals) \X {"from", "to"} \X Int
        BY DEF TradesTypeOK
      <3> QED BY <3>1, <3>2, <3>3 DEF TradesTypeOK, amounts
    <2>6. LegsBegun'
      <3>1. IsFiniteSet(legs)'
        BY FS_Subset DEF LegsBegun
      <3> QED BY <2>1, <3>1 DEF LegsBegun
    <2>7. FundsMoved'
      <3> SUFFICES ASSUME ~legFailed', doubled' = {}, NEW c \in Currencies
                   PROVE  Drift(c)' <= (HalfCent * Made(c))' /\ (-Drift(c))' <= (HalfCent * Made(c))'
        BY DEF FundsMoved
      <3>0. ~legFailed /\ doubled = {} /\ funds' = [funds EXCEPT ![l[2]] = NewBalance(@, l[3])]
        OBVIOUS
      <3>1. Moved(c)' = Moved(c) /\ Opening(c)' = Opening(c) /\ LegDelta' = LegDelta
        BY DEF Moved, amounts, Opening, LegDelta, Currencies
      <3>2. Net(c)' = Net(c) /\ Broken(c, Started)' = Broken(c, Started) /\ Broken(c, Undoing)' = Broken(c, Undoing)
        BY <2>1, <3>1 DEF Net, Broken
      <3>3. Drift(c) <= HalfCent * Made(c) /\ -Drift(c) <= HalfCent * Made(c)
        BY <3>0 DEF FundsMoved
      <3>4. CASE c # l[2]
        <4>1. LegsOn(c)' = LegsOn(c) /\ funds'[c] = funds[c]
          BY <2>3, <3>0, <3>4 DEF LegsOn, TradesTypeOK, Currencies
        <4>2. Drift(c)' = Drift(c) /\ Made(c)' = Made(c)
          BY <3>1, <3>2, <4>1 DEF Drift, Made, BrokenLegs
        <4> QED BY <3>3, <4>2
      <3>5. CASE c = l[2]
        <4> DEFINE b == funds[c]
                   n == NewBalance(b, l[3])
                   w == IF WholeCents(l[3]) THEN 0 ELSE 1
                   step == SubUnits * n - SubUnits * b - l[3]
        <4>1. LegsOn(c)' = LegsOn(c) \ {l} /\ funds'[c] = n
          BY <2>3, <3>0, <3>5 DEF LegsOn, TradesTypeOK, Currencies
        <4>2. /\ Adds(LegDelta, LegsOn(c)) = l[3] + Adds(LegDelta, LegsOn(c))'
              /\ Cardinality(BrokenLegs(c))' = Cardinality(BrokenLegs(c)) - w
          BY <3>5, <4>1, LegMade
        <4>3. /\ n \in Int /\ SubUnits * n - SubUnits * b - l[3] <= HalfCent
              /\ SubUnits * b + l[3] - SubUnits * n <= HalfCent
              /\ WholeCents(l[3]) => SubUnits * n = SubUnits * b + l[3]
          <5>1. b \in Int /\ l[3] \in Int
            BY <2>3, <3>5
          <5> HIDE DEF b
          <5> QED BY ONLY <5>1, AdjustmentError
        <4>4. /\ HalfCent \in Nat /\ SubUnits \in Nat /\ SubUnits * b \in Int
              /\ Adds(LegDelta, LegsOn(c)) \in Int /\ Adds(LegDelta, LegsOn(c))' \in Int
              /\ SubUnits * Opening(c) \in Int /\ Adds(Net(c), Trades) \in Int
              /\ Made(c) \in Int /\ HalfCent * Made(c) \in Int /\ Drift(c) \in Int
              /\ Cardinality(BrokenLegs(c)) \in Nat /\ Cardinality(Broken(c, Started)) \in Nat
              /\ Cardinality(Broken(c, Undoing)) \in Nat
          <5>1. LegsOn(c) \in SUBSET legs /\ BrokenLegs(c) \in SUBSET legs /\ LegsOn(c)' \in SUBSET legs
            BY <4>1 DEF LegsOn, BrokenLegs
          <5>2. /\ HalfCent \in Nat /\ SubUnits \in Nat /\ SubUnits * b \in Int
                /\ Adds(LegDelta, LegsOn(c)) \in Int
                /\ SubUnits * Opening(c) \in Int /\ Adds(Net(c), Trades) \in Int
                /\ Made(c) \in Int /\ HalfCent * Made(c) \in Int /\ Drift(c) \in Int
                /\ Cardinality(BrokenLegs(c)) \in Nat
            BY <5>1, TradesFinite
          <5>3. Cardinality(Broken(c, Started)) \in Nat /\ Cardinality(Broken(c, Undoing)) \in Nat
            BY TradesFinite DEF Broken, Started, Undoing
          <5>4. Adds(LegDelta, LegsOn(c) \ {l}) \in Int
            BY <4>1, <5>1, TradesFinite
          <5> QED BY <3>1, <4>1, <5>2, <5>3, <5>4
        <4>5. SubUnits * n \in Int /\ step \in Int /\ step <= HalfCent * w /\ -step <= HalfCent * w /\ w \in {0, 1}
          <5>1. SubUnits * n \in Int
            BY <4>3, <4>4
          <5>2. CASE WholeCents(l[3])
            <6>1. step = 0
              BY <2>3, <4>3, <4>4, <5>1, <5>2
            <6> QED BY <4>4, <5>1, <5>2, <6>1
          <5>3. CASE ~WholeCents(l[3])
            <6>1. w = 1 /\ HalfCent * 1 = HalfCent
              BY <4>4, <5>3
            <6>2. step \in Int /\ step <= HalfCent /\ -step <= HalfCent
              BY <2>3, <4>3, <4>4, <5>1
            <6> QED BY <5>1, <6>1, <6>2
          <5> QED BY <5>2, <5>3
        <4>6. Drift(c)' = Drift(c) + step
          <5>1. Drift(c)' = SubUnits * n + Adds(LegDelta, LegsOn(c))' - SubUnits * Opening(c) - Adds(Net(c), Trades)
            BY <3>1, <3>2, <4>1 DEF Drift
          <5>2. Drift(c) = SubUnits * b + Adds(LegDelta, LegsOn(c)) - SubUnits * Opening(c) - Adds(Net(c), Trades)
            BY DEF Drift
          <5> HIDE DEF n, b
          <5> QED BY <2>3, <4>2, <4>4, <4>5, <5>1, <5>2
        <4>7. Made(c)' = Made(c) + w
          <5>1. Made(c)' = Cardinality(Broken(c, Started)) + Cardinality(Broken(c, Undoing))
                           - Cardinality(BrokenLegs(c))'
            BY <3>2 DEF Made
          <5> HIDE DEF w
          <5> QED BY <4>2, <4>4, <4>5, <5>1 DEF Made
        <4> HIDE DEF step, w, n, b
        <4>8. HalfCent * (Made(c) + w) = HalfCent * Made(c) + HalfCent * w /\ HalfCent * w \in Int
          BY <4>4, <4>5
        <4>9. /\ Drift(c) + step <= HalfCent * (Made(c) + w)
              /\ -(Drift(c) + step) <= HalfCent * (Made(c) + w)
          <5> DEFINE p == HalfCent * Made(c)
                     q == HalfCent * w
                     s == HalfCent * (Made(c) + w)
                     d == Drift(c)
          <5>1. /\ p \in Int /\ q \in Int /\ s = p + q /\ d \in Int /\ d <= p /\ -d <= p
                /\ step \in Int /\ step <= q /\ -step <= q
            BY <3>3, <4>4, <4>5, <4>8
          <5> HIDE DEF p, q, s, d
          <5>2. d + step <= s /\ -(d + step) <= s
            BY <5>1
          <5> QED BY <5>2 DEF p, q, s, d
        <4> QED BY <4>6, <4>7, <4>9
      <3> QED BY <3>4, <3>5
    <2> QED BY <2>2, <2>5, <2>6, <2>7
  <1>7. ASSUME NEW t \in Trades, windowPasses(t) PROVE TradesInv'
    <2> USE <1>7 DEF windowPasses
    <2>1. Started' = Started /\ Undoing' = Undoing
      BY DEF Started, Undoing
    <2>2. TradesTypeOK' /\ LegsBegun' /\ ReversalsReal'
      BY <2>1 DEF TradesTypeOK, LegsBegun, ReversalsReal, amounts
    <2>3. FundsMoved'
      BY <1>0, <2>1
    <2> QED BY <2>2, <2>3
  <1>8. CASE UNCHANGED tradeVars
    <2> USE <1>8 DEF tradeVars
    <2>1. Started' = Started /\ Undoing' = Undoing
      BY DEF Started, Undoing
    <2>2. TradesTypeOK' /\ LegsBegun' /\ ReversalsReal'
      BY <2>1 DEF TradesTypeOK, LegsBegun, ReversalsReal
    <2>3. UNCHANGED amounts
      BY DEF amounts
    <2>4. FundsMoved'
      BY <1>0, <2>1, <2>3
    <2> QED BY <2>2, <2>4
  <1> QED BY <1>1, <1>2, <1>3, <1>4, <1>5, <1>6, <1>7, <1>8 DEF TradesNext

(* Once its legs are done the balances are what the trades say, to within  *)
(* half a cent for each leg that is not whole cents.                       *)
LEMMA BalancesFollow == TradesSpec => []BalancesFollowTrades
  <1>1. TradesInv => BalancesFollowTrades
    <2> SUFFICES ASSUME TradesInv, legs = {}, saving = {}, ~legFailed, doubled = {}, NEW c \in Currencies
                 PROVE  LET told == SubUnits * Opening(c) + MapThenSumSet(LAMBDA t : Moved(c)[t], Kept)
                            uneven == {t \in Trades : trades[t] # "none" /\ ~WholeCents(Moved(c)[t])}
                            twice == {t \in uneven : trades[t] = "reversed"}
                            slack == HalfCent * (Cardinality(uneven) + Cardinality(twice))
                        IN SubUnits * funds[c] - told \in -slack..slack
      BY DEF BalancesFollowTrades, Currencies, Kept, Opening
    <2> USE DEF TradesInv
    <2> DEFINE uneven == {t \in Trades : trades[t] # "none" /\ ~WholeCents(Moved(c)[t])}
               twice == {t \in uneven : trades[t] = "reversed"}
               slack == HalfCent * (Cardinality(uneven) + Cardinality(twice))
               sum == MapThenSumSet(LAMBDA t : Moved(c)[t], Kept)
    <2>1. LegsOn(c) = {} /\ BrokenLegs(c) = {} /\ Cardinality({}) = 0
      BY FS_EmptySet DEF LegsOn, BrokenLegs
    <2>2. uneven = Broken(c, Started) /\ twice = Broken(c, Undoing)
      BY DEF Broken, Started, Undoing
    <2>3. /\ Cardinality(uneven) \in Nat /\ Cardinality(twice) \in Nat /\ Made(c) \in Int
          /\ HalfCent * Made(c) \in Int /\ Drift(c) \in Int
          /\ SubUnits * funds[c] \in Int /\ SubUnits * Opening(c) \in Int
          /\ Adds(Net(c), Trades) \in Int
      BY TradesFinite
    <2>4. Made(c) = Cardinality(uneven) + Cardinality(twice)
      <3>1. Cardinality(BrokenLegs(c)) = 0
        BY <2>1
      <3>2. Made(c) = Cardinality(uneven) + Cardinality(twice) - Cardinality(BrokenLegs(c))
        BY <2>2 DEF Made
      <3> HIDE DEF uneven, twice
      <3> QED BY <2>3, <3>1, <3>2
    <2>5. Adds(Net(c), Trades) = sum
      <3>1. sum = Adds(Moved(c), Kept)
        BY Zenon DEF Adds, MapThenSumSet, MapThenFoldSet
      <3>2. Kept = Started \ Undoing /\ Kept \in SUBSET Trades
        BY DEF Kept, Started, Undoing
      <3>3. \A t \in Trades : Net(c)[t] = IF t \in Kept THEN Moved(c)[t] ELSE 0
        BY <3>2 DEF Net
      <3>4. Adds(Net(c), Trades) = Adds(Moved(c), Kept)
        BY <3>2, <3>3, TradesFinite, AddsRestricted, TradesAssumption
      <3> QED BY <3>1, <3>4
    <2>6. Drift(c) = SubUnits * funds[c] - (SubUnits * Opening(c) + sum)
      <3>1. Adds(LegDelta, LegsOn(c)) = 0
        BY <2>1, AddsEmpty
      <3> HIDE DEF sum
      <3> QED BY <2>3, <2>5, <3>1 DEF Drift
    <2>7. Drift(c) <= slack /\ -Drift(c) <= slack /\ slack \in Int
      BY <2>3, <2>4 DEF FundsMoved
    <2> HIDE DEF sum, slack
    <2>8. SubUnits * funds[c] - (SubUnits * Opening(c) + sum) \in -slack..slack
      BY <2>3, <2>6, <2>7
    <2> QED BY <2>8 DEF sum, slack
  <1> QED BY <1>1, TradesInvInit, TradesInvStep, PTL DEF TradesSpec

----------------------------------------------------------------------------
(* Rollbacks. *)

(* An administrator at rest holds nothing, one who rolls back holds a      *)
(* transaction that exists, and, once it is inserted, the new one.         *)
UndoOf(a) ==
    /\ undo[a].at = "rest" => undo[a] = Rest
    /\ undo[a].at # "rest" => undo[a].tx \in TxIds /\ txOf[undo[a].tx] # NoTx
    /\ undo[a].at = "record" => undo[a].new \in RollbacksOf(undo[a].tx)

(* The rollback that is to be recorded next. *)
ToRecord(t, n) == \E a \in Admins : undo[a].at = "record" /\ undo[a].tx = t /\ undo[a].new = n

(* Of a transaction whose rollbacks never overlapped and never broke off:  *)
(* one administrator at most is at it, there is no rollback yet when one   *)
(* is to be inserted, there is one at most, and it is on record or about   *)
(* to be.                                                                  *)
UndoneCleanly(t) ==
    /\ \A a, b \in Admins : undo[a].tx = t /\ undo[b].tx = t => a = b
    /\ \A a \in Admins : undo[a].tx = t /\ undo[a].at = "insert" => RollbacksOf(t) = {}
    /\ \A m, n \in RollbacksOf(t) : m = n
    /\ \A n \in RollbacksOf(t) : <<t, n>> \in records \/ ToRecord(t, n)

RollbacksInv == /\ RollbacksTypeOK
                /\ \A a \in Admins : UndoOf(a)
                /\ \A t \in TxIds \ crossed : UndoneCleanly(t)

(* The inductive invariant of the rollbacks holds initially and is         *)
(* preserved by every step.                                                *)
LEMMA RollbacksInvStep ==
    /\ RollbacksInit => RollbacksInv
    /\ RollbacksInv /\ [RollbacksNext]_rollbackVars => RollbacksInv'
  <1> USE RollbacksAssumption
  <1>1. RollbacksInit => RollbacksInv
    BY DEF RollbacksInit, RollbacksInv, RollbacksTypeOK, Rest, UndoOf, UndoneCleanly, RollbacksOf
  <1>2. ASSUME RollbacksInv, [RollbacksNext]_rollbackVars PROVE RollbacksInv'
    <2> USE <1>2 DEF RollbacksInv, RollbacksTypeOK, Rest
    <2>1. ASSUME NEW s \in {"SUCCESS", "FAILED"}, settleTx(s) PROVE RollbacksInv'
      BY <2>1 DEF settleTx, UndoOf, UndoneCleanly, RollbacksOf, ToRecord
    <2>2. ASSUME NEW a \in Admins, NEW t \in TxIds, rollback(a, t) PROVE RollbacksInv'
      <3>1. RollbacksTypeOK'
        BY <2>2 DEF rollback
      <3>2. \A b \in Admins : UndoOf(b)'
        BY <2>2 DEF rollback, UndoOf, RollbacksOf
      <3>3. ASSUME NEW x \in TxIds \ crossed' PROVE UndoneCleanly(x)'
        BY <2>2, <3>3 DEF rollback, UndoOf, UndoneCleanly, RollbacksOf, ToRecord, Underway
      <3> QED BY <3>1, <3>2, <3>3
    <2>3. ASSUME NEW a \in Admins, lookForRecord(a) PROVE RollbacksInv'
      <3>1. RollbacksTypeOK'
        BY <2>3 DEF lookForRecord
      <3>2. \A b \in Admins : UndoOf(b)'
        BY <2>3 DEF lookForRecord, UndoOf, RollbacksOf
      <3>3. ASSUME NEW x \in TxIds \ crossed' PROVE UndoneCleanly(x)'
        <4> UndoOf(a) /\ UndoneCleanly(x) /\ UNCHANGED <<txOf, records, crossed>>
          BY <2>3 DEF lookForRecord
        <4>1. CASE Recorded(undo[a].tx)
          BY <2>3, <4>1 DEF lookForRecord, UndoneCleanly, RollbacksOf, ToRecord
        <4>2. CASE ~Recorded(undo[a].tx)
          <5>1. undo' = [undo EXCEPT ![a] = [undo[a] EXCEPT !.at = "insert"]]
            BY <2>3, <4>2 DEF lookForRecord
          <5>2. undo[a].tx = x => RollbacksOf(x) = {}
            <6> SUFFICES ASSUME undo[a].tx = x, NEW n \in RollbacksOf(x) PROVE FALSE
              OBVIOUS
            <6>1. <<x, n>> \notin records
              BY <4>2 DEF Recorded
            <6>2. undo[a].at = "record"
              BY <6>1 DEF UndoneCleanly, ToRecord
            <6> QED BY <2>3, <6>2 DEF lookForRecord
          <5> QED BY <2>3, <5>1, <5>2 DEF lookForRecord, UndoneCleanly, RollbacksOf, ToRecord
        <4> QED BY <4>1, <4>2
      <3> QED BY <3>1, <3>2, <3>3
    <2>4. ASSUME NEW a \in Admins, NEW n \in TxIds, insertRollbackTx(a, n) PROVE RollbacksInv'
      <3>1. RollbacksTypeOK'
        BY <2>4 DEF insertRollbackTx
      <3>2. \A b \in Admins : UndoOf(b)'
        BY <2>4 DEF insertRollbackTx, UndoOf, RollbacksOf
      <3>3. ASSUME NEW x \in TxIds \ crossed' PROVE UndoneCleanly(x)'
        BY <2>4, <3>3 DEF insertRollbackTx, UndoOf, UndoneCleanly, RollbacksOf, ToRecord
      <3> QED BY <3>1, <3>2, <3>3
    <2>5. ASSUME NEW a \in Admins, insertRecord(a) PROVE RollbacksInv'
      <3>1. RollbacksTypeOK'
        BY <2>5 DEF insertRecord, UndoOf, RollbacksOf
      <3>2. \A b \in Admins : UndoOf(b)'
        BY <2>5 DEF insertRecord, UndoOf, RollbacksOf
      <3>3. ASSUME NEW x \in TxIds \ crossed' PROVE UndoneCleanly(x)'
        BY <2>5, <3>3 DEF insertRecord, UndoOf, UndoneCleanly, RollbacksOf, ToRecord
      <3> QED BY <3>1, <3>2, <3>3
    <2>6. ASSUME NEW a \in Admins, undoBreaksOff(a) PROVE RollbacksInv'
      <3>1. RollbacksTypeOK'
        BY <2>6 DEF undoBreaksOff, UndoOf
      <3>2. \A b \in Admins : UndoOf(b)'
        BY <2>6 DEF undoBreaksOff, UndoOf, RollbacksOf
      <3>3. ASSUME NEW x \in TxIds \ crossed' PROVE UndoneCleanly(x)'
        BY <2>6, <3>3 DEF undoBreaksOff, UndoOf, UndoneCleanly, RollbacksOf, ToRecord
      <3> QED BY <3>1, <3>2, <3>3
    <2>7. CASE UNCHANGED rollbackVars
      BY <2>7 DEF rollbackVars, UndoOf, UndoneCleanly, RollbacksOf, ToRecord
    <2> QED BY <2>1, <2>2, <2>3, <2>4, <2>5, <2>6, <2>7 DEF RollbacksNext
  <1> QED BY <1>1, <1>2

(* A transaction is rolled back at most once and the rollback is on        *)
(* record, for any number of administrators and transactions, unless two   *)
(* rollbacks of it overlapped or one broke off between its inserts.        *)
LEMMA RolledBackOnceHolds == RollbacksSpec => []RolledBackOnce
  <1>1. RollbacksInv => RolledBackOnce
    <2> SUFFICES ASSUME RollbacksInv, NEW t \in TxIds \ crossed
                 PROVE  /\ Cardinality(RollbacksOf(t)) <= 1
                        /\ Underway(t) = {} => \A n \in RollbacksOf(t) : <<t, n>> \in records
      BY DEF RolledBackOnce
    <2>1. UndoneCleanly(t)
      BY DEF RollbacksInv
    <2>2. Cardinality(RollbacksOf(t)) <= 1
      BY <2>1, AtMostOne DEF UndoneCleanly
    <2>3. Underway(t) = {} => \A n \in RollbacksOf(t) : <<t, n>> \in records
      BY <2>1 DEF UndoneCleanly, ToRecord, Underway
    <2> QED BY <2>2, <2>3
  <1> QED BY <1>1, RollbacksInvStep, PTL DEF RollbacksSpec

(* What undoing a trade or a transaction leaves: the balances follow the   *)
(* trades of fx.service.ts once their legs are done, within half a cent    *)
(* for each leg that is not of whole cents, and a transaction is rolled    *)
(* back and recorded once, unless a leg failed, a save was lost or two     *)
(* attempts overlapped.                                                    *)
THEOREM UndoneOnceHolds == TradesSpec /\ RollbacksSpec => []UndoneOnce
  BY BalancesFollow, RolledBackOnceHolds, PTL DEF UndoneOnce

----------------------------------------------------------------------------
(* JobLocks. *)

(* An instance has a transaction in hand exactly while it saves and        *)
(* unlocks it.                                                             *)
InHand == \A i \in Instances : current[i] # NoOne <=> run[i] \in {"save", "unlock"}

(* Whoever runs the job has its lock, alone. *)
JobLocked ==
    ~ranOut => /\ \A i \in Instances : run[i] # "off" => "job" \in locks
               /\ \A i, j \in Instances : run[i] # "off" /\ run[j] # "off" => i = j

JobInv == JobTypeOK /\ InHand /\ JobLocked

(* The inductive invariant of the job's locks holds initially and is       *)
(* preserved by every step of an instance, of Redis and of a processor.    *)
LEMMA JobInvStep ==
    /\ JobInit => JobInv
    /\ JobInv /\ [JobNext]_jobVars => JobInv'
  <1> USE JobLocksAssumption
  <1>1. JobInit => JobInv
    BY DEF JobInit, JobInv, JobTypeOK, InHand, JobLocked
  <1>2. ASSUME JobInv, [JobNext]_jobVars PROVE JobInv'
    <2> USE <1>2 DEF JobInv, JobTypeOK, InHand, JobLocked, Free
    <2>1. ASSUME NEW i \in Instances, acquireJobLock(i) PROVE JobInv'
      BY <2>1 DEF acquireJobLock
    <2>2. ASSUME NEW i \in Instances, findTimedOut(i) PROVE JobInv'
      BY <2>2 DEF findTimedOut
    <2>3. ASSUME NEW i \in Instances, NEW t \in PendingTxs, lockTransaction(i, t) PROVE JobInv'
      <3>1. CASE Free(t)
        <4>1. /\ locks' = locks \cup {t}
              /\ current' = [current EXCEPT ![i] = t]
              /\ run' = [run EXCEPT ![i] = "save"]
              /\ UNCHANGED <<txState, ranOut>>
          BY <2>3, <3>1 DEF lockTransaction
        <4>2. batch' \in [Instances -> SUBSET PendingTxs]
          BY <2>3 DEF lockTransaction
        <4>3. run[i] = "loop"
          BY <2>3 DEF lockTransaction
        <4>4. JobTypeOK'
          BY <4>1, <4>2
        <4>5. InHand' /\ JobLocked'
          BY <4>1, <4>3
        <4> QED BY <4>4, <4>5
      <3>2. CASE ~Free(t)
        <4>1. UNCHANGED <<locks, current, run, txState, ranOut>>
          BY <2>3, <3>2 DEF lockTransaction
        <4>2. batch' \in [Instances -> SUBSET PendingTxs]
          BY <2>3 DEF lockTransaction
        <4> QED BY <4>1, <4>2
      <3> QED BY <3>1, <3>2
    <2>4. ASSUME NEW i \in Instances, saveFailed(i) PROVE JobInv'
      BY <2>4 DEF saveFailed
    <2>5. ASSUME NEW i \in Instances, unlockTransaction(i) PROVE JobInv'
      <3>1. current[i] \in PendingTxs /\ current[i] # "job"
        BY <2>5 DEF unlockTransaction
      <3> QED BY <2>5, <3>1 DEF unlockTransaction
    <2>6. ASSUME NEW i \in Instances, releaseJobLock(i) PROVE JobInv'
      BY <2>6 DEF releaseJobLock
    <2>7. ASSUME NEW i \in Instances, jobThrows(i) PROVE JobInv'
      BY <2>7 DEF jobThrows
    <2>8. ASSUME NEW i \in Instances, instanceStops(i) PROVE JobInv'
      BY <2>8 DEF instanceStops
    <2>9. ASSUME NEW k \in {"job"} \cup PendingTxs, lockExpires(k) PROVE JobInv'
      BY <2>9 DEF lockExpires, Working
    <2>10. ASSUME NEW t \in PendingTxs, completeTx(t) PROVE JobInv'
      BY <2>10 DEF completeTx
    <2>11. CASE UNCHANGED jobVars
      BY <2>11 DEF jobVars
    <2> QED BY <2>1, <2>2, <2>3, <2>4, <2>5, <2>6, <2>7, <2>8, <2>9, <2>10, <2>11 DEF JobNext
  <1> QED BY <1>1, <1>2

(* The job of scheduled-jobs.service.ts runs in one instance at a time,    *)
(* and no transaction is failed by two at once, as long as no lock expires *)
(* under its holder: for any number of instances and transactions, through *)
(* every stop, error and restart.                                          *)
THEOREM JobRunsOnce == JobSpec => []OneRunUntilExpiry
  <1>1. JobInv => OneRunUntilExpiry
    <2> SUFFICES ASSUME JobInv, ~ranOut, NEW k \in {"job"} \cup PendingTxs
                 PROVE  Cardinality(Working(k)) <= 1
      BY DEF OneRunUntilExpiry
    <2>1. \A i, j \in Working(k) : i = j
      BY JobLocksAssumption DEF JobInv, InHand, JobLocked, Working
    <2> QED BY <2>1, AtMostOne
  <1> QED BY <1>1, JobInvStep, PTL DEF JobSpec

----------------------------------------------------------------------------
(* Subscriptions. *)

(* What a dispatch has done so far: each subscription it began with is yet *)
(* to come, settled, or the one it is at.                                  *)
ServedSoFar(d) ==
    /\ dispatch[d] \in {"post", "delivered", "failed"} => serving[d] \in Subs
    /\ dispatch[d] = "delivered" => <<d, serving[d]>> \in acceptedBy
    /\ dispatch[d] = "done" => targets[d] = {}
    /\ dispatch[d] = "aborted" => d \in broken
    /\ dispatch[d] # "aborted" =>
        \A s \in snapshot[d] \ targets[d] :
            \/ deliveries[d][s] \in {"delivered", "failed"}
            \/ dispatch[d] \in {"post", "delivered", "failed"} /\ s = serving[d]
    /\ \A s \in Subs : deliveries[d][s] = "delivered" => <<d, s>> \in acceptedBy

SubsInv == SubsTypeOK /\ \A d \in Dispatches : ServedSoFar(d)

(* The inductive invariant of the dispatches holds initially and is        *)
(* preserved by every step of the two services and of the endpoints.       *)
LEMMA SubsInvStep ==
    /\ SubsInit => SubsInv
    /\ SubsInv /\ [SubsNext]_subVars => SubsInv'
  <1> USE SubscriptionsAssumption DEF DeliveryStatus
  <1>1. SubsInit => SubsInv
    BY DEF SubsInit, SubsInv, SubsTypeOK, ServedSoFar
  <1>2. ASSUME SubsInv, [SubsNext]_subVars PROVE SubsInv'
    <2> USE <1>2 DEF SubsInv
    <2>1. ASSUME NEW s \in Subs,
                 \/ createSubscription(s) \/ saveToggle(s)
                 \/ \E status \in {"active", "disabled"} :
                        toggle(s, status) \/ updateSubscription(s, status)
          PROVE  SubsInv'
      <3>1. DispatcherUnchanged
        BY <2>1 DEF createSubscription, toggle, saveToggle, updateSubscription
      <3>2. SubsTypeOK'
        BY <2>1, <3>1 DEF createSubscription, toggle, saveToggle, updateSubscription, SubsTypeOK,
                          DispatcherUnchanged
      <3>3. \A d \in Dispatches : ServedSoFar(d)'
        BY <3>1 DEF DispatcherUnchanged, ServedSoFar
      <3> QED BY <3>2, <3>3
    <2>2. ASSUME NEW d \in Dispatches, beginDispatch(d) PROVE SubsInv'
      <3>1. SubsTypeOK'
        BY <2>2 DEF beginDispatch, SubsTypeOK, getActiveSubscriptionsForEvent
      <3>2. ASSUME NEW e \in Dispatches PROVE ServedSoFar(e)'
        BY <2>2 DEF beginDispatch, SubsTypeOK, ServedSoFar
      <3> QED BY <3>1, <3>2
    <2>3. ASSUME NEW d \in Dispatches, NEW s \in Subs, insertDelivery(d, s) PROVE SubsInv'
      <3>1. SubsTypeOK'
        BY <2>3 DEF insertDelivery, SubsTypeOK
      <3>2. ASSUME NEW e \in Dispatches PROVE ServedSoFar(e)'
        BY <2>3 DEF insertDelivery, SubsTypeOK, ServedSoFar
      <3> QED BY <3>1, <3>2
    <2>4. ASSUME NEW d \in Dispatches, NEW accepts \in BOOLEAN, NEW answered_ \in BOOLEAN,
                 post(d, accepts, answered_)
          PROVE  SubsInv'
      <3>1. SubsTypeOK'
        BY <2>4 DEF post, SubsTypeOK, ServedSoFar
      <3>2. ASSUME NEW e \in Dispatches PROVE ServedSoFar(e)'
        BY <2>4 DEF post, SubsTypeOK, ServedSoFar
      <3> QED BY <3>1, <3>2
    <2>5. ASSUME NEW d \in Dispatches, recordDelivered(d) \/ recordFailed(d) PROVE SubsInv'
      <3> DEFINE s == serving[d]
      <3>1. s \in Subs /\ (dispatch[d] = "delivered" => <<d, s>> \in acceptedBy)
        BY <2>5 DEF recordDelivered, recordFailed, ServedSoFar
      <3>2. PICK outcome \in {"delivered", "failed"}, next \in {"loop", "report"} :
                /\ outcome = "delivered" => dispatch[d] = "delivered"
                /\ deliveries' = [deliveries EXCEPT ![d][s] = outcome]
                /\ dispatch' = [dispatch EXCEPT ![d] = next]
                /\ UNCHANGED <<subscription, toggling, targets, snapshot, serving, acceptedBy, broken>>
                /\ dispatch[d] \in {"delivered", "failed"}
        <4>1. CASE recordDelivered(d)
          BY <4>1 DEF recordDelivered
        <4>2. CASE recordFailed(d)
          BY <4>2 DEF recordFailed
        <4> QED BY <2>5, <4>1, <4>2
      <3> HIDE DEF s
      <3>3. SubsTypeOK'
        BY <3>1, <3>2 DEF SubsTypeOK
      <3>4. ASSUME NEW e \in Dispatches PROVE ServedSoFar(e)'
        <4>1. CASE e # d
          BY <3>2, <4>1 DEF SubsTypeOK, ServedSoFar
        <4>2. CASE e = d
          <5>1. \A x \in Subs : deliveries'[d][x] = IF x = s THEN outcome ELSE deliveries[d][x]
            BY <3>1, <3>2 DEF SubsTypeOK
          <5>2. dispatch'[d] = next
            BY <3>2 DEF SubsTypeOK
          <5> QED BY <3>1, <3>2, <4>2, <5>1, <5>2 DEF SubsTypeOK, ServedSoFar, s
        <4> QED BY <4>1, <4>2
      <3> QED BY <3>3, <3>4
    <2>6. ASSUME NEW d \in Dispatches,
                 recordThrows(d) \/ report(d) \/ endDispatch(d) \/ dispatchBreaks(d)
          PROVE  SubsInv'
      <3>1. SubsTypeOK'
        BY <2>6 DEF recordThrows, report, endDispatch, dispatchBreaks, SubsTypeOK
      <3>2. ASSUME NEW e \in Dispatches PROVE ServedSoFar(e)'
        BY <2>6 DEF recordThrows, report, endDispatch, dispatchBreaks, SubsTypeOK, ServedSoFar
      <3> QED BY <3>1, <3>2
    <2>7. CASE UNCHANGED subVars
      BY <2>7 DEF subVars, SubsTypeOK, ServedSoFar
    <2> QED BY <2>1, <2>2, <2>3, <2>4, <2>5, <2>6, <2>7 DEF SubsNext
  <1> QED BY <1>1, <1>2

(* WebhookDispatcherService leaves no subscription unserved: whatever the  *)
(* endpoints answer, a dispatch in which no query and no report failed     *)
(* settles a delivery for each subscription it began with, and no row says *)
(* delivered that the endpoint has not accepted.                           *)
THEOREM TargetsServed == SubsSpec => []EveryTargetIsServed
  <1>1. SubsInv => EveryTargetIsServed
    BY DEF SubsInv, SubsTypeOK, ServedSoFar, EveryTargetIsServed
  <1> QED BY <1>1, SubsInvStep, PTL DEF SubsSpec

----------------------------------------------------------------------------
(* EntitySaves. *)

(* A caller of the service of API keys holds a key that exists, and one    *)
(* that validates no key whose revocation it would undo unnoticed.         *)
HoldsKey(c) ==
    /\ held[c].for \in {"none", "validate", "revoke"}
    /\ held[c].for = "none" => held[c] = Loose
    /\ held[c].for # "none" => held[c].on \in ApiKeys /\ keyState[held[c].on] # "none"
    /\ held[c].for = "validate" => held[c].on \notin revoked \ overlapped

KeysSafe == /\ \A k \in creating : keyState[k] = "none"
            /\ \A k \in revoked : keyState[k] # "none"
            /\ RevokedUnlessInUse
            /\ service = "keys" => \A c \in Savers : HoldsKey(c)

(* A device token that is about to be saved after a message has the owner  *)
(* its row has, unless the row was changed under it.                       *)
HoldsDevice(c) ==
    /\ held[c].for \in {"none", "register", "insert", "create", "send"}
    /\ held[c].for = "none" => held[c] = Loose
    /\ held[c].for # "none" => held[c].on \in Devices /\ held[c].owner \in DeviceOwners
    /\ held[c].for = "send" /\ held[c].on \notin crossedDevices => held[c].owner = ownerOf[held[c].on]

DevicesSafe == /\ DevicesFollowLastWord
               /\ service = "devices" => \A c \in Savers : HoldsDevice(c)

(* A wallet still to be rotated was loaded with all its credits, unless it *)
(* was overtaken; and no balance exceeds the credits.                      *)
WalletSafe(w) ==
    /\ wallet[w].balance <= creditedTo[w] /\ loadedWallets[w].balance <= creditedTo[w]
    /\ w \notin overtaken =>
        /\ wallet[w].balance = creditedTo[w]
        /\ w \in toRotate /\ ~loadedWallets[w].current => loadedWallets[w].balance = creditedTo[w]

HoldsApproval(c) ==
    /\ held[c].for \in {"none", "approve", "execute"}
    /\ held[c].for = "none" => held[c] = Loose
    /\ held[c].for # "none" => held[c].on \in Approvals

(* A request that never had two holders: while it has one it is not yet    *)
(* carried out, and afterwards it stays approved.                          *)
ApprovalSafe(a) ==
    /\ timesExecuted[a] <= 1
    /\ timesExecuted[a] # 0 => approval[a] = "approved"
    /\ service = "approvals" =>
        /\ timesExecuted[a] # 0 => Holders(a) = {}
        /\ \A c, d \in Holders(a) : c = d
        /\ \A c \in Holders(a) :
            approval[a] = IF held[c].for = "approve" THEN "pending" ELSE "approved"

ApprovalsSafe == /\ \A a \in Approvals \ contendedApprovals : ApprovalSafe(a)
                 /\ service = "approvals" => \A c \in Savers : HoldsApproval(c)

SavesInv == /\ SavesTypeOK
            /\ KeysSafe /\ DevicesSafe
            /\ \A w \in RotatedWallets : WalletSafe(w)
            /\ ApprovalsSafe

(* The inductive invariant of the four services holds initially. *)
LEMMA SavesInvInit == SavesInit => SavesInv
  <1> SUFFICES ASSUME SavesInit PROVE SavesInv
    OBVIOUS
  <1> USE EntitySavesAssumption DEF SavesInit, Loose
  <1>1. SavesTypeOK
    BY DEF SavesTypeOK
  <1>2. KeysSafe
    BY DEF KeysSafe, RevokedUnlessInUse, HoldsKey
  <1>3. DevicesSafe
    BY DEF DevicesSafe, DevicesFollowLastWord, HoldsDevice
  <1>4. \A w \in RotatedWallets : WalletSafe(w)
    BY DEF WalletSafe
  <1>5. ApprovalsSafe
    BY DEF ApprovalsSafe, ApprovalSafe, HoldsApproval, Holders
  <1> QED BY <1>1, <1>2, <1>3, <1>4, <1>5 DEF SavesInv

(* API keys: every step of the service preserves the invariant. *)
LEMMA KeySteps ==
    ASSUME SavesInv, service = "keys",
           \/ \E k \in ApiKeys :
                \/ findSameName(k) \/ createApiKey(k) \/ keyExpires(k)
                \/ \E c \in Savers, p \in {"validate", "revoke"} : loadKey(c, k, p)
           \/ \E c \in Savers : validateApiKey(c) \/ revokeApiKey(c)
    PROVE  SavesInv'
  <1> USE EntitySavesAssumption DEF SavesInv, Loose
  <1>1. OtherThanKeys
    BY DEF findSameName, createApiKey, keyExpires, loadKey, validateApiKey, revokeApiKey
  <1>2. SavesTypeOK' /\ KeysSafe'
    <2>1. ASSUME NEW k \in ApiKeys, findSameName(k) \/ createApiKey(k) \/ keyExpires(k)
          PROVE  SavesTypeOK' /\ KeysSafe'
      <3>1. SavesTypeOK'
        BY <1>1, <2>1 DEF findSameName, createApiKey, keyExpires, OtherThanKeys, rotationVars,
                          approvalVars, deviceVars, SavesTypeOK
      <3>2. KeysSafe'
        BY <1>1, <2>1 DEF findSameName, createApiKey, keyExpires, OtherThanKeys, SavesTypeOK,
                          KeysSafe, RevokedUnlessInUse, HoldsKey
      <3> QED BY <3>1, <3>2
    <2>2. ASSUME NEW k \in ApiKeys, NEW c \in Savers, NEW p \in {"validate", "revoke"},
                 loadKey(c, k, p)
          PROVE  SavesTypeOK' /\ KeysSafe'
      <3>1. SavesTypeOK'
        BY <1>1, <2>2 DEF loadKey, Hold, OtherThanKeys, rotationVars, keyVars,
                          approvalVars, deviceVars, SavesTypeOK
      <3>2. KeysSafe'
        BY <1>1, <2>2 DEF loadKey, Hold, OtherThanKeys, SavesTypeOK, keyVars,
                          KeysSafe, RevokedUnlessInUse, HoldsKey
      <3> QED BY <3>1, <3>2
    <2>3. ASSUME NEW c \in Savers, validateApiKey(c) PROVE SavesTypeOK' /\ KeysSafe'
      <3>0. HoldsKey(c)
        BY DEF KeysSafe
      <3>1. SavesTypeOK'
        BY <1>1, <2>3, <3>0 DEF validateApiKey, HoldsKey, OtherThanKeys, rotationVars,
                          approvalVars, deviceVars, SavesTypeOK
      <3>2. KeysSafe'
        BY <1>1, <2>3, <3>0 DEF validateApiKey, OtherThanKeys, SavesTypeOK,
                          KeysSafe, RevokedUnlessInUse, HoldsKey
      <3> QED BY <3>1, <3>2
    <2>4. ASSUME NEW c \in Savers, revokeApiKey(c) PROVE SavesTypeOK' /\ KeysSafe'
      <3>0. HoldsKey(c)
        BY DEF KeysSafe
      <3>1. SavesTypeOK'
        BY <1>1, <2>4, <3>0 DEF revokeApiKey, HoldsKey, OtherThanKeys, rotationVars,
                          approvalVars, deviceVars, SavesTypeOK
      <3>2. KeysSafe'
        BY <1>1, <2>4, <3>0 DEF revokeApiKey, OtherThanKeys, SavesTypeOK, Holders,
                          KeysSafe, RevokedUnlessInUse, HoldsKey
      <3> QED BY <3>1, <3>2
    <2> QED BY <2>1, <2>2, <2>3, <2>4
  <1>3. DevicesSafe' /\ (\A w \in RotatedWallets : WalletSafe(w)') /\ ApprovalsSafe'
    BY <1>1 DEF OtherThanKeys, rotationVars, approvalVars, deviceVars, DevicesSafe,
                DevicesFollowLastWord, WalletSafe, ApprovalsSafe, ApprovalSafe
  <1> QED BY <1>2, <1>3

(* Device tokens: a change of a row by a caller that then lets it go, the  *)
(* last thing that registrations, removals and refused messages do.        *)
LEMMA SettleStep ==
    ASSUME SavesInv, service = "devices", NEW c \in Savers, NEW d \in Devices,
           NEW owner \in DeviceOwners \cup {NoKey},
           Settle(c, d, owner)
    PROVE  SavesTypeOK' /\ DevicesSafe'
  <1> USE EntitySavesAssumption DEF SavesInv, Loose
  <1>1. SavesTypeOK'
    BY DEF Settle, OtherThanDevices, keyVars, rotationVars, approvalVars, SavesTypeOK
  <1>2. DevicesSafe'
    <2>1. \A e \in Savers : HoldsDevice(e)'
      BY DEF Settle, OtherThanDevices, SavesTypeOK, Holders, DevicesSafe, HoldsDevice
    <2>2. DevicesFollowLastWord'
      BY DEF Settle, SavesTypeOK, DevicesSafe, DevicesFollowLastWord
    <2> QED BY <2>1, <2>2 DEF DevicesSafe
  <1> QED BY <1>1, <1>2

(* A caller that lets go of a row it does not change. *)
LEMMA LetGoStep ==
    ASSUME SavesInv, service = "devices", NEW c \in Savers,
           held' = [held EXCEPT ![c] = Loose], UNCHANGED deviceVars, OtherThanDevices
    PROVE  SavesTypeOK' /\ DevicesSafe'
  <1> USE EntitySavesAssumption DEF SavesInv, Loose
  <1>1. SavesTypeOK'
    BY DEF OtherThanDevices, deviceVars, keyVars, rotationVars, approvalVars, SavesTypeOK
  <1>2. DevicesSafe'
    BY DEF OtherThanDevices, deviceVars, SavesTypeOK, DevicesSafe, HoldsDevice, DevicesFollowLastWord
  <1> QED BY <1>1, <1>2

(* Device tokens: every step of the service preserves the invariant. *)
LEMMA DeviceSteps ==
    ASSUME SavesInv, service = "devices", NEW c \in Savers,
           \/ registerKnown(c) \/ registerNew(c)
           \/ sendAccepted(c) \/ sendNotRegistered(c) \/ sendFails(c)
           \/ \E d \in Devices :
               \/ deregisterToken(c, d) \/ evictOldest(c, d)
               \/ \E p \in {"register", "insert", "send"}, u \in DeviceOwners : findToken(c, d, p, u)
    PROVE  SavesInv'
  <1> USE EntitySavesAssumption DEF SavesInv, Loose
  <1>0. HoldsDevice(c)
    BY DEF DevicesSafe
  <1>1. OtherThanDevices
    BY DEF registerKnown, registerNew, sendAccepted, sendNotRegistered, sendFails, deregisterToken,
           evictOldest, findToken, Settle
  <1>2. SavesTypeOK' /\ DevicesSafe'
    <2>1. CASE registerKnown(c) \/ sendNotRegistered(c)
      BY <1>0, <2>1, SettleStep DEF registerKnown, sendNotRegistered, HoldsDevice
    <2>2. CASE registerNew(c)
      BY <1>0, <1>1, <2>2, SettleStep, LetGoStep DEF registerNew, HoldsDevice
    <2>3. CASE sendAccepted(c)
      <3>0. held[c].on \in Devices /\ held[c].owner \in DeviceOwners
        BY <1>0, <2>3 DEF sendAccepted, HoldsDevice
      <3>1. SavesTypeOK'
        BY <1>1, <2>3, <3>0 DEF sendAccepted, OtherThanDevices, keyVars, rotationVars, approvalVars,
                                SavesTypeOK
      <3>2. DevicesSafe'
        BY <1>0, <1>1, <2>3, <3>0 DEF sendAccepted, OtherThanDevices, SavesTypeOK, DevicesSafe,
                                      DevicesFollowLastWord, HoldsDevice
      <3> QED BY <3>1, <3>2
    <2>4. CASE sendFails(c)
      BY <2>4, LetGoStep DEF sendFails
    <2>5. ASSUME NEW d \in Devices, deregisterToken(c, d) PROVE SavesTypeOK' /\ DevicesSafe'
      BY <2>5, SettleStep DEF deregisterToken
    <2>6. ASSUME NEW d \in Devices, evictOldest(c, d) PROVE SavesTypeOK' /\ DevicesSafe'
      <3>1. SavesTypeOK'
        <4>1. /\ held' \in [Savers -> [on : ApiKeys \cup Approvals \cup Devices \cup {NoKey},
                                       for : {"none", "validate", "revoke", "approve", "execute",
                                              "register", "insert", "create", "send"},
                                       owner : DeviceOwners \cup {NoKey}]]
          <5> DEFINE R == [on : ApiKeys \cup Approvals \cup Devices \cup {NoKey},
                           for : {"none", "validate", "revoke", "approve", "execute",
                                  "register", "insert", "create", "send"},
                           owner : DeviceOwners \cup {NoKey}]
          <5>1. held \in [Savers -> R]
            BY DEF SavesTypeOK
          <5>2. [held[c] EXCEPT !.for = "create"] \in R
            BY <5>1
          <5>3. held' = [held EXCEPT ![c] = [held[c] EXCEPT !.for = "create"]]
            BY <2>6 DEF evictOldest
          <5> HIDE DEF R
          <5>4. held' \in [Savers -> R]
            BY <5>1, <5>2, <5>3
          <5> QED BY <5>4 DEF R
        <4>2. /\ ownerOf' \in [Devices -> DeviceOwners \cup {NoKey}]
              /\ lastWord' \in [Devices -> DeviceOwners \cup {NoKey}]
              /\ crossedDevices' \subseteq Devices
          BY <2>6 DEF evictOldest, SavesTypeOK
        <4> QED BY <1>1, <4>1, <4>2 DEF OtherThanDevices, keyVars, rotationVars, approvalVars,
                                        SavesTypeOK
      <3>2. DevicesSafe'
        BY <1>0, <1>1, <2>6 DEF evictOldest, OtherThanDevices, SavesTypeOK, DevicesSafe, Holders,
                                DevicesFollowLastWord, HoldsDevice
      <3> QED BY <3>1, <3>2
    <2>7. ASSUME NEW d \in Devices, NEW p \in {"register", "insert", "send"},
                 NEW u \in DeviceOwners, findToken(c, d, p, u)
          PROVE  SavesTypeOK' /\ DevicesSafe'
      <3>1. SavesTypeOK'
        BY <1>1, <2>7 DEF findToken, OtherThanDevices, deviceVars, keyVars, rotationVars,
                          approvalVars, SavesTypeOK
      <3>2. DevicesSafe'
        BY <1>1, <2>7 DEF findToken, OtherThanDevices, deviceVars, SavesTypeOK, DevicesSafe,
                          DevicesFollowLastWord, HoldsDevice
      <3> QED BY <3>1, <3>2
    <2> QED BY <2>1, <2>2, <2>3, <2>4, <2>5, <2>6, <2>7
  <1>3. KeysSafe' /\ (\A w \in RotatedWallets : WalletSafe(w)') /\ ApprovalsSafe'
    BY <1>1 DEF OtherThanDevices, keyVars, rotationVars, approvalVars, KeysSafe,
                RevokedUnlessInUse, WalletSafe, ApprovalsSafe, ApprovalSafe
  <1> QED BY <1>2, <1>3

(* Rotation of the wallets' key: every step preserves the invariant. *)
LEMMA RotationSteps ==
    ASSUME SavesInv, service = "rotation",
           \/ \E w \in RotatedWallets : creditWallet(w) \/ rotateWallet(w)
           \/ rotate \/ rotationStops
    PROVE  SavesInv'
  <1> USE EntitySavesAssumption DEF SavesInv
  <1>1. OtherThanRotation
    BY DEF creditWallet, rotateWallet, rotate, rotationStops
  <1>2. /\ wallet' \in [RotatedWallets -> [balance : 0..MaxWalletCredits, current : BOOLEAN]]
        /\ loadedWallets' \in [RotatedWallets -> [balance : 0..MaxWalletCredits, current : BOOLEAN]]
        /\ creditedTo' \in [RotatedWallets -> 0..MaxWalletCredits]
        /\ toRotate' \subseteq RotatedWallets /\ overtaken' \subseteq RotatedWallets
        /\ \A x \in RotatedWallets : WalletSafe(x)'
    <2>1. ASSUME NEW w \in RotatedWallets, creditWallet(w) PROVE <1>2!:
      <3>1. wallet'[w] = [balance |-> wallet[w].balance + 1, current |-> wallet[w].current]
        BY <2>1 DEF creditWallet, SavesTypeOK
      <3>2. wallet[w].balance + 1 \in 0..MaxWalletCredits
        BY <2>1 DEF creditWallet, SavesTypeOK, WalletSafe
      <3> QED BY <2>1, <3>1, <3>2 DEF creditWallet, SavesTypeOK, WalletSafe
    <2>2. ASSUME NEW w \in RotatedWallets, rotateWallet(w) PROVE <1>2!:
      BY <2>2 DEF rotateWallet, NeedsKey, SavesTypeOK, WalletSafe
    <2>3. CASE rotate
      BY <2>3 DEF rotate, SavesTypeOK, WalletSafe
    <2>4. CASE rotationStops
      BY <2>4 DEF rotationStops, SavesTypeOK, WalletSafe
    <2> QED BY <2>1, <2>2, <2>3, <2>4
  <1>3. SavesTypeOK'
    BY <1>1, <1>2 DEF OtherThanRotation, keyVars, approvalVars, deviceVars, SavesTypeOK
  <1>4. KeysSafe' /\ DevicesSafe' /\ ApprovalsSafe'
    BY <1>1 DEF OtherThanRotation, keyVars, approvalVars, deviceVars, KeysSafe, RevokedUnlessInUse,
                DevicesSafe, DevicesFollowLastWord, ApprovalsSafe, ApprovalSafe
  <1> QED BY <1>2, <1>3, <1>4

(* Approvals: every step of the service preserves the invariant. *)
LEMMA ApprovalSteps ==
    ASSUME SavesInv, service = "approvals",
           \/ \E a \in Approvals : \/ requestAdminApproval(a)
                                   \/ \E c \in Savers : loadApproval(c, a)
           \/ \E c \in Savers : approveAdminRequest(c) \/ executeAction(c) \/ approverStops(c)
    PROVE  SavesInv'
  <1> USE EntitySavesAssumption DEF SavesInv, Loose
  <1>1. OtherThanApprovals
    BY DEF requestAdminApproval, loadApproval, approveAdminRequest, executeAction, approverStops
  <1>2. SavesTypeOK' /\ ApprovalsSafe'
    <2>1. ASSUME NEW a \in Approvals, requestAdminApproval(a) PROVE SavesTypeOK' /\ ApprovalsSafe'
      <3>1. SavesTypeOK'
        BY <1>1, <2>1 DEF requestAdminApproval, OtherThanApprovals, keyVars, rotationVars, deviceVars,
                          SavesTypeOK
      <3>2. ApprovalsSafe'
        BY <1>1, <2>1 DEF requestAdminApproval, OtherThanApprovals, SavesTypeOK, ApprovalsSafe,
                          ApprovalSafe, HoldsApproval, Holders
      <3> QED BY <3>1, <3>2
    <2>2. ASSUME NEW a \in Approvals, NEW c \in Savers, loadApproval(c, a)
          PROVE  SavesTypeOK' /\ ApprovalsSafe'
      <3>1. SavesTypeOK'
        BY <1>1, <2>2 DEF loadApproval, Hold, OtherThanApprovals, keyVars, rotationVars, deviceVars,
                          SavesTypeOK
      <3>2. ApprovalsSafe'
        <4>1. \A e \in Savers : HoldsApproval(e)'
          BY <2>2 DEF loadApproval, Hold, SavesTypeOK, ApprovalsSafe, HoldsApproval
        <4>2. /\ held'[c].on = a /\ held'[c].for = "approve" /\ held[c].on = NoKey
              /\ \A e \in Savers \ {c} : held'[e] = held[e]
          <5>1. held[c] = Loose /\ held' = [held EXCEPT ![c] = Hold(a, "approve")]
            BY <2>2 DEF loadApproval
          <5>2. Hold(a, "approve").on = a /\ Hold(a, "approve").for = "approve"
            BY DEF Hold
          <5>3. held'[c] = Hold(a, "approve") /\ \A e \in Savers \ {c} : held'[e] = held[e]
            BY <5>1 DEF SavesTypeOK
          <5> QED BY <5>1, <5>2, <5>3
        <4>3. ASSUME NEW b \in Approvals \ contendedApprovals' PROVE ApprovalSafe(b)'
          <5>1. b \notin contendedApprovals /\ ApprovalSafe(b)
            BY <2>2 DEF loadApproval, ApprovalsSafe
          <5>2. CASE b = a
            <6>1. Holders(a) = {} /\ approval[a] = "pending"
              BY <2>2, <4>3, <5>2 DEF loadApproval, MayApprove
            <6>2. Holders(a)' = {c}
              BY <4>2, <6>1 DEF Holders, SavesTypeOK
            <6>3. held'[c].for = "approve"
              BY <4>2 DEF SavesTypeOK
            <6> QED BY <2>2, <5>1, <5>2, <6>1, <6>2, <6>3 DEF loadApproval, ApprovalSafe
          <5>3. CASE b # a
            <6>1. Holders(b)' = Holders(b) /\ \A e \in Holders(b) : held'[e] = held[e]
              BY <2>2, <4>2, <5>3 DEF loadApproval, Holders, SavesTypeOK
            <6> QED BY <1>1, <2>2, <5>1, <6>1 DEF loadApproval, ApprovalSafe, OtherThanApprovals
          <5> QED BY <5>2, <5>3
        <4> QED BY <4>1, <4>3 DEF ApprovalsSafe
      <3> QED BY <3>1, <3>2
    <2>3. ASSUME NEW c \in Savers, approveAdminRequest(c) PROVE SavesTypeOK' /\ ApprovalsSafe'
      <3>0. HoldsApproval(c)
        BY DEF ApprovalsSafe
      <3>1. SavesTypeOK'
        BY <1>1, <2>3, <3>0 DEF approveAdminRequest, HoldsApproval, OtherThanApprovals, keyVars,
                                rotationVars, deviceVars, SavesTypeOK
      <3>2. ApprovalsSafe'
        BY <1>1, <2>3, <3>0 DEF approveAdminRequest, OtherThanApprovals, SavesTypeOK,
                                ApprovalsSafe, ApprovalSafe, HoldsApproval, Holders
      <3> QED BY <3>1, <3>2
    <2>4. ASSUME NEW c \in Savers, executeAction(c) PROVE SavesTypeOK' /\ ApprovalsSafe'
      <3>0. HoldsApproval(c)
        BY DEF ApprovalsSafe
      <3>1. SavesTypeOK'
        BY <1>1, <2>4, <3>0 DEF executeAction, HoldsApproval, OtherThanApprovals, keyVars,
                                rotationVars, deviceVars, SavesTypeOK
      <3>2. ApprovalsSafe'
        <4>1. \A e \in Savers : HoldsApproval(e)'
          BY <2>4 DEF executeAction, SavesTypeOK, ApprovalsSafe, HoldsApproval
        <4>2. ASSUME NEW b \in Approvals \ contendedApprovals' PROVE ApprovalSafe(b)'
          <5>1. ApprovalSafe(b) /\ Holders(b)' = Holders(b) \ {c}
            BY <2>4 DEF executeAction, ApprovalsSafe, Holders, SavesTypeOK
          <5>2. CASE b = held[c].on
            <6>1. Holders(b) = {c} /\ timesExecuted[b] = 0 /\ approval[b] = "approved"
              BY <2>4, <5>1, <5>2 DEF executeAction, ApprovalSafe, Holders, SavesTypeOK
            <6>2. timesExecuted'[b] = 1 /\ approval'[b] = "approved" /\ Holders(b)' = {}
              BY <2>4, <5>1, <5>2, <6>1 DEF executeAction, SavesTypeOK
            <6> QED BY <6>2 DEF ApprovalSafe
          <5>3. CASE b # held[c].on
            <6>1. timesExecuted'[b] = timesExecuted[b] /\ approval' = approval
              BY <2>4, <5>3 DEF executeAction, SavesTypeOK
            <6>2. Holders(b)' = Holders(b) /\ \A e \in Holders(b) : held'[e] = held[e]
              BY <2>4, <5>1, <5>3 DEF executeAction, Holders, SavesTypeOK
            <6> QED BY <1>1, <5>1, <6>1, <6>2 DEF ApprovalSafe, OtherThanApprovals
          <5> QED BY <5>2, <5>3
        <4> QED BY <4>1, <4>2 DEF ApprovalsSafe
      <3> QED BY <3>1, <3>2
    <2>5. ASSUME NEW c \in Savers, approverStops(c) PROVE SavesTypeOK' /\ ApprovalsSafe'
      <3>1. SavesTypeOK'
        BY <1>1, <2>5 DEF approverStops, OtherThanApprovals, keyVars, rotationVars, deviceVars,
                          SavesTypeOK
      <3>2. ApprovalsSafe'
        BY <1>1, <2>5 DEF approverStops, OtherThanApprovals, SavesTypeOK,
                          ApprovalsSafe, ApprovalSafe, HoldsApproval, Holders
      <3> QED BY <3>1, <3>2
    <2> QED BY <2>1, <2>2, <2>3, <2>4, <2>5
  <1>3. KeysSafe' /\ DevicesSafe' /\ \A w \in RotatedWallets : WalletSafe(w)'
    BY <1>1 DEF OtherThanApprovals, keyVars, rotationVars, deviceVars, KeysSafe, RevokedUnlessInUse,
                DevicesSafe, DevicesFollowLastWord, WalletSafe
  <1> QED BY <1>2, <1>3

(* Every step of the four services keeps the invariant of the saves. *)
LEMMA SavesInvStep == SavesInv /\ [SavesNext]_saveVars => SavesInv'
  <1> SUFFICES ASSUME SavesInv, [SavesNext]_saveVars PROVE SavesInv'
    OBVIOUS
  <1>1. CASE UNCHANGED saveVars
    BY <1>1 DEF saveVars, keyVars, rotationVars, approvalVars, deviceVars, SavesInv, SavesTypeOK,
                KeysSafe, RevokedUnlessInUse, HoldsKey, DevicesSafe, DevicesFollowLastWord,
                HoldsDevice, WalletSafe, ApprovalsSafe, ApprovalSafe, HoldsApproval, Holders
  <1>2. CASE SavesNext
    BY <1>2, KeySteps, DeviceSteps, RotationSteps, ApprovalSteps DEF SavesNext
  <1> QED BY <1>1, <1>2

(* What TypeORM's save undoes: a revoked key, a wallet's credit, an        *)
(* approval and a device's owner are lost only to a request that held the  *)
(* row when it changed, for any number of requests and rows.               *)
THEOREM SavesUndoOnlyWhatOverlaps == SavesSpec => []SavesUndoOnlyOverlaps
  <1>1. SavesInv => SavesUndoOnlyOverlaps
    BY DEF SavesInv, SavesUndoOnlyOverlaps, KeysSafe, DevicesSafe, WalletSafe, ApprovalsSafe,
           ApprovalSafe, RotationLosesOnlyOvertaken, ActionsOnceUnlessContended
  <1> QED BY <1>1, SavesInvInit, SavesInvStep, PTL DEF SavesSpec

----------------------------------------------------------------------------
(* LedgerReports. *)

(* A row and a movement of the balance belong to a movement that took      *)
(* place.                                                                  *)
MovesReal == \A m \in Moves :
    /\ rowOf[m] # "none" => kind[m] \in TxKinds \cup FxKinds
    /\ m \in applied => kind[m] # "none"

(* The balance is what the movements add up to, to within half a cent for  *)
(* each that is not whole cents.                                           *)
Deltas == [m \in Moves |-> Delta(m)]
NotWhole == {m \in applied : ~WholeCents(Deltas[m])}
Unrounded == SubUnits * balance - Adds(Deltas, applied)
BalanceReal == /\ Unrounded <= HalfCent * Cardinality(NotWhole)
               /\ -Unrounded <= HalfCent * Cardinality(NotWhole)

(* The lines fall in the period, what is added to the opening balance      *)
(* before it.                                                              *)
SidesOfStatement ==
    /\ \A m \in statement.lines : kind[m] # "none" /\ InPeriod(m)
    /\ \A m \in statement.opening : kind[m] # "none" /\ Before(m)

(* The rows that were there throughout are there still, and each query has *)
(* found those it asks for.                                                *)
FoundSoFar(m) ==
    /\ m \in InTable
    /\ InPeriod(m) => /\ statement.stage \in {"fxLines", "txBefore", "fxBefore", "done"} /\ kind[m] \in TxKinds =>
                            m \in statement.lines
                      /\ statement.stage \in {"txBefore", "fxBefore", "done"} /\ kind[m] \in FxKinds =>
                            m \in statement.lines
    /\ Before(m) => /\ statement.stage \in {"fxBefore", "done"} /\ kind[m] \in TxKinds => m \in statement.opening
                    /\ statement.stage = "done" /\ kind[m] \in FxKinds => m \in statement.opening

(* What a nightly job read is still so, unless something moved. *)
AuditReal ==
    /\ audit.stage # "done" => audit.verdict = "none"
    /\ audit.stage = "ledger" /\ ~moved => audit.stored = balance
    /\ DiscrepancyHasACause

LedgerInv == /\ LedgerTypeOK /\ MovesReal /\ BalanceReal /\ SidesOfStatement
             /\ \A m \in throughout : FoundSoFar(m)
             /\ AuditReal

(* The movements and what they add up to are numbers. *)
LEMMA LedgerFinite ==
    ASSUME LedgerTypeOK
    PROVE  /\ \A S \in SUBSET Moves : IsFiniteSet(S) /\ Cardinality(S) \in Nat /\ Adds(Deltas, S) \in Int
           /\ \A m \in Moves : Deltas[m] \in Int /\ Deltas[m] = Delta(m)
           /\ SubUnits \in Nat \ {0} /\ HalfCent \in Nat \ {0} /\ SubUnits * balance \in Int
           /\ IsFiniteSet(NotWhole) /\ Cardinality(NotWhole) \in Nat
           /\ HalfCent * Cardinality(NotWhole) \in Int /\ Unrounded \in Int
  <1>1. \A S \in SUBSET Moves : IsFiniteSet(S) /\ Cardinality(S) \in Nat
    BY LedgerReportsAssumption, FS_Subset, FS_CardinalityType
  <1>2. \A m \in Moves : Deltas[m] \in Int /\ Deltas[m] = Delta(m)
    <2> SUFFICES ASSUME NEW m \in Moves PROVE Delta(m) \in Int
      BY DEF Deltas
    <2>1. amount[m] \in Int /\ Fee \in Int
      BY LedgerReportsAssumption DEF LedgerTypeOK
    <2>2. Delta(m) \in {amount[m], -amount[m], -(amount[m] + Fee), 0}
      BY DEF Delta
    <2> QED BY <2>1, <2>2
  <1>3. \A S \in SUBSET Moves : Adds(Deltas, S) \in Int
    <2> SUFFICES ASSUME NEW S \in SUBSET Moves PROVE Adds(Deltas, S) \in Int
      OBVIOUS
    <2>1. IsFiniteSet(S) /\ \A m \in S : Deltas[m] \in Int
      BY <1>1, <1>2
    <2> QED BY <2>1, AddsType
  <1>4. SubUnits \in Nat \ {0} /\ HalfCent \in Nat \ {0}
    BY HalfCentAssumption DEF SubUnits
  <1>5. SubUnits * balance \in Int
    BY <1>4 DEF LedgerTypeOK
  <1>6. NotWhole \in SUBSET Moves /\ applied \in SUBSET Moves
    BY DEF NotWhole, LedgerTypeOK
  <1>7. Cardinality(NotWhole) \in Nat /\ IsFiniteSet(NotWhole)
    BY <1>1, <1>6
  <1>8. HalfCent * Cardinality(NotWhole) \in Int
    BY <1>4, <1>7
  <1>9. Unrounded \in Int
    BY <1>3, <1>5, <1>6 DEF Unrounded
  <1> QED BY <1>1, <1>2, <1>3, <1>4, <1>5, <1>7, <1>8, <1>9

(* If all that was applied are completed receipts, and no more than two of *)
(* them are not whole cents, the ledger's sum is within a cent of the      *)
(* balance.                                                                *)
LEMMA ReceiptsBalance ==
    ASSUME LedgerTypeOK, BalanceReal, applied = Counted, \A m \in Counted : kind[m] = "received",
           Cardinality({m \in applied : ~WholeCents(amount[m])}) <= 2
    PROVE  LedgerBalance - SubUnits * balance \in -TOLERANCE..TOLERANCE
  <1>1. \A m \in applied : Deltas[m] = amount[m]
    BY DEF LedgerTypeOK, Deltas, Delta
  <1>2. NotWhole = {m \in applied : ~WholeCents(amount[m])}
    BY <1>1 DEF NotWhole
  <1>3. applied \in SUBSET Moves
    BY DEF LedgerTypeOK
  <1>4. LedgerBalance = Adds(Deltas, applied)
    <2>1. LedgerBalance = Adds(amount, Counted)
      BY Zenon DEF LedgerBalance, Adds, MapThenSumSet, MapThenFoldSet
    <2>2. Adds(amount, applied) = Adds(Deltas, applied)
      BY <1>1, <1>3, LedgerFinite, AddsSame
    <2> QED BY <2>1, <2>2
  <1> DEFINE n == Cardinality(NotWhole)
  <1>5. n \in Nat /\ n <= 2 /\ HalfCent \in Nat /\ HalfCent * n \in Int
    BY <1>2, LedgerFinite
  <1> HIDE DEF n
  <1>6. HalfCent * n <= 2 * HalfCent
    <2>1. n = 0 \/ n = 1 \/ n = 2
      BY <1>5
    <2> QED BY <1>5, <2>1
  <1>7. Unrounded <= HalfCent * n /\ -Unrounded <= HalfCent * n
    BY DEF BalanceReal, n
  <1>8. Unrounded \in Int /\ Adds(Deltas, applied) \in Int /\ SubUnits * balance \in Int
    BY <1>3, LedgerFinite
  <1>9. LedgerBalance - SubUnits * balance = -Unrounded
    BY <1>4, <1>8 DEF Unrounded
  <1>10. TOLERANCE = 2 * HalfCent
    BY DEF TOLERANCE, SubUnits
  <1> QED BY <1>5, <1>6, <1>7, <1>8, <1>9, <1>10

(* The inductive invariant of the reports holds initially. *)
LEMMA LedgerInvInit == LedgerInit => LedgerInv
  <1> SUFFICES ASSUME LedgerInit PROVE LedgerInv
    OBVIOUS
  <1> USE LedgerReportsAssumption DEF LedgerInit, NoStatement, NoAudit
  <1>1. LedgerTypeOK
    <2>1. 0 \in Instants
      BY DEF Instants
    <2>2. /\ statement \in [stage : {"none", "txLines", "fxLines", "txBefore", "fxBefore", "done"},
                            from : Instants, to : Instants, lines : SUBSET Moves, opening : SUBSET Moves]
          /\ audit \in [stage : {"none", "ledger", "done"}, stored : Nat,
                        verdict : {"none", "balanced", "discrepancy"}]
      BY <2>1
    <2>3. dated \in [Moves -> Instants] /\ clock \in Instants
      BY <2>1
    <2> QED BY <2>2, <2>3 DEF LedgerTypeOK
  <1>2. MovesReal /\ SidesOfStatement /\ \A m \in throughout : FoundSoFar(m)
    BY DEF MovesReal, SidesOfStatement
  <1>3. AuditReal
    BY DEF AuditReal, DiscrepancyHasACause
  <1>4. BalanceReal
    <2>1. NotWhole = {} /\ applied = {} /\ balance = 0
      BY DEF NotWhole
    <2>2. Cardinality(NotWhole) = 0 /\ Adds(Deltas, applied) = 0
      BY <2>1, FS_EmptySet, AddsEmpty
    <2>3. SubUnits \in Nat /\ HalfCent \in Nat
      BY <1>1, LedgerFinite
    <2>4. Unrounded = 0
      BY <2>1, <2>2, <2>3 DEF Unrounded
    <2> QED BY <2>2, <2>3, <2>4 DEF BalanceReal
  <1> QED BY <1>1, <1>2, <1>3, <1>4 DEF LedgerInv

(* A step that applies nothing leaves what the balance adds up to. *)
LEMMA BalanceStill ==
    ASSUME BalanceReal, MovesReal, LedgerTypeOK, UNCHANGED <<applied, balance>>,
           \A m \in applied : kind'[m] = kind[m] /\ amount'[m] = amount[m]
    PROVE  BalanceReal'
  <1>1. \A m \in applied : Deltas'[m] = Deltas[m]
    BY DEF Deltas, Delta, LedgerTypeOK
  <1>2. NotWhole' = NotWhole
    BY <1>1 DEF NotWhole
  <1>3. Adds(Deltas, applied)' = Adds(Deltas, applied)
    <2>1. PICK g : g = Deltas'
      OBVIOUS
    <2>2. IsFiniteSet(applied) /\ \A m \in applied : Deltas[m] = g[m]
      BY <1>1, <2>1, LedgerFinite DEF LedgerTypeOK
    <2>3. Adds(Deltas, applied) = Adds(g, applied)
      BY <2>2, AddsSame
    <2> QED BY <2>1, <2>3
  <1>4. Unrounded' = Unrounded
    BY <1>3 DEF Unrounded
  <1> QED BY <1>2, <1>4 DEF BalanceReal

(* Every step preserves it. *)
LEMMA LedgerInvStep == LedgerInv /\ [LedgerNext]_ledgerVars => LedgerInv'
  <1> SUFFICES ASSUME LedgerInv, [LedgerNext]_ledgerVars PROVE LedgerInv'
    OBVIOUS
  <1> USE LedgerReportsAssumption DEF LedgerInv
  <1>1. ASSUME NEW m \in Moves, NEW k \in Kinds, NEW a \in Amounts, NEW instant \in Instants,
               record(m, k, a, instant)
        PROVE  LedgerInv'
    <2> USE <1>1 DEF record, ReportsUnchanged
    <2>1. LedgerTypeOK'
      BY DEF LedgerTypeOK, Noticed, Statuses
    <2>2. MovesReal'
      BY DEF LedgerTypeOK, MovesReal, Kinds, TxKinds, FxKinds, BareKinds
    <2>3. SidesOfStatement'
      BY DEF LedgerTypeOK, SidesOfStatement, InPeriod, Before
    <2>4. \A x \in throughout' : FoundSoFar(x)'
      <3> SUFFICES ASSUME NEW x \in throughout PROVE FoundSoFar(x)'
        OBVIOUS
      <3>1. FoundSoFar(x) /\ x # m /\ x \in Moves
        BY DEF LedgerTypeOK, MovesReal, FoundSoFar, InTable, Statuses, TxKinds, FxKinds
      <3>2. kind'[x] = kind[x] /\ rowOf'[x] = rowOf[x] /\ dated'[x] = dated[x]
        BY <3>1 DEF LedgerTypeOK
      <3> QED BY <3>1, <3>2 DEF FoundSoFar, InTable, InPeriod, Before
    <2>5. AuditReal'
      BY DEF LedgerTypeOK, AuditReal, DiscrepancyHasACause, Noticed
    <2>6. BalanceReal'
      <3>1. \A x \in applied : kind'[x] = kind[x] /\ amount'[x] = amount[x]
        BY DEF LedgerTypeOK, MovesReal
      <3> QED BY <3>1, BalanceStill
    <2> QED BY <2>1, <2>2, <2>3, <2>4, <2>5, <2>6
  <1>2. ASSUME NEW m \in Moves, apply(m) PROVE LedgerInv'
    <2> USE <1>2 DEF apply, ReportsUnchanged
    <2> DEFINE n == NewBalance(balance, Delta(m))
    <2>0. Delta(m) \in Int /\ balance \in Int
      BY LedgerFinite DEF LedgerTypeOK
    <2>a. /\ n \in Int
          /\ SubUnits * n - SubUnits * balance - Delta(m) <= HalfCent
          /\ SubUnits * balance + Delta(m) - SubUnits * n <= HalfCent
          /\ WholeCents(Delta(m)) => SubUnits * n = SubUnits * balance + Delta(m)
      <3>1. PICK b \in Int, x \in Int : b = balance /\ x = Delta(m)
        BY <2>0
      <3>2. /\ NewBalance(b, x) \in Int
            /\ SubUnits * NewBalance(b, x) - SubUnits * b - x <= HalfCent
            /\ SubUnits * b + x - SubUnits * NewBalance(b, x) <= HalfCent
            /\ WholeCents(x) => SubUnits * NewBalance(b, x) = SubUnits * b + x
        BY AdjustmentError
      <3> QED BY ONLY <3>1, <3>2
    <2>1. LedgerTypeOK'
      BY <2>a DEF LedgerTypeOK, Noticed
    <2>2. MovesReal' /\ SidesOfStatement'
      BY DEF LedgerTypeOK, MovesReal, SidesOfStatement, InPeriod, Before
    <2>3. \A x \in throughout' : FoundSoFar(x)'
      BY DEF FoundSoFar, InTable, InPeriod, Before
    <2>4. AuditReal'
      BY DEF LedgerTypeOK, AuditReal, DiscrepancyHasACause, Noticed
    <2>5. BalanceReal'
      <3> DEFINE w == IF WholeCents(Delta(m)) THEN 0 ELSE 1
                 step == SubUnits * n - SubUnits * balance - Delta(m)
      <3>1. Deltas' = Deltas /\ Deltas[m] = Delta(m)
        BY DEF Deltas, Delta
      <3>2. Adds(Deltas, applied)' = Delta(m) + Adds(Deltas, applied)
        <4>1. applied \cup {m} \in SUBSET Moves /\ (applied \cup {m}) \ {m} = applied /\ m \in applied \cup {m}
          BY DEF LedgerTypeOK
        <4>2. IsFiniteSet(applied \cup {m}) /\ \A x \in applied \cup {m} : Deltas[x] \in Int
          BY <4>1, LedgerFinite
        <4>3. Adds(Deltas, applied \cup {m}) = Deltas[m] + Adds(Deltas, (applied \cup {m}) \ {m})
          BY ONLY <4>1, <4>2, AddsSplit
        <4> QED BY <3>1, <4>1, <4>3
      <3>3. NotWhole' = IF WholeCents(Delta(m)) THEN NotWhole ELSE NotWhole \cup {m}
        BY <3>1 DEF NotWhole
      <3>4. m \notin NotWhole /\ IsFiniteSet(NotWhole) /\ Cardinality(NotWhole) \in Nat
        BY LedgerFinite DEF NotWhole
      <3>5. Cardinality(NotWhole)' = Cardinality(NotWhole) + w
        <4>1. CASE WholeCents(Delta(m))
          BY <3>3, <3>4, <4>1
        <4>2. CASE ~WholeCents(Delta(m))
          BY <3>3, <3>4, <4>2, OneMore
        <4> QED BY <4>1, <4>2
      <3>6. /\ HalfCent \in Nat /\ SubUnits \in Nat /\ SubUnits * balance \in Int /\ SubUnits * n \in Int
            /\ Adds(Deltas, applied) \in Int /\ Unrounded \in Int
            /\ HalfCent * Cardinality(NotWhole) \in Int
        <4>1. applied \in SUBSET Moves
          BY DEF LedgerTypeOK
        <4>2. /\ HalfCent \in Nat /\ SubUnits \in Nat /\ SubUnits * balance \in Int
              /\ Adds(Deltas, applied) \in Int /\ Unrounded \in Int
              /\ HalfCent * Cardinality(NotWhole) \in Int
          BY <4>1, LedgerFinite
        <4>3. SubUnits * n \in Int
          BY <2>a, <4>2
        <4> QED BY <4>2, <4>3
      <3>7. step \in Int /\ step <= HalfCent * w /\ -step <= HalfCent * w /\ w \in {0, 1}
        <4>1. step \in Int
          BY <2>0, <3>6
        <4>2. CASE WholeCents(Delta(m))
          <5>1. step = 0 /\ w = 0
            BY <2>0, <2>a, <3>6, <4>2
          <5> QED BY <3>6, <4>1, <5>1
        <4>3. CASE ~WholeCents(Delta(m))
          <5>1. w = 1 /\ HalfCent * 1 = HalfCent
            BY <3>6, <4>3
          <5>2. step <= HalfCent /\ -step <= HalfCent
            BY <2>0, <2>a, <3>6
          <5> QED BY <4>1, <5>1, <5>2
        <4> QED BY <4>2, <4>3
      <3>8. Unrounded' = Unrounded + step
        <4>1. Unrounded' = SubUnits * n - Adds(Deltas, applied)'
          BY DEF Unrounded
        <4>2. Unrounded = SubUnits * balance - Adds(Deltas, applied)
          BY DEF Unrounded
        <4> HIDE DEF n
        <4> QED BY <2>0, <3>2, <3>6, <4>1, <4>2
      <3> DEFINE c == Cardinality(NotWhole)
                 p == HalfCent * c
                 q == HalfCent * w
                 s == HalfCent * (c + w)
                 u == Unrounded
      <3>9. /\ p \in Int /\ q \in Int /\ s = p + q /\ u \in Int /\ u <= p /\ -u <= p
            /\ step \in Int /\ step <= q /\ -step <= q
        <4> HIDE DEF w, c, step
        <4>1. c \in Nat /\ w \in Nat
          BY <3>4, <3>7 DEF c
        <4>2. s = p + q /\ q \in Int
          BY <3>6, <4>1
        <4>3. p \in Int /\ u \in Int /\ u <= p /\ -u <= p
          BY <3>6 DEF BalanceReal, c
        <4> QED BY <3>7, <4>2, <4>3
      <3>10. Unrounded' = u + step /\ HalfCent * Cardinality(NotWhole)' = s
        BY <3>5, <3>8
      <3> HIDE DEF p, q, s, u, step
      <3>11. u + step <= s /\ -(u + step) <= s
        BY <3>9
      <3> QED BY <3>10, <3>11 DEF BalanceReal
    <2> QED BY <2>1, <2>2, <2>3, <2>4, <2>5
  <1>3. ASSUME NEW m \in Moves, NEW status \in Statuses, rowOf[m] \in Statuses,
               rowOf' = [rowOf EXCEPT ![m] = status], Noticed,
               UNCHANGED <<kind, amount, dated, applied, balance, clock, throughout>>, ReportsUnchanged
        PROVE  LedgerInv'
    <2> USE <1>3 DEF ReportsUnchanged
    <2>1. LedgerTypeOK'
      BY DEF LedgerTypeOK, Noticed
    <2>2. MovesReal' /\ SidesOfStatement'
      BY DEF LedgerTypeOK, MovesReal, SidesOfStatement, InPeriod, Before, Statuses
    <2>3. \A x \in throughout' : FoundSoFar(x)'
      BY DEF LedgerTypeOK, FoundSoFar, InTable, InPeriod, Before
    <2>4. AuditReal'
      BY DEF LedgerTypeOK, AuditReal, DiscrepancyHasACause, Noticed
    <2> QED BY <2>1, <2>2, <2>3, <2>4, BalanceStill
  <1>4. ASSUME NEW m \in Moves, complete(m) PROVE LedgerInv'
    BY <1>3, <1>4 DEF complete, Statuses
  <1>5. ASSUME NEW m \in Moves, NEW status \in Statuses, overrideTransactionStatus(m, status) PROVE LedgerInv'
    BY <1>3, <1>5 DEF overrideTransactionStatus, txRows, InTable
  <1>6. ASSUME NEW m \in Moves, archiveRow(m) PROVE LedgerInv'
    <2> USE <1>6 DEF archiveRow, ReportsUnchanged
    <2>1. LedgerTypeOK'
      BY DEF LedgerTypeOK, Noticed
    <2>2. MovesReal' /\ SidesOfStatement'
      BY DEF LedgerTypeOK, MovesReal, SidesOfStatement, InPeriod, Before, txRows, InTable, Statuses
    <2>3. \A x \in throughout' : FoundSoFar(x)'
      BY DEF LedgerTypeOK, FoundSoFar, InTable, InPeriod, Before
    <2>4. AuditReal'
      BY DEF LedgerTypeOK, AuditReal, DiscrepancyHasACause, Noticed
    <2> QED BY <2>1, <2>2, <2>3, <2>4, BalanceStill
  <1>7. ASSUME RecordsUnchanged PROVE BalanceReal'
    BY <1>7, BalanceStill DEF RecordsUnchanged
  <1>8. CASE passInstant
    <2> USE <1>8 DEF passInstant, ReportsUnchanged
    <2>1. BalanceReal'
      BY BalanceStill
    <2>2. LedgerTypeOK'
      BY DEF LedgerTypeOK, Instants
    <2>3. MovesReal' /\ SidesOfStatement' /\ \A x \in throughout' : FoundSoFar(x)'
      BY DEF MovesReal, SidesOfStatement, InPeriod, Before, FoundSoFar, InTable
    <2>4. AuditReal'
      BY DEF AuditReal, DiscrepancyHasACause, Counted, txRows, InTable
    <2> QED BY <2>1, <2>2, <2>3, <2>4
  <1>9. ASSUME NEW from \in Days, NEW to \in Days, generateStatement(from, to) PROVE LedgerInv'
    <2> USE <1>9 DEF generateStatement, NoStatement, OtherUnchanged, RecordsUnchanged
    <2>0. Midnight(from) \in Instants /\ Midnight(to) \in Instants
      BY DEF Midnight, Days
    <2>1. LedgerTypeOK'
      BY <2>0 DEF LedgerTypeOK, InTable
    <2>2. MovesReal' /\ SidesOfStatement' /\ AuditReal'
      BY DEF MovesReal, SidesOfStatement, AuditReal, DiscrepancyHasACause, Counted, txRows, InTable
    <2>3. \A x \in throughout' : FoundSoFar(x)'
      BY DEF FoundSoFar, InTable
    <2> QED BY <1>7, <2>1, <2>2, <2>3
  <1>10. CASE buildStatement
    <2>1. /\ RecordsUnchanged /\ UNCHANGED <<audit, moved, throughout>>
      BY <1>10 DEF buildStatement, collectStatementLines, calculateBalanceBefore, OtherUnchanged
    <2>2. MovesReal' /\ AuditReal' /\ BalanceReal'
      BY <1>7, <2>1 DEF RecordsUnchanged, MovesReal, AuditReal, DiscrepancyHasACause, Counted, txRows, InTable
    <2>a. /\ \A x \in txRows : x \in Moves /\ kind[x] # "none" /\ kind[x] \in TxKinds
          /\ \A x \in fxRows : x \in Moves /\ kind[x] # "none" /\ kind[x] \in FxKinds
          /\ \A x \in InTable : (kind[x] \in TxKinds => x \in txRows) /\ (kind[x] \in FxKinds => x \in fxRows)
          /\ TxKinds \cap FxKinds = {}
      BY DEF txRows, fxRows, InTable, TxKinds, FxKinds
    <2>3. CASE collectStatementLines("txLines", txRows, "fxLines")
      BY <2>1, <2>2, <2>3, <2>a DEF collectStatementLines, RecordsUnchanged, LedgerTypeOK,
            SidesOfStatement, InPeriod, Before, FoundSoFar, InTable
    <2>4. CASE collectStatementLines("fxLines", fxRows, "txBefore")
      BY <2>1, <2>2, <2>4, <2>a DEF collectStatementLines, RecordsUnchanged, LedgerTypeOK,
            SidesOfStatement, InPeriod, Before, FoundSoFar, InTable
    <2>5. CASE calculateBalanceBefore("txBefore", txRows, "fxBefore")
      BY <2>1, <2>2, <2>5, <2>a DEF calculateBalanceBefore, RecordsUnchanged, LedgerTypeOK,
            SidesOfStatement, InPeriod, Before, FoundSoFar, InTable
    <2>6. CASE calculateBalanceBefore("fxBefore", fxRows, "done")
      BY <2>1, <2>2, <2>6, <2>a DEF calculateBalanceBefore, RecordsUnchanged, LedgerTypeOK,
            SidesOfStatement, InPeriod, Before, FoundSoFar, InTable
    <2> QED BY <1>10, <2>3, <2>4, <2>5, <2>6 DEF buildStatement
  <1>11. CASE readWallet
    <2> USE <1>11 DEF readWallet, NoAudit, RecordsUnchanged
    <2>1. LedgerTypeOK'
      BY DEF LedgerTypeOK
    <2>2. MovesReal' /\ SidesOfStatement' /\ \A x \in throughout' : FoundSoFar(x)'
      BY DEF MovesReal, SidesOfStatement, InPeriod, Before, FoundSoFar, InTable
    <2>3. AuditReal'
      BY DEF AuditReal, DiscrepancyHasACause
    <2> QED BY <1>7, <2>1, <2>2, <2>3
  <1>12. CASE compare
    <2> USE <1>12 DEF compare, RecordsUnchanged
    <2>1. LedgerTypeOK'
      BY DEF LedgerTypeOK
    <2>2. MovesReal' /\ SidesOfStatement' /\ \A x \in throughout' : FoundSoFar(x)'
      BY DEF MovesReal, SidesOfStatement, InPeriod, Before, FoundSoFar, InTable
    <2>3. DiscrepancyHasACause'
      <3> SUFFICES ASSUME audit'.verdict = "discrepancy", ~moved, applied = Counted,
                          \A m \in Counted : kind[m] = "received",
                          ~ Cardinality({m \in applied : ~WholeCents(amount[m])}) > 2
                   PROVE  FALSE
        BY DEF DiscrepancyHasACause, Counted, txRows, InTable
      <3>1. audit.stored = balance
        BY DEF AuditReal
      <3>2. ~ (LedgerBalance - SubUnits * audit.stored \in -TOLERANCE..TOLERANCE)
        BY DEF LedgerTypeOK
      <3>3. Cardinality({m \in applied : ~WholeCents(amount[m])}) <= 2
        <4>1. {m \in applied : ~WholeCents(amount[m])} \in SUBSET Moves
          BY DEF LedgerTypeOK
        <4>2. Cardinality({m \in applied : ~WholeCents(amount[m])}) \in Nat
          BY <4>1, LedgerFinite
        <4> QED BY <4>2
      <3> QED BY <3>1, <3>2, <3>3, ReceiptsBalance
    <2>4. AuditReal'
      BY <2>3 DEF AuditReal, LedgerTypeOK
    <2> QED BY <1>7, <2>1, <2>2, <2>4
  <1>13. CASE UNCHANGED ledgerVars
    <2> USE <1>13 DEF ledgerVars
    <2>1. BalanceReal'
      BY BalanceStill
    <2>2. LedgerTypeOK' /\ MovesReal' /\ SidesOfStatement' /\ \A x \in throughout' : FoundSoFar(x)'
      BY DEF LedgerTypeOK, MovesReal, SidesOfStatement, InPeriod, Before, FoundSoFar, InTable
    <2>3. AuditReal'
      BY DEF AuditReal, DiscrepancyHasACause, Counted, txRows, InTable
    <2> QED BY <2>1, <2>2, <2>3
  <1> QED BY <1>1, <1>2, <1>4, <1>5, <1>6, <1>8, <1>9, <1>10, <1>11, <1>12, <1>13 DEF LedgerNext

(* Statements count no movement twice, and exactly those of the rows there *)
(* throughout that are dated up to the start of their last day; the        *)
(* nightly comparisons report a wallet only for a reason, rounding among   *)
(* them, however many movements come in between their queries.             *)
THEOREM ReportsFounded == LedgerSpec => []ReportsAreFounded
  <1>1. LedgerInv => ReportsAreFounded
    <2> SUFFICES ASSUME LedgerInv PROVE StatementCountsOnce
      BY DEF LedgerInv, AuditReal, ReportsAreFounded
    <2>1. \A m \in Moves : dated[m] \in Int /\ statement.from \in Int /\ statement.to \in Int
      BY LedgerReportsAssumption DEF LedgerInv, LedgerTypeOK, Instants
    <2>2. statement.opening \cap statement.lines = {}
      BY <2>1 DEF LedgerInv, LedgerTypeOK, SidesOfStatement, InPeriod, Before
    <2>3. ASSUME statement.stage = "done", statement.from <= statement.to, NEW m \in throughout
          PROVE  m \in statement.opening \cup statement.lines <=> dated[m] <= statement.to
      <3>1. m \in Moves /\ FoundSoFar(m) /\ kind[m] \in TxKinds \cup FxKinds
        BY DEF LedgerInv, LedgerTypeOK, MovesReal, FoundSoFar, InTable, Statuses
      <3>2. dated[m] <= statement.to => m \in statement.opening \cup statement.lines
        BY <2>1, <2>3, <3>1 DEF FoundSoFar, InPeriod, Before
      <3>3. m \in statement.opening \cup statement.lines => dated[m] <= statement.to
        BY <2>1, <2>3, <3>1 DEF LedgerInv, SidesOfStatement, InPeriod, Before
      <3> QED BY <3>2, <3>3
    <2> QED BY <2>2, <2>3 DEF StatementCountsOnce
  <1> QED BY <1>1, LedgerInvInit, LedgerInvStep, PTL DEF LedgerSpec

----------------------------------------------------------------------------
(* Listings. *)

(* The order of a listing is a total order of the rows. *)
LEMMA ListingOrder ==
    /\ \A q \in RowIds : NotAfter(q, q)
    /\ \A q, r \in RowIds : NotAfter(q, r) \/ NotAfter(r, q)
    /\ \A q, r \in RowIds : NotAfter(q, r) /\ NotAfter(r, q) => q = r
    /\ \A p, q, r \in RowIds : NotAfter(p, q) /\ NotAfter(q, r) => NotAfter(p, r)
  BY ListingsAssumption DEF NotAfter, RowIds

(* Sets of rows are finite and are counted as such. *)
LEMMA RowSets ==
    ASSUME NEW S \in SUBSET RowIds, NEW T \in SUBSET S
    PROVE  /\ IsFiniteSet(S) /\ IsFiniteSet(T)
           /\ Cardinality(S) \in Nat /\ Cardinality(T) \in Nat
           /\ Cardinality(T) <= Cardinality(S)
           /\ Cardinality(T) = Cardinality(S) => T = S
  <1>1. IsFiniteSet(RowIds)
    BY ListingsAssumption, FS_Interval DEF RowIds
  <1>2. IsFiniteSet(S)
    BY <1>1, FS_Subset
  <1>3. IsFiniteSet(T) /\ Cardinality(T) <= Cardinality(S) /\ (Cardinality(S) = Cardinality(T) => S = T)
    BY <1>2, FS_Subset
  <1> QED BY <1>2, <1>3, FS_CardinalityType

(* Sets without a common row are counted one after the other. *)
LEMMA RowsApart ==
    ASSUME NEW S \in SUBSET RowIds, NEW A \in SUBSET S, NEW B \in SUBSET S, A \cap B = {}
    PROVE  /\ Cardinality(A) \in Nat /\ Cardinality(B) \in Nat /\ Cardinality(S) \in Nat
           /\ Cardinality(A \cup B) = Cardinality(A) + Cardinality(B)
           /\ Cardinality(A) + Cardinality(B) <= Cardinality(S)
  <1>1. A \cup B \in SUBSET S /\ A \in SUBSET (A \cup B) /\ B \in SUBSET (A \cup B)
    OBVIOUS
  <1>2. /\ IsFiniteSet(A) /\ IsFiniteSet(B) /\ Cardinality(A) \in Nat /\ Cardinality(B) \in Nat
        /\ Cardinality(S) \in Nat /\ Cardinality(A \cup B) <= Cardinality(S)
    BY <1>1, RowSets
  <1>3. Cardinality(A \cup B) = Cardinality(A) + Cardinality(B) - Cardinality(A \cap B)
    BY <1>2, FS_Union
  <1> QED BY <1>2, <1>3, FS_EmptySet

(* A union has no more rows than its parts together. *)
LEMMA RowsTogether ==
    ASSUME NEW A \in SUBSET RowIds, NEW B \in SUBSET RowIds
    PROVE  /\ Cardinality(A) \in Nat /\ Cardinality(B) \in Nat /\ Cardinality(A \cup B) \in Nat
           /\ Cardinality(A \cup B) <= Cardinality(A) + Cardinality(B)
  <1>1. /\ IsFiniteSet(A) /\ IsFiniteSet(B) /\ Cardinality(A) \in Nat /\ Cardinality(B) \in Nat
        /\ Cardinality(A \cup B) \in Nat
    BY RowSets
  <1>2. Cardinality(A \cup B) = Cardinality(A) + Cardinality(B) - Cardinality(A \cap B)
    BY <1>1, FS_Union
  <1>3. Cardinality(A \cap B) \in Nat
    BY RowSets
  <1> QED BY <1>1, <1>2, <1>3

(* Ranks run from 1 to the number of rows, in the order of the listing. *)
LEMMA Ranks ==
    ASSUME NEW S \in SUBSET RowIds
    PROVE  /\ \A r \in S : Rank(r, S) \in 1..Cardinality(S)
           /\ \A q, r \in S : NotAfter(q, r) <=> Rank(q, S) <= Rank(r, S)
           /\ \A q, r \in S : Rank(q, S) = Rank(r, S) => q = r
           /\ \A i \in 1..Cardinality(S) : \E r \in S : Rank(r, S) = i
  <1>1. ASSUME NEW r \in S PROVE Rank(r, S) \in 1..Cardinality(S)
    <2>1. Upto(r, S) \in SUBSET S /\ r \in Upto(r, S)
      BY ListingOrder DEF Upto
    <2>2. Rank(r, S) \in Nat /\ Rank(r, S) <= Cardinality(S) /\ Cardinality(S) \in Nat
          /\ IsFiniteSet(Upto(r, S))
      BY <2>1, RowSets DEF Rank
    <2>3. Rank(r, S) # 0
      BY <2>1, <2>2, FS_EmptySet DEF Rank
    <2> QED BY <2>2, <2>3
  <1>2. ASSUME NEW q \in S, NEW r \in S, NotAfter(q, r)
        PROVE  Rank(q, S) <= Rank(r, S) /\ (Rank(q, S) = Rank(r, S) => q = r)
    <2>1. /\ Upto(q, S) \in SUBSET Upto(r, S) /\ Upto(r, S) \in SUBSET RowIds
          /\ r \in Upto(r, S)
      BY <1>2, ListingOrder DEF Upto
    <2>2. /\ Rank(q, S) <= Rank(r, S)
          /\ Rank(q, S) = Rank(r, S) => Upto(q, S) = Upto(r, S)
      BY <2>1, RowSets DEF Rank
    <2>3. r \in Upto(q, S) => q = r
      BY <1>2, ListingOrder DEF Upto
    <2> QED BY <2>1, <2>2, <2>3
  <1>3. \A q, r \in S : Rank(q, S) = Rank(r, S) => q = r
    BY <1>2, ListingOrder
  <1>4. ASSUME NEW q \in S, NEW r \in S, Rank(q, S) <= Rank(r, S) PROVE NotAfter(q, r)
    <2> SUFFICES ASSUME ~NotAfter(q, r) PROVE FALSE
      OBVIOUS
    <2>1. NotAfter(r, q) /\ q # r
      BY ListingOrder
    <2>2. Rank(r, S) <= Rank(q, S) /\ (Rank(q, S) = Rank(r, S) => q = r)
      BY <1>2, <2>1
    <2>3. Rank(q, S) \in Nat /\ Rank(r, S) \in Nat
      BY <1>1
    <2> QED BY <1>4, <2>1, <2>2, <2>3
  <1>5. \A i \in 1..Cardinality(S) : \E r \in S : Rank(r, S) = i
    <2> DEFINE n == Cardinality(S)
               f == [r \in S |-> Rank(r, S)]
    <2>1. n \in Nat /\ IsFiniteSet(1..n) /\ Cardinality(1..n) = n
      BY RowSets, FS_Interval
    <2>2. f \in Injection(S, 1..n)
      BY <1>1, <1>3 DEF Injection, IsInjective
    <2>3. f \in Surjection(S, 1..n)
      <3>1. Cardinality(S) = Cardinality(1..n)
        BY <2>1
      <3> HIDE DEF f
      <3> QED BY <2>1, <2>2, <3>1, FS_Injection
    <2> QED BY <2>3 DEF Surjection
  <1> QED BY <1>1, <1>2, <1>3, <1>4, <1>5

(* The first n rows: n of them, or all when there are not so many. *)
LEMMA FirstRows ==
    ASSUME NEW S \in SUBSET RowIds, NEW n \in Nat
    PROVE  /\ AmongFirst(n, S) \in SUBSET S
           /\ n <= Cardinality(S) => Cardinality(AmongFirst(n, S)) = n
           /\ n >= Cardinality(S) => AmongFirst(n, S) = S
           /\ Cardinality(AmongFirst(n, S)) \in Nat
           /\ Cardinality(AmongFirst(n, S)) <= n
           /\ Cardinality(S) \in Nat
  <1>0. AmongFirst(n, S) \in SUBSET S
    BY DEF AmongFirst
  <1>1. /\ Cardinality(S) \in Nat /\ Cardinality(AmongFirst(n, S)) \in Nat
        /\ Cardinality(AmongFirst(n, S)) <= Cardinality(S)
    BY <1>0, RowSets
  <1>2. ASSUME n <= Cardinality(S) PROVE Cardinality(AmongFirst(n, S)) = n
    <2>1. CASE n = 0
      <3>1. AmongFirst(n, S) = {}
        BY <2>1, Ranks DEF AmongFirst
      <3> QED BY <2>1, <3>1, FS_EmptySet
    <2>2. CASE n # 0
      <3>1. PICK y \in S : Rank(y, S) = n
        BY <1>1, <1>2, <2>2, Ranks
      <3>2. AmongFirst(n, S) = Upto(y, S)
        BY <3>1, Ranks DEF AmongFirst, Upto
      <3> QED BY <3>1, <3>2 DEF Rank
    <2> QED BY <2>1, <2>2
  <1>3. ASSUME n >= Cardinality(S) PROVE AmongFirst(n, S) = S
    BY <1>1, <1>3, Ranks DEF AmongFirst
  <1> QED BY <1>0, <1>1, <1>2, <1>3

(* The sorted rows. *)
LEMMA SortedRows ==
    ASSUME NEW S \in SUBSET RowIds
    PROVE  /\ Sorted(S) \in Seq(S) /\ Len(Sorted(S)) = Cardinality(S)
           /\ \A i \in 1..Cardinality(S) : Sorted(S)[i] \in S /\ Rank(Sorted(S)[i], S) = i
  <1>1. Cardinality(S) \in Nat
    BY RowSets
  <1>2. ASSUME NEW i \in 1..Cardinality(S)
        PROVE  Sorted(S)[i] \in S /\ Rank(Sorted(S)[i], S) = i
    <2>1. \E r \in S : Rank(r, S) = i
      BY Ranks
    <2>2. Sorted(S)[i] = CHOOSE r \in S : Rank(r, S) = i
      BY DEF Sorted
    <2> QED BY <2>1, <2>2
  <1>3. Sorted(S) \in [1..Cardinality(S) -> S]
    BY <1>2 DEF Sorted
  <1> HIDE DEF Sorted
  <1> QED BY <1>1, <1>2, <1>3

(* The rows of a query with OFFSET and LIMIT are those of its ranks; when  *)
(* there are fewer than the limit, no row comes after them.                *)
LEMMA PageRows ==
    ASSUME ListingsTypeOK
    PROVE  /\ Visible \in SUBSET RowIds /\ Cursor \in Nat /\ scan.limit \in Nat
           /\ Page \in Seq(RowIds) /\ Len(Page) <= scan.limit
           /\ ToSet(Page) = AmongFirst(Cursor + scan.limit, Visible) \ AmongFirst(Cursor, Visible)
           /\ Len(Page) = 0 \/ Cursor + Len(Page) <= Cardinality(Visible)
           /\ Len(Page) < scan.limit => AmongFirst(Cursor + scan.limit, Visible) = Visible
  <1> DEFINE V == Visible
             C == Cursor
             l == scan.limit
             m == Cardinality(V)
             z == IF C + l <= m THEN C + l ELSE m
  <1>1. V \in SUBSET RowIds
    BY DEF ListingsTypeOK, Visible
  <1>2. scan.page \in Nat /\ l \in Nat
    BY DEF ListingsTypeOK
  <1>3. C \in Nat
    BY <1>2 DEF Cursor
  <1>4. m \in Nat
    BY <1>1, RowSets
  <1>5. /\ Sorted(V) \in Seq(V) /\ Len(Sorted(V)) = m
        /\ \A i \in 1..m : Sorted(V)[i] \in V /\ Rank(Sorted(V)[i], V) = i
    BY <1>1, SortedRows
  <1>6. Page = SubSeq(Sorted(V), C + 1, z)
    BY DEF Page
  <1> HIDE DEF V, C, l, m
  <1>7. z \in Nat /\ z <= m /\ z <= C + l /\ (z < C + l => z = m)
    BY <1>2, <1>3, <1>4
  <1> HIDE DEF z
  <1>8. /\ Page \in Seq(V) /\ Len(Page) = (IF C + 1 <= z THEN z - C ELSE 0)
        /\ \A i \in 1..Len(Page) : Page[i] = Sorted(V)[C + i]
    BY <1>3, <1>5, <1>6, <1>7
  <1>9. Page \in Seq(RowIds)
    BY <1>1, <1>8
  <1>10. \A i \in 1..Len(Page) : C + i \in 1..m
    BY <1>3, <1>4, <1>7, <1>8
  <1>11. Len(Page) \in Nat /\ Len(Page) <= l /\ (Len(Page) < l => C + l > m)
    BY <1>2, <1>3, <1>4, <1>7, <1>8
  <1>12. Len(Page) < l => AmongFirst(C + l, V) = V
    BY <1>1, <1>2, <1>3, <1>4, <1>11, FirstRows DEF m
  <1>13. ToSet(Page) = AmongFirst(C + l, V) \ AmongFirst(C, V)
    <2>1. ToSet(Page) = {Page[i] : i \in 1..Len(Page)}
      BY <1>8 DEF ToSet
    <2>2. ASSUME NEW i \in 1..Len(Page)
          PROVE  Page[i] \in AmongFirst(C + l, V) \ AmongFirst(C, V)
      <3>1. Page[i] \in V /\ Rank(Page[i], V) = C + i
        BY <1>5, <1>8, <1>10
      <3>2. C + i <= C + l /\ C + i > C
        BY <1>2, <1>3, <1>11
      <3> QED BY <1>3, <3>1, <3>2 DEF AmongFirst
    <2>3. ASSUME NEW x \in AmongFirst(C + l, V) \ AmongFirst(C, V)
          PROVE  \E i \in 1..Len(Page) : Page[i] = x
      <3>1. x \in V /\ Rank(x, V) \in 1..m
        BY <1>1, Ranks DEF AmongFirst, m
      <3>2. Rank(x, V) <= C + l /\ Rank(x, V) > C
        BY <1>2, <1>3, <3>1 DEF AmongFirst
      <3> DEFINE i == Rank(x, V) - C
      <3>3. i \in 1..Len(Page) /\ C + i = Rank(x, V)
        BY <1>2, <1>3, <1>4, <1>7, <1>8, <3>1, <3>2
      <3>4. Page[i] = Sorted(V)[C + i]
        BY <1>8, <3>3
      <3>5. Sorted(V)[C + i] \in V /\ Rank(Sorted(V)[C + i], V) = Rank(x, V)
        BY <1>5, <1>10, <3>3
      <3>6. Sorted(V)[C + i] = x
        BY <1>1, <3>1, <3>5, Ranks
      <3> QED BY <3>3, <3>4, <3>6
    <2> QED BY <2>1, <2>2, <2>3
  <1>14. Len(Page) = 0 \/ C + Len(Page) <= m
    BY <1>3, <1>4, <1>7, <1>8
  <1> QED BY <1>1, <1>2, <1>3, <1>9, <1>11, <1>12, <1>13, <1>14 DEF V, C, l, m

(* Rows slip into the part already read only for rows that leave it. *)
LEMMA SlippedRows ==
    ASSUME NEW V \in SUBSET RowIds, NEW W \in SUBSET RowIds, NEW C \in Nat
    PROVE  LET N == (AmongFirst(C, W) \cap V) \ AmongFirst(C, V)
               D == AmongFirst(C, V) \ W
           IN Cardinality(N) \in Nat /\ Cardinality(D) \in Nat /\ Cardinality(N) <= Cardinality(D)
  <1> DEFINE N == (AmongFirst(C, W) \cap V) \ AmongFirst(C, V)
             D == AmongFirst(C, V) \ W
             Z == AmongFirst(C, V) \cap W
  <1>0. /\ AmongFirst(C, V) \in SUBSET V /\ AmongFirst(C, W) \in SUBSET W
        /\ AmongFirst(C, V) \in SUBSET RowIds /\ AmongFirst(C, W) \in SUBSET RowIds
    BY DEF AmongFirst
  <1>1. Cardinality(N) \in Nat /\ Cardinality(D) \in Nat /\ Cardinality(Z) \in Nat
    BY <1>0, RowSets
  <1>2. CASE N = {}
    BY <1>1, <1>2, FS_EmptySet
  <1>3. CASE N # {}
    <2>1. PICK x \in N : TRUE
      BY <1>3
    <2>2. Cardinality(V) \in Nat /\ Cardinality(V) > C
      <3>1. AmongFirst(C, V) # V
        BY <2>1
      <3> QED BY <3>1, FirstRows
    <2>3. Cardinality(AmongFirst(C, V)) = C
      BY <2>2, FirstRows
    <2>4. Cardinality(Z) + Cardinality(D) = C
      <3>1. Z \cup D = AmongFirst(C, V) /\ Z \cap D = {} /\ Z \in SUBSET AmongFirst(C, V)
            /\ D \in SUBSET AmongFirst(C, V)
        OBVIOUS
      <3> HIDE DEF Z, D
      <3>2. Cardinality(Z \cup D) = Cardinality(Z) + Cardinality(D)
        BY <1>0, <3>1, RowsApart
      <3> QED BY <2>3, <3>1, <3>2
    <2>5. Z \in SUBSET AmongFirst(C, W)
      <3> SUFFICES ASSUME NEW y \in Z PROVE Rank(y, W) <= C
        BY DEF AmongFirst
      <3>1. /\ x \in V /\ x \in W /\ y \in V /\ y \in W /\ Rank(x, W) <= C
            /\ Rank(y, V) <= C /\ ~(Rank(x, V) <= C)
        BY <2>1 DEF AmongFirst
      <3>2. Rank(x, V) \in Nat /\ Rank(y, V) \in Nat /\ Rank(x, W) \in Nat /\ Rank(y, W) \in Nat
        BY <3>1, Ranks
      <3>3. Rank(y, V) <= Rank(x, V)
        BY <3>1, <3>2
      <3>4. NotAfter(y, x)
        BY <3>1, <3>3, Ranks
      <3>5. Rank(y, W) <= Rank(x, W)
        BY <3>1, <3>4, Ranks
      <3> QED BY <3>1, <3>2, <3>5
    <2>6. Cardinality(Z) + Cardinality(N) <= Cardinality(AmongFirst(C, W))
      <3>1. N \in SUBSET AmongFirst(C, W) /\ Z \cap N = {}
        OBVIOUS
      <3> HIDE DEF Z, N
      <3> QED BY <1>0, <2>5, <3>1, RowsApart
    <2>7. Cardinality(AmongFirst(C, W)) \in Nat /\ Cardinality(AmongFirst(C, W)) <= C
      BY FirstRows
    <2> HIDE DEF Z, N, D
    <2>8. Cardinality(N) <= Cardinality(D)
      BY <1>1, <2>4, <2>6, <2>7
    <2> QED BY <1>1, <2>8 DEF N, D
  <1> QED BY <1>1, <1>2, <1>3

(* Up to every row within the first C of V, the rows R that were read are  *)
(* as many as the rows that are there, but for n.                          *)
ReadOver(V, C, R, n) == \A x \in RowIds : Rank(x, V) <= C => Rank(x, V) <= Rank(x, R) + n

(* Rows of a set up to a row, counted. *)
LEMMA RankTypes ==
    ASSUME NEW S \in SUBSET RowIds, NEW T \in SUBSET S, NEW x \in RowIds
    PROVE  /\ Rank(x, S) \in Nat /\ Rank(x, T) \in Nat /\ Rank(x, T) <= Rank(x, S)
           /\ Upto(x, S) \in SUBSET S /\ Upto(x, S) \in SUBSET RowIds
           /\ Rank(x, S) <= Cardinality(S) /\ Cardinality(S) \in Nat
  <1>1. /\ Upto(x, T) \in SUBSET Upto(x, S) /\ Upto(x, S) \in SUBSET S
        /\ Upto(x, S) \in SUBSET RowIds
    BY DEF Upto
  <1> QED BY <1>1, RowSets DEF Rank

(* A row up to which there are exactly C rows, where there are more. *)
LEMMA RankReached ==
    ASSUME NEW V \in SUBSET RowIds, NEW C \in Nat \ {0}, NEW x \in RowIds, Rank(x, V) > C
    PROVE  \E y \in V : Rank(y, V) = C /\ NotAfter(y, x)
  <1>1. Rank(x, V) \in Nat /\ Rank(x, V) <= Cardinality(V) /\ Cardinality(V) \in Nat
    BY RankTypes
  <1>2. PICK y \in V : Rank(y, V) = C
    BY <1>1, Ranks
  <1>3. ASSUME ~NotAfter(y, x) PROVE FALSE
    <2>1. NotAfter(x, y)
      BY <1>3, ListingOrder
    <2>2. Upto(x, V) \in SUBSET Upto(y, V)
      BY <2>1, ListingOrder DEF Upto
    <2>3. Rank(x, V) <= Rank(y, V)
      BY <2>2, RankTypes, RowSets DEF Rank
    <2> QED BY <1>1, <1>2, <2>3
  <1> QED BY <1>2, <1>3

(* Ranks grow along the order, in any set. *)
LEMMA RankGrows ==
    ASSUME NEW S \in SUBSET RowIds, NEW x \in RowIds, NEW y \in RowIds, NotAfter(y, x)
    PROVE  Upto(y, S) \in SUBSET Upto(x, S) /\ Rank(y, S) <= Rank(x, S)
  <1>1. Upto(y, S) \in SUBSET Upto(x, S)
    BY ListingOrder DEF Upto
  <1> QED BY <1>1, RankTypes, RowSets DEF Rank

(* Rows that change leave the part already read covered, but for those     *)
(* that enter it.                                                          *)
LEMMA ReadOverWitness ==
    ASSUME NEW V \in SUBSET RowIds, NEW W \in SUBSET RowIds, NEW C \in Nat,
           NEW R \in SUBSET RowIds, NEW n \in Nat, ReadOver(V, C, R, n)
    PROVE  /\ Cardinality(AmongFirst(C, W) \ V) \in Nat
           /\ ReadOver(W, C, R, n + Cardinality(AmongFirst(C, W) \ V))
  <1> DEFINE E == AmongFirst(C, W) \ V
  <1>0. E \in SUBSET RowIds
    BY DEF AmongFirst
  <1>1. Cardinality(E) \in Nat
    BY <1>0, RowSets
  <1>2. ASSUME NEW x \in RowIds, Rank(x, W) <= C
        PROVE  Rank(x, W) <= Rank(x, R) + (n + Cardinality(E))
    <2>0. Rank(x, W) \in Nat /\ Rank(x, V) \in Nat /\ Rank(x, R) \in Nat
      BY RankTypes
    <2>1. CASE Rank(x, V) <= C
      <3> DEFINE A == Upto(x, W) \cap V
                 B == Upto(x, W) \ V
      <3>1. A \in SUBSET Upto(x, V) /\ Upto(x, V) \in SUBSET RowIds
        BY DEF Upto
      <3>2. Cardinality(A) \in Nat /\ Cardinality(A) <= Rank(x, V)
        BY <3>1, RowSets DEF Rank
      <3>3. B \in SUBSET E
        <4> SUFFICES ASSUME NEW y \in Upto(x, W) PROVE Rank(y, W) <= C
          BY DEF AmongFirst, Upto
        <4>1. y \in W /\ NotAfter(y, x)
          BY DEF Upto
        <4>2. Rank(y, W) <= Rank(x, W) /\ Rank(y, W) \in Nat
          BY <4>1, RankGrows, RankTypes
        <4> QED BY <1>2, <2>0, <4>2
      <3>4. Cardinality(B) \in Nat /\ Cardinality(B) <= Cardinality(E)
        BY <1>0, <3>3, RowSets
      <3>5. Rank(x, W) <= Cardinality(A) + Cardinality(B)
        <4>1. A \in SUBSET RowIds /\ B \in SUBSET RowIds /\ Upto(x, W) = A \cup B
          BY DEF Upto
        <4> HIDE DEF A, B
        <4> QED BY <4>1, RowsTogether DEF Rank
      <3>6. Rank(x, V) <= Rank(x, R) + n
        BY <2>1 DEF ReadOver
      <3> HIDE DEF A, B, E
      <3> QED BY <1>1, <2>0, <3>2, <3>4, <3>5, <3>6
    <2>2. CASE Rank(x, V) > C /\ C # 0
      <3>1. PICK y \in V : Rank(y, V) = C /\ NotAfter(y, x)
        BY <2>2, RankReached
      <3>2. C <= Rank(y, R) + n
        BY <3>1 DEF ReadOver
      <3>3. Rank(y, R) <= Rank(x, R) /\ Rank(y, R) \in Nat
        BY <3>1, RankGrows, RankTypes
      <3> HIDE DEF E
      <3> QED BY <1>1, <1>2, <2>0, <3>2, <3>3
    <2>3. CASE C = 0
      <3> HIDE DEF E
      <3> QED BY <1>1, <1>2, <2>0, <2>3
    <2> QED BY <2>0, <2>1, <2>2, <2>3
  <1> QED BY <1>1, <1>2 DEF ReadOver

(* The next page keeps it covered. *)
LEMMA ReadOverPage ==
    ASSUME NEW V \in SUBSET RowIds, NEW C \in Nat, NEW l \in Nat,
           NEW R \in SUBSET RowIds, NEW n \in Nat, ReadOver(V, C, R, n),
           NEW P, P = AmongFirst(C + l, V) \ AmongFirst(C, V)
    PROVE  ReadOver(V, C + l, R \cup P, n)
  <1>0. P \in SUBSET RowIds /\ R \cup P \in SUBSET RowIds /\ R \in SUBSET (R \cup P)
    BY DEF AmongFirst
  <1> SUFFICES ASSUME NEW x \in RowIds, Rank(x, V) <= C + l
               PROVE  Rank(x, V) <= Rank(x, R \cup P) + n
    BY DEF ReadOver
  <1>1. /\ Rank(x, V) \in Nat /\ Rank(x, R) \in Nat /\ Rank(x, R \cup P) \in Nat
        /\ Rank(x, R) <= Rank(x, R \cup P)
    BY <1>0, RankTypes
  <1>2. CASE Rank(x, V) <= C
    <2>1. Rank(x, V) <= Rank(x, R) + n
      BY <1>2 DEF ReadOver
    <2> QED BY <1>1, <2>1
  <1>3. \A y \in Upto(x, V) : y \in V /\ NotAfter(y, x) /\ Rank(y, V) <= C + l
    <2> TAKE y \in Upto(x, V)
    <2>1. y \in V /\ NotAfter(y, x)
      BY DEF Upto
    <2>2. Rank(y, V) <= Rank(x, V) /\ Rank(y, V) \in Nat
      BY <2>1, RankGrows, RankTypes
    <2> QED BY <1>1, <2>1, <2>2
  <1>4. CASE Rank(x, V) > C /\ C # 0
    <2>1. PICK y \in V : Rank(y, V) = C /\ NotAfter(y, x)
      BY <1>4, RankReached
    <2>2. C <= Rank(y, R) + n
      BY <2>1 DEF ReadOver
    <2> DEFINE A == Upto(y, R)
               B == Upto(x, V) \ Upto(y, V)
    <2>3. A \in SUBSET RowIds /\ B \in SUBSET RowIds /\ A \cap B = {}
      BY <2>1 DEF Upto
    <2>4. Upto(y, V) \in SUBSET Upto(x, V) /\ Upto(x, V) \in SUBSET RowIds
      BY <2>1, RankGrows, RankTypes
    <2>5. C + Cardinality(B) = Rank(x, V) /\ Cardinality(B) \in Nat
      <3>1. Upto(x, V) = Upto(y, V) \cup B /\ Upto(y, V) \cap B = {} /\ B \in SUBSET Upto(x, V)
        BY <2>4
      <3> HIDE DEF B
      <3>2. Cardinality(Upto(y, V) \cup B) = Cardinality(Upto(y, V)) + Cardinality(B)
            /\ Cardinality(B) \in Nat
        BY ONLY <2>4, <3>1, RowsApart
      <3> QED BY <2>1, <3>1, <3>2 DEF Rank
    <2>6. B \in SUBSET P
      <3> SUFFICES ASSUME NEW b \in B PROVE b \in P
        OBVIOUS
      <3>1. b \in V /\ Rank(b, V) <= C + l
        BY <1>3
      <3>2. ~NotAfter(b, y)
        BY <3>1 DEF Upto
      <3>3. ~(Rank(b, V) <= C)
        BY <2>1, <3>1, <3>2, Ranks
      <3> QED BY <3>1, <3>3 DEF AmongFirst
    <2>7. A \in SUBSET Upto(x, R \cup P) /\ B \in SUBSET Upto(x, R \cup P)
      <3>1. Upto(y, R) \in SUBSET Upto(x, R)
        BY <2>1, RankGrows
      <3> QED BY <2>6, <3>1 DEF Upto
    <2>8. Cardinality(A) + Cardinality(B) <= Rank(x, R \cup P) /\ Cardinality(A) \in Nat
      <3>1. Upto(x, R \cup P) \in SUBSET RowIds
        BY <1>0, RankTypes
      <3> HIDE DEF A, B
      <3> QED BY <2>3, <2>7, <3>1, RowsApart DEF Rank
    <2>9. C <= Cardinality(A) + n
      BY <2>2 DEF Rank
    <2> HIDE DEF A, B
    <2> QED BY <1>1, <2>5, <2>8, <2>9
  <1>5. CASE Rank(x, V) > C /\ C = 0
    <2>1. Upto(x, V) \in SUBSET P
      <3> SUFFICES ASSUME NEW b \in Upto(x, V) PROVE b \in P
        OBVIOUS
      <3>1. b \in V /\ Rank(b, V) <= C + l
        BY <1>3
      <3>2. ~(Rank(b, V) <= C)
        BY <1>5, <3>1, Ranks
      <3> QED BY <3>1, <3>2 DEF AmongFirst
    <2>2. Upto(x, V) \in SUBSET Upto(x, R \cup P) /\ Upto(x, R \cup P) \in SUBSET RowIds
      BY <1>0, <2>1 DEF Upto
    <2>3. Rank(x, V) <= Rank(x, R \cup P)
      BY <2>2, RowSets DEF Rank
    <2> QED BY <1>1, <2>3
  <1> QED BY <1>1, <1>2, <1>4, <1>5

(* What a reader was given, as PagesLoseOnlyToDepartures says it. *)
Accounted(a) == /\ Cardinality(a.kept \ ToSet(a.rows)) <= a.departed
                /\ Len(a.rows) - Cardinality(ToSet(a.rows)) <= a.entered

(* In the middle of the reading: of the rows that were there throughout,   *)
(* the part already read lacks no more than left it, and it was read       *)
(* without gaps but for those that entered it.                             *)
HalfRead ==
    /\ scan.kept \subseteq Visible
    /\ Cardinality((scan.kept \cap AmongFirst(Cursor, Visible)) \ ToSet(scan.rows))
          <= scan.departed
    /\ Len(scan.rows) <= Cursor
    /\ ReadOver(Visible, Cursor, ToSet(scan.rows), scan.entered)
    /\ Len(scan.rows) - Cardinality(ToSet(scan.rows)) <= scan.entered

PagesInv ==
    /\ ListingsTypeOK
    /\ scan.stage \in {"page", "count"} => HalfRead
    /\ scan.stage = "ended" => Accounted(scan)
    /\ Accounted(file) /\ Accounted(delivered)

(* Types of what the reader holds. *)
LEMMA ScanTypes ==
    ASSUME ListingsTypeOK
    PROVE  /\ scan.rows \in Seq(RowIds) /\ Len(scan.rows) \in Nat
           /\ ToSet(scan.rows) \in SUBSET RowIds /\ scan.kept \in SUBSET RowIds
           /\ scan.departed \in Nat /\ scan.entered \in Nat
           /\ scan.page \in Nat /\ scan.limit \in Nat /\ Cursor \in Nat
           /\ scan.stage \in {"none", "page", "count", "ended", "stored", "done"}
           /\ scan.stalled \in BOOLEAN
           /\ Visible \in SUBSET RowIds
           /\ Cardinality(ToSet(scan.rows)) \in Nat
  <1>1. /\ scan.rows \in Seq(RowIds) /\ scan.kept \in SUBSET RowIds
        /\ scan.departed \in Nat /\ scan.entered \in Nat
        /\ scan.page \in Nat /\ scan.limit \in Nat
        /\ scan.stage \in {"none", "page", "count", "ended", "stored", "done"}
        /\ scan.stalled \in BOOLEAN
    BY DEF ListingsTypeOK
  <1>2. Cursor \in Nat /\ Len(scan.rows) \in Nat
    BY <1>1 DEF Cursor
  <1>3. ToSet(scan.rows) \in SUBSET RowIds
    BY <1>1 DEF ToSet
  <1>4. Visible \in SUBSET RowIds
    BY DEF ListingsTypeOK, Visible
  <1> QED BY <1>1, <1>2, <1>3, <1>4, RowSets

(* The definitions of the order depend on the listing alone. *)
LEMMA SameListing ==
    ASSUME listing' = listing
    PROVE  /\ AmongFirst(Cursor, Visible)' = AmongFirst(Cursor', Visible')
           /\ ReadOver(Visible, Cursor, ToSet(scan.rows), scan.entered)' =
                 ReadOver(Visible', Cursor', ToSet(scan'.rows), scan'.entered)
  <1>1. AmongFirst(Cursor, Visible)' = AmongFirst(Cursor', Visible')
    BY DEF AmongFirst, Rank, Upto, NotAfter
  <1>2. ReadOver(Visible, Cursor, ToSet(scan.rows), scan.entered)' =
                 ReadOver(Visible', Cursor', ToSet(scan'.rows), scan'.entered)
    BY DEF ReadOver, Rank, Upto, NotAfter
  <1> QED BY <1>1, <1>2

(* A change of the table keeps the invariant. *)
LEMMA WitnessStep ==
    ASSUME PagesInv, NEW W \in SUBSET RowIds, Witness(W), Visible' = W,
           listing' = listing, file' = file, delivered' = delivered,
           present' \subseteq RowIds, matching' \subseteq RowIds,
           archive' \subseteq RowIds, changes' \in 0..MaxChanges, link' = link
    PROVE  PagesInv'
  <1> DEFINE V == Visible
             C == Cursor
             R == ToSet(scan.rows)
             D == AmongFirst(C, V) \ W
             E == AmongFirst(C, W) \ V
             K == scan.kept
  <1>1. /\ ListingsTypeOK /\ V \in SUBSET RowIds /\ C \in Nat /\ R \in SUBSET RowIds
        /\ K \in SUBSET RowIds /\ scan.departed \in Nat /\ scan.entered \in Nat
        /\ Len(scan.rows) \in Nat /\ Cardinality(R) \in Nat
    BY ScanTypes DEF PagesInv
  <1>2. D \in SUBSET RowIds /\ E \in SUBSET RowIds
    BY <1>1 DEF AmongFirst
  <1>3. Cardinality(D) \in Nat /\ Cardinality(E) \in Nat
    BY <1>2, RowSets
  <1>4. scan' = [scan EXCEPT !.kept = K \cap W, !.departed = scan.departed + Cardinality(D),
                             !.entered = scan.entered + Cardinality(E)]
    BY DEF Witness
  <1>5. /\ scan'.kept = K \cap W /\ scan'.departed = scan.departed + Cardinality(D)
        /\ scan'.entered = scan.entered + Cardinality(E) /\ scan'.rows = scan.rows
        /\ scan'.stage = scan.stage /\ scan'.page = scan.page /\ scan'.limit = scan.limit
    BY <1>1, <1>4 DEF ListingsTypeOK
  <1>6. ListingsTypeOK'
    <2>1. scan.departed + Cardinality(D) \in Nat /\ scan.entered + Cardinality(E) \in Nat
      BY <1>1, <1>3
    <2>2. scan' \in [stage : {"none", "page", "count", "ended", "stored", "done"}, limit : Nat,
                 page : Nat, rows : Seq(RowIds), kept : SUBSET RowIds, departed : Nat,
                 entered : Nat, stalled : BOOLEAN]
      <3> HIDE DEF D, E
      <3> QED BY <1>1, <1>4, <2>1 DEF ListingsTypeOK
    <2> QED BY <1>1, <2>2 DEF ListingsTypeOK
  <1>7. C' = C
    BY <1>5 DEF Cursor
  <1>8. ASSUME scan.stage \in {"page", "count"} PROVE HalfRead'
    <2>0. HalfRead
      BY <1>8 DEF PagesInv
    <2>1. scan'.kept \subseteq W
      BY <1>5
    <2>2. Cardinality((scan'.kept \cap AmongFirst(C, W)) \ R) <= scan.departed + Cardinality(D)
      <3> DEFINE A == (K \cap AmongFirst(C, V)) \ R
                 N == (AmongFirst(C, W) \cap V) \ AmongFirst(C, V)
                 Z == (scan'.kept \cap AmongFirst(C, W)) \ R
      <3>1. A \in SUBSET RowIds /\ N \in SUBSET RowIds
        BY <1>1
      <3>2. Z \in SUBSET (A \cup N)
        BY <1>5, <2>0 DEF HalfRead
      <3>3. Cardinality(A) <= scan.departed
        BY <2>0 DEF HalfRead
      <3>4. Cardinality(N) <= Cardinality(D)
        BY <1>1, SlippedRows
      <3> HIDE DEF A, N, Z, D
      <3>5. /\ Cardinality(A) \in Nat /\ Cardinality(N) \in Nat
            /\ Cardinality(A \cup N) <= Cardinality(A) + Cardinality(N)
        BY <3>1, RowsTogether
      <3>6. /\ Cardinality(Z) <= Cardinality(A \cup N) /\ Cardinality(Z) \in Nat
            /\ Cardinality(A \cup N) \in Nat
        BY <3>1, <3>2, RowSets
      <3>7. Cardinality(Z) <= scan.departed + Cardinality(D)
        BY <1>1, <1>3, <3>3, <3>4, <3>5, <3>6
      <3> QED BY <3>7 DEF Z
    <2>3. ReadOver(W, C, R, scan.entered + Cardinality(E))
      BY <1>1, <2>0, ReadOverWitness DEF HalfRead
    <2>4. Len(scan'.rows) - Cardinality(ToSet(scan'.rows)) <= scan'.entered
      <3>1. Len(scan.rows) - Cardinality(R) <= scan.entered
        BY <2>0 DEF HalfRead
      <3> HIDE DEF E, R
      <3> QED BY <1>1, <1>3, <1>5, <3>1 DEF R
    <2>5. /\ AmongFirst(Cursor, Visible)' = AmongFirst(C, W)
          /\ ReadOver(Visible, Cursor, ToSet(scan.rows), scan.entered)' =
                 ReadOver(W, C, R, scan.entered + Cardinality(E))
      BY <1>5, <1>7, SameListing
    <2>6. Len(scan'.rows) <= Cursor'
      BY <1>5, <1>7, <2>0 DEF HalfRead
    <2> HIDE DEF D, E
    <2>7. Cardinality((scan.kept \cap AmongFirst(Cursor, Visible)) \ ToSet(scan.rows))' <= scan'.departed
      BY <1>5, <2>2, <2>5
    <2> QED BY <2>1, <2>3, <2>4, <2>5, <2>6, <2>7 DEF HalfRead
  <1>9. ASSUME scan.stage = "ended" PROVE Accounted(scan)'
    <2>1. Accounted(scan)
      BY <1>9 DEF PagesInv
    <2>2. (K \cap W) \ R \in SUBSET (K \ R) /\ K \ R \in SUBSET RowIds
      BY <1>1
    <2>3. /\ Cardinality((K \cap W) \ R) <= Cardinality(K \ R)
          /\ Cardinality((K \cap W) \ R) \in Nat /\ Cardinality(K \ R) \in Nat
      BY <2>2, RowSets
    <2>4. Cardinality(K \ R) <= scan.departed /\ Len(scan.rows) - Cardinality(R) <= scan.entered
      BY <2>1 DEF Accounted
    <2> HIDE DEF D, E
    <2>5. Cardinality((K \cap W) \ R) <= scan.departed + Cardinality(D)
      BY <1>1, <1>3, <2>3, <2>4
    <2>6. Len(scan.rows) - Cardinality(R) <= scan.entered + Cardinality(E)
      BY <1>1, <1>3, <2>4
    <2> QED BY <1>5, <2>5, <2>6 DEF Accounted
  <1>10. Accounted(file)' /\ Accounted(delivered)'
    BY DEF PagesInv, Accounted
  <1> QED BY <1>5, <1>6, <1>8, <1>9, <1>10 DEF PagesInv

(* The elements of two sequences one after the other. *)
LEMMA JoinedRows ==
    ASSUME NEW S, NEW s \in Seq(S), NEW t \in Seq(S)
    PROVE  /\ s \o t \in Seq(S) /\ Len(s \o t) = Len(s) + Len(t)
           /\ ToSet(s \o t) = ToSet(s) \cup ToSet(t)
  <1>1. s \o t \in Seq(S) /\ Len(s \o t) = Len(s) + Len(t)
    OBVIOUS
  <1>2. \A i \in 1..Len(s) : i \in 1..Len(s \o t) /\ (s \o t)[i] = s[i]
    OBVIOUS
  <1>3. \A i \in 1..Len(t) : Len(s) + i \in 1..Len(s \o t) /\ (s \o t)[Len(s) + i] = t[i]
    OBVIOUS
  <1>4. \A i \in 1..Len(s \o t) : \/ i \in 1..Len(s) /\ (s \o t)[i] = s[i]
                                  \/ /\ i - Len(s) \in 1..Len(t)
                                     /\ (s \o t)[i] = t[i - Len(s)]
    OBVIOUS
  <1>5. /\ ToSet(s) = {s[i] : i \in 1..Len(s)} /\ ToSet(t) = {t[i] : i \in 1..Len(t)}
        /\ ToSet(s \o t) = {(s \o t)[i] : i \in 1..Len(s \o t)}
    <2>1. DOMAIN s = 1..Len(s) /\ DOMAIN t = 1..Len(t) /\ DOMAIN (s \o t) = 1..Len(s \o t)
      OBVIOUS
    <2> QED BY <2>1 DEF ToSet
  <1>6. ToSet(s \o t) \subseteq ToSet(s) \cup ToSet(t)
    BY <1>4, <1>5
  <1>7. ToSet(s) \subseteq ToSet(s \o t)
    BY <1>2, <1>5
  <1>8. ToSet(t) \subseteq ToSet(s \o t)
    BY <1>3, <1>5
  <1> QED BY <1>1, <1>6, <1>7, <1>8

(* Reading a page keeps the invariant. *)
LEMMA FetchPageStep ==
    ASSUME PagesInv, fetchPage
    PROVE  PagesInv'
  <1> DEFINE V == Visible
             C == Cursor
             l == scan.limit
             R == ToSet(scan.rows)
             P == ToSet(Page)
             K == scan.kept
             stage == AfterPage(Page)
             joined == scan.rows \o Page
  <1>0. ListingsTypeOK /\ scan.stage = "page" /\ HalfRead
    BY DEF PagesInv, fetchPage
  <1>1. /\ V \in SUBSET RowIds /\ C \in Nat /\ l \in Nat /\ R \in SUBSET RowIds
        /\ K \in SUBSET RowIds /\ scan.departed \in Nat /\ scan.entered \in Nat
        /\ scan.rows \in Seq(RowIds) /\ Len(scan.rows) \in Nat /\ Cardinality(R) \in Nat
        /\ scan.page \in Nat
    BY <1>0, ScanTypes
  <1>2. /\ Page \in Seq(RowIds) /\ Len(Page) \in Nat /\ Len(Page) <= l
        /\ P = AmongFirst(C + l, V) \ AmongFirst(C, V)
        /\ Len(Page) = 0 \/ C + Len(Page) <= Cardinality(V)
        /\ Len(Page) < l => AmongFirst(C + l, V) = V
    BY <1>0, PageRows
  <1>3. scan' = [scan EXCEPT !.rows = joined, !.page = scan.page + 1, !.stage = stage]
    BY DEF fetchPage
  <1>4. stage \in {"ended", "page", "count"} /\ (stage = "ended" => Len(Page) < l)
    BY DEF AfterPage
  <1> HIDE DEF stage
  <1>5. /\ scan'.rows = joined /\ scan'.page = scan.page + 1 /\ scan'.stage = stage
        /\ scan'.kept = K /\ scan'.limit = l /\ scan'.departed = scan.departed
        /\ scan'.entered = scan.entered
    BY <1>0, <1>3 DEF ListingsTypeOK
  <1>6. /\ joined \in Seq(RowIds) /\ Len(joined) = Len(scan.rows) + Len(Page)
        /\ ToSet(joined) = R \cup P
    BY <1>1, <1>2, JoinedRows
  <1> HIDE DEF joined
  <1>7. ListingsTypeOK'
    <2>1. scan.page + 1 \in Nat
      BY <1>1
    <2>2. scan' \in [stage : {"none", "page", "count", "ended", "stored", "done"}, limit : Nat,
                 page : Nat, rows : Seq(RowIds), kept : SUBSET RowIds, departed : Nat,
                 entered : Nat, stalled : BOOLEAN]
      BY <1>0, <1>3, <1>4, <1>6, <2>1 DEF ListingsTypeOK
    <2> QED BY <1>0, <2>2 DEF ListingsTypeOK, fetchPage, TableUnchanged
  <1>8. Cursor' = C + l /\ Visible' = V /\ listing' = listing
    <2>1. Cursor' = (scan.page + 1) * scan.limit
      BY <1>5 DEF Cursor
    <2>2. (scan.page + 1) * scan.limit = scan.page * scan.limit + scan.limit
      BY <1>1
    <2> QED BY <2>1, <2>2 DEF Cursor, Visible, fetchPage, TableUnchanged
  <1>9. P \in SUBSET RowIds /\ R \cup P \in SUBSET RowIds
    BY <1>1, <1>2 DEF AmongFirst
  <1>10. Cardinality((K \cap AmongFirst(C + l, V)) \ (R \cup P)) <= scan.departed
    <2> DEFINE A == (K \cap AmongFirst(C, V)) \ R
               Z == (K \cap AmongFirst(C + l, V)) \ (R \cup P)
    <2>1. Z \in SUBSET A /\ A \in SUBSET RowIds
      BY <1>1, <1>2
    <2>2. Cardinality(A) <= scan.departed
      BY <1>0 DEF HalfRead
    <2> HIDE DEF A, Z
    <2>3. Cardinality(Z) <= Cardinality(A) /\ Cardinality(Z) \in Nat /\ Cardinality(A) \in Nat
      BY <2>1, RowSets
    <2>4. Cardinality(Z) <= scan.departed
      BY <1>1, <2>2, <2>3
    <2> QED BY <2>4 DEF Z
  <1>11. ReadOver(V, C + l, R \cup P, scan.entered)
    BY <1>0, <1>1, <1>2, ReadOverPage DEF HalfRead
  <1>12. Len(scan.rows) + Len(Page) <= C + l
    <2>1. Len(scan.rows) <= C
      BY <1>0 DEF HalfRead
    <2> HIDE DEF C, l
    <2> QED BY <1>1, <1>2, <2>1
  <1>13. (Len(scan.rows) + Len(Page)) - Cardinality(R \cup P) <= scan.entered
    <2>0. Cardinality(R \cup P) \in Nat /\ Cardinality(R) <= Cardinality(R \cup P)
      BY <1>9, RowSets
    <2>1. CASE Len(Page) = 0
      <3>1. Len(scan.rows) - Cardinality(R) <= scan.entered
        BY <1>0 DEF HalfRead
      <3> HIDE DEF R, P
      <3> QED BY <1>1, <2>0, <2>1, <3>1
    <2>2. CASE Len(Page) # 0
      <3> DEFINE n == C + Len(Page)
      <3>1. n \in 1..Cardinality(V)
        <4>1. Cardinality(V) \in Nat
          BY <1>1, RowSets
        <4> HIDE DEF C, V
        <4> QED BY <1>1, <1>2, <2>2, <4>1
      <3>2. PICK x \in V : Rank(x, V) = n
        BY <1>1, <3>1, Ranks
      <3>3. n <= C + l
        <4> HIDE DEF C, l
        <4> QED BY <1>1, <1>2
      <3>4. n <= Rank(x, R \cup P) + scan.entered
        BY <1>1, <1>11, <3>2, <3>3 DEF ReadOver
      <3>5. Rank(x, R \cup P) <= Cardinality(R \cup P) /\ Rank(x, R \cup P) \in Nat
        BY <1>1, <1>9, <3>2, RankTypes
      <3>6. Len(scan.rows) <= C
        BY <1>0 DEF HalfRead
      <3> HIDE DEF C, R, P
      <3> QED BY <1>1, <1>2, <2>0, <3>4, <3>5, <3>6
    <2> QED BY <2>1, <2>2
  <1>14. Len(joined) - Cardinality(ToSet(joined)) <= scan.entered
    BY <1>6, <1>13
  <1>15. /\ AmongFirst(Cursor, Visible)' = AmongFirst(C + l, V)
         /\ ReadOver(Visible, Cursor, ToSet(scan.rows), scan.entered)' =
                ReadOver(V, C + l, R \cup P, scan.entered)
    BY <1>5, <1>6, <1>8, SameListing
  <1>16. HalfRead'
    <2>1. K \subseteq V
      BY <1>0 DEF HalfRead
    <2>2. Cardinality((scan.kept \cap AmongFirst(Cursor, Visible)) \ ToSet(scan.rows))' <= scan'.departed
      BY <1>5, <1>6, <1>10, <1>15
    <2>3. (scan.kept \subseteq Visible)'
      BY <1>5, <1>8, <2>1
    <2>4. Len(scan'.rows) <= Cursor'
      BY <1>5, <1>6, <1>8, <1>12
    <2>5. Len(scan'.rows) - Cardinality(ToSet(scan'.rows)) <= scan'.entered
      BY <1>5, <1>14
    <2> QED BY <1>11, <1>15, <2>2, <2>3, <2>4, <2>5 DEF HalfRead
  <1>17. ASSUME stage = "ended" PROVE Accounted(scan)'
    <2>1. AmongFirst(C + l, V) = V /\ K \subseteq V
      BY <1>0, <1>2, <1>4, <1>17 DEF HalfRead
    <2>2. (K \cap AmongFirst(C + l, V)) \ (R \cup P) = K \ (R \cup P)
      BY <2>1
    <2>3. Cardinality(K \ (R \cup P)) <= scan.departed
      BY <1>10, <2>2
    <2> QED BY <1>5, <1>6, <1>14, <2>3 DEF Accounted
  <1>18. Accounted(file)' /\ Accounted(delivered)'
    BY DEF PagesInv, Accounted, fetchPage
  <1> QED BY <1>4, <1>5, <1>7, <1>16, <1>17, <1>18 DEF PagesInv

(* A reader that starts, or starts again, has lost nothing yet. *)
LEMMA BegunIsHalfRead ==
    ASSUME ListingsTypeOK, NEW l \in Nat, NEW again \in BOOLEAN,
           scan' = [stage |-> "page", limit |-> l, page |-> 0, rows |-> <<>>, kept |-> Visible,
                    departed |-> 0, entered |-> 0, stalled |-> again],
           TableUnchanged, file' = file, link' = link, delivered' = delivered
    PROVE  ListingsTypeOK' /\ HalfRead' /\ scan'.stage = "page"
  <1>0. Visible \in SUBSET RowIds
    BY ScanTypes
  <1>1. scan' = [stage |-> "page", limit |-> l, page |-> 0, rows |-> <<>>, kept |-> Visible,
                 departed |-> 0, entered |-> 0, stalled |-> again]
    OBVIOUS
  <1>2. ListingsTypeOK'
    <2>1. <<>> \in Seq(RowIds) /\ l \in Nat /\ again \in BOOLEAN /\ 0 \in Nat
      OBVIOUS
    <2>2. scan' \in [stage : {"none", "page", "count", "ended", "stored", "done"}, limit : Nat,
                 page : Nat, rows : Seq(RowIds), kept : SUBSET RowIds, departed : Nat,
                 entered : Nat, stalled : BOOLEAN]
      BY ONLY <1>0, <1>1, <2>1, Zenon
    <2> QED BY <2>2 DEF ListingsTypeOK, TableUnchanged
  <1>3. Cursor' = 0 /\ Visible' = Visible /\ listing' = listing
    BY <1>1 DEF Cursor, Visible, TableUnchanged
  <1>4. ToSet(scan'.rows) = {} /\ Len(scan'.rows) = 0 /\ scan'.kept = Visible
        /\ scan'.departed = 0 /\ scan'.entered = 0
    BY <1>1 DEF ToSet
  <1>5. AmongFirst(0, Visible) = {}
    BY <1>0, Ranks DEF AmongFirst
  <1>6. ReadOver(Visible, 0, {}, 0)
    <2> SUFFICES ASSUME NEW x \in RowIds, Rank(x, Visible) <= 0
                 PROVE  Rank(x, Visible) <= Rank(x, {}) + 0
      BY DEF ReadOver
    <2>1. Rank(x, Visible) \in Nat /\ Rank(x, {}) \in Nat
      BY <1>0, RankTypes
    <2> QED BY <2>1
  <1>7. /\ AmongFirst(Cursor, Visible)' = {}
        /\ ReadOver(Visible, Cursor, ToSet(scan.rows), scan.entered)' = ReadOver(Visible, 0, {}, 0)
    BY <1>3, <1>4, <1>5, SameListing
  <1>8. ((scan.kept \cap AmongFirst(Cursor, Visible)) \ ToSet(scan.rows))' = {}
    BY <1>7
  <1>9. Cardinality((scan.kept \cap AmongFirst(Cursor, Visible)) \ ToSet(scan.rows))' = 0
    BY <1>8, FS_EmptySet
  <1>10. Cardinality(ToSet(scan'.rows)) = 0
    BY <1>4, FS_EmptySet
  <1> QED BY <1>1, <1>2, <1>3, <1>4, <1>6, <1>7, <1>9, <1>10 DEF HalfRead

(* The limit a listing works with is a number. *)
LEMMA LimitType ==
    ASSUME listing \in AllListings, NEW asked \in 0..MaxAsked
    PROVE  EffectiveLimit(asked) \in Nat
  BY ListingsAssumption DEF EffectiveLimit

(* Every step of the writers keeps the invariant. *)
LEMMA WriterStep ==
    ASSUME PagesInv,
           \/ \E r \in RowIds : insertRow(r) \/ changeStatus(r)
           \/ \E cutoff \in 1..(MaxRows + 1) : archiveTable(cutoff)
    PROVE  PagesInv'
  <1>0. ListingsTypeOK
    BY DEF PagesInv
  <1>1. ASSUME NEW r \in RowIds, insertRow(r) PROVE PagesInv'
    <2> DEFINE W == Visible \cup ({r} \cap matching)
    <2>1. W \in SUBSET RowIds /\ Witness(W) /\ Visible' = W
      BY <1>0, <1>1 DEF insertRow, Visible, ListingsTypeOK
    <2>2. /\ listing' = listing /\ file' = file /\ delivered' = delivered /\ link' = link
          /\ present' \subseteq RowIds /\ matching' \subseteq RowIds
          /\ archive' \subseteq RowIds /\ changes' \in 0..MaxChanges
      BY <1>0, <1>1 DEF insertRow, ReaderUnchanged, ListingsTypeOK
    <2> HIDE DEF W
    <2> QED BY <2>1, <2>2, WitnessStep
  <1>2. ASSUME NEW r \in RowIds, changeStatus(r) PROVE PagesInv'
    <2> DEFINE W == present \cap matching'
    <2>1. matching' \subseteq RowIds
      BY <1>0, <1>2 DEF changeStatus, ListingsTypeOK
    <2>2. W \in SUBSET RowIds /\ Witness(W) /\ Visible' = W
      BY <1>0, <1>2 DEF changeStatus, Visible, ListingsTypeOK
    <2>3. /\ listing' = listing /\ file' = file /\ delivered' = delivered /\ link' = link
          /\ present' \subseteq RowIds
          /\ archive' \subseteq RowIds /\ changes' \in 0..MaxChanges
      BY <1>0, <1>2, ListingsAssumption DEF changeStatus, ReaderUnchanged, ListingsTypeOK
    <2> HIDE DEF W
    <2> QED BY <2>1, <2>2, <2>3, WitnessStep
  <1>3. ASSUME NEW cutoff \in 1..(MaxRows + 1), archiveTable(cutoff) PROVE PagesInv'
    <2>1. PICK gone \in SUBSET {r \in present : r < cutoff} :
            /\ present' = present \ gone
            /\ archive' = archive \cup gone
            /\ Witness(Visible \ gone)
      BY <1>3 DEF archiveTable
    <2> DEFINE W == Visible \ gone
    <2>2. matching' = matching
      BY <1>3 DEF archiveTable
    <2>3. W \in SUBSET RowIds /\ Witness(W) /\ Visible' = W
      BY <1>0, <2>1, <2>2 DEF Visible, ListingsTypeOK
    <2>4. /\ listing' = listing /\ file' = file /\ delivered' = delivered /\ link' = link
          /\ present' \subseteq RowIds /\ matching' \subseteq RowIds
          /\ archive' \subseteq RowIds /\ changes' \in 0..MaxChanges
      BY <1>0, <1>3, <2>1 DEF archiveTable, ReaderUnchanged, ListingsTypeOK
    <2> HIDE DEF W
    <2> QED BY <2>3, <2>4, WitnessStep
  <1> QED BY <1>1, <1>2, <1>3

(* The reader stops with what it has: nothing to account for any more. *)
LEMMA ReaderEnds ==
    ASSUME PagesInv, NEW stage \in {"stored", "done"}, NEW l \in Nat, NEW again \in BOOLEAN,
           scan' = [stage |-> stage, limit |-> l, page |-> 0, rows |-> <<>>, kept |-> {},
                    departed |-> 0, entered |-> 0, stalled |-> again],
           TableUnchanged, file' \in Answers, delivered' \in Answers,
           link' \in {"none", "valid", "expired"},
           Accounted(file)', Accounted(delivered)'
    PROVE  PagesInv'
  <1>2. scan'.stage = stage
    OBVIOUS
  <1>3. ListingsTypeOK'
    <2>1. /\ <<>> \in Seq(RowIds) /\ l \in Nat /\ again \in BOOLEAN /\ 0 \in Nat
          /\ {} \in SUBSET RowIds
          /\ stage \in {"none", "page", "count", "ended", "stored", "done"}
      OBVIOUS
    <2>2. scan' \in [stage : {"none", "page", "count", "ended", "stored", "done"}, limit : Nat,
                 page : Nat, rows : Seq(RowIds), kept : SUBSET RowIds, departed : Nat,
                 entered : Nat, stalled : BOOLEAN]
      BY ONLY <2>1, scan' = [stage |-> stage, limit |-> l, page |-> 0, rows |-> <<>>, kept |-> {},
                    departed |-> 0, entered |-> 0, stalled |-> again], Zenon
    <2> QED BY <2>2 DEF PagesInv, ListingsTypeOK, TableUnchanged
  <1> QED BY <1>2, <1>3 DEF PagesInv

(* Every step keeps the invariant of the pages. *)
LEMMA PagesInvStep == PagesInv /\ [ListingsNext]_listingVars => PagesInv'
  <1> SUFFICES ASSUME PagesInv, [ListingsNext]_listingVars PROVE PagesInv'
    OBVIOUS
  <1>0. ListingsTypeOK /\ Accounted(file) /\ Accounted(delivered)
    BY DEF PagesInv
  <1>1. ASSUME NEW asked \in 0..MaxAsked, begin(asked) PROVE PagesInv'
    <2>1. EffectiveLimit(asked) \in Nat
      BY <1>0, LimitType DEF ListingsTypeOK
    <2>2. scan' = [stage |-> "page", limit |-> EffectiveLimit(asked), page |-> 0, rows |-> <<>>, kept |-> Visible,
                    departed |-> 0, entered |-> 0, stalled |-> FALSE]
      BY <1>1 DEF begin, Begun, NotReading
    <2>3. TableUnchanged /\ file' = file /\ link' = link /\ delivered' = delivered
      BY <1>1 DEF begin
    <2>4. ListingsTypeOK' /\ HalfRead' /\ scan'.stage = "page"
      BY <1>0, <2>1, <2>2, <2>3, BegunIsHalfRead
    <2> QED BY <1>0, <2>3, <2>4 DEF PagesInv, Accounted
  <1>2. ASSUME crash PROVE PagesInv'
    <2>1. scan.limit \in Nat
      BY <1>0 DEF ListingsTypeOK
    <2>2. scan' = [stage |-> "page", limit |-> scan.limit, page |-> 0, rows |-> <<>>, kept |-> Visible,
                    departed |-> 0, entered |-> 0, stalled |-> TRUE]
      BY <1>2 DEF crash, Begun, NotReading
    <2>3. TableUnchanged /\ file' = file /\ link' = link /\ delivered' = delivered
      BY <1>2 DEF crash
    <2>4. ListingsTypeOK' /\ HalfRead' /\ scan'.stage = "page"
      BY <1>0, <2>1, <2>2, <2>3, BegunIsHalfRead
    <2> QED BY <1>0, <2>3, <2>4 DEF PagesInv, Accounted
  <1>3. ASSUME countRows PROVE PagesInv'
    <2>0. /\ scan.stage = "count" /\ HalfRead /\ TableUnchanged
          /\ file' = file /\ link' = link /\ delivered' = delivered
      BY <1>3 DEF countRows, PagesInv
    <2>1. PICK stage \in {"page", "ended"} :
            /\ scan' = [scan EXCEPT !.stage = stage]
            /\ stage = "ended" => ~(Cursor < Cardinality(Visible))
      BY <1>3 DEF countRows
    <2>2. ListingsTypeOK'
      BY <1>0, <2>0, <2>1 DEF ListingsTypeOK, TableUnchanged
    <2>3. /\ scan'.stage = stage /\ scan'.rows = scan.rows /\ scan'.kept = scan.kept
          /\ scan'.departed = scan.departed /\ scan'.entered = scan.entered
          /\ scan'.page = scan.page /\ scan'.limit = scan.limit
      BY <1>0, <2>1 DEF ListingsTypeOK
    <2>4. Cursor' = Cursor /\ Visible' = Visible /\ listing' = listing
      BY <2>0, <2>3 DEF Cursor, Visible, TableUnchanged
    <2>5. HalfRead'
      BY <2>0, <2>3, <2>4, SameListing DEF HalfRead
    <2>6. ASSUME stage = "ended" PROVE Accounted(scan)'
      <3>1. Visible \in SUBSET RowIds /\ Cursor \in Nat /\ Cardinality(Visible) \in Nat
        BY <1>0, ScanTypes, RowSets
      <3>2. AmongFirst(Cursor, Visible) = Visible /\ scan.kept \subseteq Visible
        BY <2>0, <2>1, <2>6, <3>1, FirstRows DEF HalfRead
      <3>3. (scan.kept \cap AmongFirst(Cursor, Visible)) \ ToSet(scan.rows)
               = scan.kept \ ToSet(scan.rows)
        BY <3>2
      <3>4. Accounted(scan)
        BY <2>0, <3>3 DEF HalfRead, Accounted
      <3> QED BY <2>3, <3>4 DEF Accounted
    <2> QED BY <1>0, <2>0, <2>2, <2>3, <2>5, <2>6 DEF PagesInv, Accounted
  <1>4. scan.stage = "ended" => Answer \in Answers /\ Accounted(Answer)
    <2>1. Answer \in Answers
      BY <1>0 DEF Answer, Answers, ListingsTypeOK
    <2>2. scan.stage = "ended" => Accounted(scan)
      BY DEF PagesInv
    <2> QED BY <2>1, <2>2 DEF Answer, Accounted
  <1>5. ASSUME readToTheEnd PROVE PagesInv'
    <2>1. /\ scan' = [stage |-> "done", limit |-> 1, page |-> 0, rows |-> <<>>, kept |-> {},
                    departed |-> 0, entered |-> 0, stalled |-> FALSE]
          /\ TableUnchanged /\ file' = file /\ link' = link
          /\ delivered' = Answer /\ scan.stage = "ended"
      BY <1>5 DEF readToTheEnd, NotReading
    <2>2. Accounted(delivered)' /\ Accounted(file)'
      BY <1>0, <1>4, <2>1 DEF Accounted
    <2>3. /\ file' \in Answers /\ delivered' \in Answers /\ link' \in {"none", "valid", "expired"}
      BY <1>0, <1>4, <2>1 DEF ListingsTypeOK
    <2> QED BY <2>1, <2>2, <2>3, ReaderEnds
  <1>6. ASSUME store PROVE PagesInv'
    <2>1. /\ scan' = [stage |-> "stored", limit |-> scan.limit, page |-> 0, rows |-> <<>>, kept |-> {},
                    departed |-> 0, entered |-> 0, stalled |-> scan.stalled]
          /\ TableUnchanged /\ file' = Answer /\ link' = "valid"
          /\ delivered' = delivered /\ scan.stage = "ended"
      BY <1>6 DEF store, NotReading
    <2>2. Accounted(delivered)' /\ Accounted(file)'
      BY <1>0, <1>4, <2>1 DEF Accounted
    <2>3. /\ file' \in Answers /\ delivered' \in Answers /\ link' \in {"none", "valid", "expired"}
          /\ scan.limit \in Nat /\ scan.stalled \in BOOLEAN
      BY <1>0, <1>4, <2>1 DEF ListingsTypeOK
    <2> QED BY <2>1, <2>2, <2>3, ReaderEnds
  <1>7. ASSUME jobCompletes PROVE PagesInv'
    <2>1. /\ scan' = [stage |-> "done", limit |-> 1, page |-> 0, rows |-> <<>>, kept |-> {},
                    departed |-> 0, entered |-> 0, stalled |-> FALSE]
          /\ TableUnchanged /\ file' = file /\ link' = link /\ delivered' = delivered
      BY <1>7 DEF jobCompletes, NotReading
    <2>2. Accounted(delivered)' /\ Accounted(file)'
      BY <1>0, <2>1 DEF Accounted
    <2>3. /\ file' \in Answers /\ delivered' \in Answers /\ link' \in {"none", "valid", "expired"}
      BY <1>0, <2>1 DEF ListingsTypeOK
    <2> QED BY <2>1, <2>2, <2>3, ReaderEnds
  <1>8. CASE download \/ linkExpires \/ UNCHANGED listingVars
    <2>1. /\ TableUnchanged /\ scan' = scan /\ file' = file
          /\ delivered' \in {file, delivered} /\ link' \in {"none", "valid", "expired"}
      BY <1>0, <1>8 DEF download, linkExpires, listingVars, TableUnchanged, ListingsTypeOK
    <2>2. ListingsTypeOK'
      BY <1>0, <2>1 DEF ListingsTypeOK, TableUnchanged
    <2>3. Cursor' = Cursor /\ Visible' = Visible /\ listing' = listing
      BY <2>1 DEF Cursor, Visible, TableUnchanged
    <2>4. HalfRead => HalfRead'
      BY <2>1, <2>3, SameListing DEF HalfRead
    <2>5. Accounted(file)' /\ Accounted(delivered)' /\ (Accounted(scan) => Accounted(scan)')
      BY <1>0, <2>1 DEF Accounted
    <2> QED BY <2>1, <2>2, <2>4, <2>5 DEF PagesInv
  <1> QED BY <1>1, <1>2, <1>3, <1>5, <1>6, <1>7, <1>8, WriterStep, FetchPageStep
          DEF ListingsNext

(* A reader that has not started satisfies it. *)
LEMMA PagesInvInit == ListingsInit => PagesInv
  <1> SUFFICES ASSUME ListingsInit PROVE PagesInv
    OBVIOUS
  <1>1. <<>> \in Seq(RowIds) /\ {} \in SUBSET RowIds /\ 0 \in Nat /\ 1 \in Nat
    OBVIOUS
  <1>2. NoRows \in Answers
    BY <1>1 DEF NoRows, Answers
  <1>3. scan \in [stage : {"none", "page", "count", "ended", "stored", "done"}, limit : Nat,
                 page : Nat, rows : Seq(RowIds), kept : SUBSET RowIds, departed : Nat,
                 entered : Nat, stalled : BOOLEAN]
        /\ scan.stage = "none"
    BY <1>1 DEF ListingsInit, NotReading
  <1>4. ListingsTypeOK
    BY <1>2, <1>3, ListingsAssumption DEF ListingsInit, ListingsTypeOK
  <1>5. Accounted(NoRows)
    <2>1. ToSet(<<>>) = {} /\ Len(<<>>) = 0
      BY DEF ToSet
    <2>2. Cardinality({} \ ToSet(<<>>)) = 0 /\ Cardinality(ToSet(<<>>)) = 0
      BY <2>1, FS_EmptySet
    <2> QED BY <2>1, <2>2 DEF NoRows, Accounted
  <1>6. file = NoRows /\ delivered = NoRows
    BY DEF ListingsInit
  <1> QED BY <1>3, <1>4, <1>5, <1>6 DEF PagesInv

(* Reading page by page loses a row only to one that left the pages        *)
(* already read and repeats one only for one that joined them, for any     *)
(* number of rows and changes, any limit, and an export that stalls.       *)
THEOREM PagesLoseLittle == ListingsSpec => [](ListingsTypeOK /\ PagesLoseOnlyToDepartures)
  <1>1. PagesInv => ListingsTypeOK /\ PagesLoseOnlyToDepartures
    BY DEF PagesInv, Accounted, PagesLoseOnlyToDepartures
  <1> QED BY <1>1, PagesInvInit, PagesInvStep, PTL DEF ListingsSpec

----------------------------------------------------------------------------
(* Configuration. *)

(* An entry of a table that is put together is an entry of one part. *)
LEMMA EntryOfPart ==
    ASSUME NEW parts, NEW n \in DOMAIN Together(parts)
    PROVE  \E p \in parts : n \in DOMAIN p /\ Together(parts)[n] = p[n]
  BY DEF Together

(* The variables that are flags, and those that are words. *)
Flags == {"SWAGGER_ENABLED", "DB_SSL", "MAIL_SECURE", "ARCHIVE_ENABLED", "REFERRAL_PROGRAM_ACTIVE"}
Words == {"NODE_ENV", "JWT_SECRET", "REFRESH_TOKEN_SECRET", "OTP_SECRET",
          "EXTERNAL_API_KEY", "EXTERNAL_API_URL", "MAIL_HOST", "MAIL_USER",
          "MAIL_PASSWORD", "MAIL_FROM", "REDIS_HOST", "IDEMPOTENCY_CLEANUP_CRON",
          "ARCHIVE_CRON", "TERMS_CURRENT_VERSION", "FCM_SERVER_KEY", "APNS_KEY_ID",
          "APNS_TEAM_ID", "APNS_BUNDLE_ID", "APNS_PRIVATE_KEY",
          "OPEN_EXCHANGE_RATES_API_KEY", "EXCHANGE_RATE_HOST_API_KEY",
          "DB_HOST", "DB_USER", "DB_PASSWORD", "DB_NAME", "WALLET_ENCRYPTION_KEY",
          "REDIS_PASSWORD", "STELLAR_HOT_WALLET_SECRET",
          "SUPPORTED_CURRENCIES", "ADMIN_ALLOWED_IPS", "BLOCKED_COUNTRIES"}

(* A text of the environment. *)
Typed(t) == t.form \in TextForms /\ t.milli \in 0..Top


(* What every rule satisfies: a flag has a default, and a number has one   *)
(* that is whole, or must be given; one number is not whole.               *)
WholeNumber(r) == r.default.form = "digits" /\ r.default.milli % 1000 = 0
GoodRule(r) ==
    /\ Typed(r.default)
    /\ r.kind = "number" => WholeNumber(r) \/ r.required
    /\ r.kind = "flag" => r.default.form \in {"true", "false"}

(* The numbers that the tables use as defaults. *)
Small(k) == k \in Nat /\ k <= 604800

(* What a default of the tables is, as a text. *)
LEMMA Defaults ==
    /\ Typed(Unset) /\ Typed(Empty)
    /\ \A f \in TextForms : Typed(Form(f)) /\ Form(f).form = f
    /\ \A k : Small(k) => /\ Typed(Digits(k * 1000))
                          /\ Digits(k * 1000).form = "digits"
                          /\ Digits(k * 1000).milli % 1000 = 0
  <1>1. Top \in Nat /\ Top >= 604800000
    BY SMT, ConfigurationAssumption
  <1>2. ASSUME NEW k, Small(k)
        PROVE  /\ Typed(Digits(k * 1000)) /\ Digits(k * 1000).form = "digits"
               /\ Digits(k * 1000).milli % 1000 = 0
    <2>1. k * 1000 \in 0..Top /\ (k * 1000) % 1000 = 0
      BY SMT, <1>1, <1>2 DEF Small
    <2> QED BY SMT, <2>1 DEF Typed, TextForms, Digits
  <1>3. Typed(Unset) /\ Typed(Empty) /\ \A f \in TextForms : Typed(Form(f)) /\ Form(f).form = f
    BY SMT, <1>1 DEF Typed, TextForms, Unset, Empty, Form
  <1> QED BY SMT, <1>2, <1>3

NumberRule(r) == r.kind = "number" /\ GoodRule(r)

(* Every constructor of a number yields a rule of a number that holds. *)
LEMMA NumberRules ==
    \A k : Small(k) =>
      /\ NumberRule(Positive(k)) /\ NumberRule(PositiveInt(k))
      /\ NumberRule(NonNegative(k)) /\ NumberRule(NonNegativeInt(k))
      /\ \A lo, hi : NumberRule(Between(lo, hi, k)) /\ NumberRule(BetweenInt(lo, hi, k))
      /\ NumberRule(Port(k))
  <1> TAKE k
  <1> HAVE Small(k)
  <1> DEFINE d == Digits(k * 1000)
  <1>1. Typed(d) /\ d.form = "digits" /\ d.milli % 1000 = 0
    BY SMT, Defaults
  <1> HIDE DEF d
  <1>2. \A r : r.kind = "number" /\ r.default = d => NumberRule(r)
    BY SMT, <1>1 DEF NumberRule, GoodRule, WholeNumber
  <1>3. NumberRule(Positive(k)) /\ NumberRule(PositiveInt(k)) /\ NumberRule(Port(k))
    BY SMT, <1>2 DEF Positive, PositiveInt, Port, Rule, d
  <1>4. NumberRule(NonNegative(k)) /\ NumberRule(NonNegativeInt(k))
    BY SMT, <1>2 DEF NonNegative, NonNegativeInt, Rule, d
  <1>5. \A lo, hi : NumberRule(Between(lo, hi, k)) /\ NumberRule(BetweenInt(lo, hi, k))
    BY SMT, <1>2 DEF Between, BetweenInt, Rule, d
  <1> QED BY SMT, <1>3, <1>4, <1>5

FlagRule(r) == r.kind = "flag" /\ GoodRule(r)
OtherRule(r) == r.kind \notin {"number", "flag"} /\ GoodRule(r)
OtherKinds == {"text", "enum", "email", "url", "hex64", "secret", "any"}

(* And those of flags and words, rules of a flag and of a word. *)
LEMMA OtherRules ==
    /\ \A k \in OtherKinds :
          /\ OtherRule(Required(k)) /\ OtherRule(Optional(k))
          /\ OtherRule(WithDefault(k, Form("word"))) /\ OtherRule(WithDefault(k, Empty))
    /\ FlagRule(Flag("true")) /\ FlagRule(Flag("false"))
    /\ NumberRule(RequiredPort)
  <1>1. "true" \in TextForms /\ "false" \in TextForms /\ "word" \in TextForms
    BY SMT DEF TextForms
  <1>2. \A r : r.kind \in OtherKinds /\ Typed(r.default) => OtherRule(r)
    BY SMT DEF OtherRule, GoodRule, OtherKinds
  <1>3. \A k \in OtherKinds : OtherRule(Required(k)) /\ OtherRule(Optional(k))
    BY SMT, <1>2, Defaults DEF Required, Optional, Rule
  <1>4. \A k \in OtherKinds :
          OtherRule(WithDefault(k, Form("word"))) /\ OtherRule(WithDefault(k, Empty))
    BY SMT, <1>1, <1>2, Defaults DEF WithDefault, Rule
  <1>5. FlagRule(Flag("true")) /\ FlagRule(Flag("false"))
    BY SMT, <1>1, Defaults DEF Flag, Rule, GoodRule, FlagRule
  <1>6. NumberRule(RequiredPort)
    BY SMT, Defaults DEF RequiredPort, Rule, GoodRule, NumberRule
  <1> QED BY SMT, <1>3, <1>4, <1>5, <1>6

(* Which of the names stand for a number, and which for a flag. *)
Sound(n, r) == \/ NumberRule(r) /\ n \notin Flags \cup Words
               \/ /\ n = "SWAP_SLIPPAGE_PERCENT"
                  /\ r.kind = "number" /\ r.default.form = "fraction" /\ Typed(r.default)
               \/ FlagRule(r) /\ n \in Flags
               \/ OtherRule(r)

(* Each variable of envSchema has the rule of its kind. *)
LEMMA SchemaIsSound == \A n \in DOMAIN envSchema : Sound(n, envSchema[n])
  <1>1. \A n \in DOMAIN ApplicationSchema : Sound(n, ApplicationSchema[n])
    BY SMT, NumberRules, OtherRules
       DEF ApplicationSchema, Small, OtherKinds, Sound, Flags, Words
  <1>2. \A n \in DOMAIN DatabaseSchema : Sound(n, DatabaseSchema[n])
    BY SMT, NumberRules, OtherRules
       DEF DatabaseSchema, Small, OtherKinds, Sound, Flags, Words
  <1>3. \A n \in DOMAIN SecretsSchema : Sound(n, SecretsSchema[n])
    BY SMT, NumberRules, OtherRules
       DEF SecretsSchema, Small, OtherKinds, Sound, Flags, Words
  <1>4. \A n \in DOMAIN ServicesSchema : Sound(n, ServicesSchema[n])
    BY SMT, NumberRules, OtherRules
       DEF ServicesSchema, Small, OtherKinds, Sound, Flags, Words
  <1>5. \A n \in DOMAIN PlatformSchema : Sound(n, PlatformSchema[n])
    BY SMT, NumberRules, OtherRules
       DEF PlatformSchema, Small, OtherKinds, Sound, Flags, Words
  <1>6. \A n \in DOMAIN AmlAndFxSchema : Sound(n, AmlAndFxSchema[n])
    <2> DEFINE r == Rule("number", 1, 100, FALSE, FALSE, Fraction(5))
    <2>1. r.kind = "number" /\ r.default.form = "fraction" /\ Typed(r.default)
      BY SMT, ConfigurationAssumption DEF Rule, Fraction, Typed, TextForms
    <2> HIDE DEF r
    <2>2. AmlAndFxSchema["SWAP_SLIPPAGE_PERCENT"] = r
      BY SMT DEF AmlAndFxSchema, r
    <2>3. \A n \in DOMAIN AmlAndFxSchema : n # "SWAP_SLIPPAGE_PERCENT" => Sound(n, AmlAndFxSchema[n])
      BY SMT, NumberRules, OtherRules
         DEF AmlAndFxSchema, Small, OtherKinds, Sound, Flags, Words
    <2> QED BY SMT, <2>1, <2>2, <2>3 DEF Sound
  <1> QED BY SMT, <1>1, <1>2, <1>3, <1>4, <1>5, <1>6, EntryOfPart DEF envSchema

(* How each of them is read again. *)
SettingSound(n, s) ==
    /\ Typed(s.fallback)
    /\ \/ s.read = "parseInt" /\ n \notin Flags \cup Words \cup {"SWAP_SLIPPAGE_PERCENT"}
       \/ s.read = "parseFloat" /\ n \notin Flags \cup Words
       \/ s.read = "flag" /\ n \in Flags
       \/ s.read \in {"text", "list"} /\ n \in Words

(* Which conversion each of the constructors of a setting stands for. *)
LEMMA SettingKinds ==
    /\ \A k : Small(k) => Whole(k).read = "parseInt" /\ Typed(Whole(k).fallback)
    /\ \A m \in {5000, 10000, 10000000} :
         Float(Digits(m)).read = "parseFloat" /\ Typed(Float(Digits(m)).fallback)
    /\ Float(Fraction(5)).read = "parseFloat" /\ Typed(Float(Fraction(5)).fallback)
    /\ \A read : Bare(read).read = read /\ Typed(Bare(read).fallback)
    /\ \A read, f : f \in TextForms =>
         Setting(read, Form(f)).read = read /\ Typed(Setting(read, Form(f)).fallback)
  <1>1. Typed(Fraction(5)) /\ \A m \in {5000, 10000, 10000000} : Typed(Digits(m))
    BY SMT, ConfigurationAssumption DEF Fraction, Digits, Typed, TextForms
  <1>2. \A read, d : Setting(read, d).read = read /\ Setting(read, d).fallback = d
    BY SMT DEF Setting
  <1> QED BY SMT, <1>1, <1>2, Defaults DEF Whole, Float, Bare

(* Each variable of configuration() is read by the conversion of its kind. *)
LEMMA SettingsAreSound == \A n \in DOMAIN Settings : SettingSound(n, Settings[n])
  <1>1. \A n \in DOMAIN NumberSettings : SettingSound(n, NumberSettings[n])
    BY SMT, SettingKinds DEF NumberSettings, Small, SettingSound, Flags, Words
  <1>2. \A n \in DOMAIN BusinessSettings : SettingSound(n, BusinessSettings[n])
    BY SMT, SettingKinds DEF BusinessSettings, Small, SettingSound, Flags, Words, TextForms
  <1>3. \A n \in DOMAIN GroupSettings : SettingSound(n, GroupSettings[n])
    BY SMT, SettingKinds, EntryOfPart DEF GroupSettings, SettingSound, Flags, Words, TextForms, Empty
  <1> QED BY SMT, <1>1, <1>2, <1>3, EntryOfPart DEF Settings

(* What is read again is what was validated: the text t of the environment *)
(* was accepted, and u is there after the defaults are assigned.           *)
Plain(s, u) == u.form \notin {"empty", "exponent"} /\ (u.form = "fraction" => s.read = "parseFloat")

(* The texts that the tables and the environment hold. *)
LEMMA TextTypes ==
    ASSUME NEW t \in Texts
    PROVE  /\ Typed(t) /\ t = [form |-> t.form, milli |-> t.milli]
           /\ t.form = "unset" => t = Unset
           /\ t.form = "empty" => t = Empty
           /\ t.form = "digits" => t.milli % 1000 = 0
  <1>1. CASE t \in {Form(f) : f \in TextForms \ {"digits", "fraction", "exponent", "list", "NaN"}}
    BY SMT, <1>1, ConfigurationAssumption DEF Form, Typed, TextForms, Unset, Empty
  <1>2. CASE t \in {Digits(n) : n \in Integral}
    BY SMT, <1>2, ConfigurationAssumption DEF Digits, Typed, TextForms
  <1>3. CASE t \in {Fraction(n) : n \in Fractional}
    BY SMT, <1>3, ConfigurationAssumption DEF Fraction, Typed, TextForms
  <1>4. CASE t \in {[form |-> "exponent", milli |-> n] : n \in Integral \ {0}}
    BY SMT, <1>4, ConfigurationAssumption DEF Typed, TextForms
  <1> QED BY SMT, <1>1, <1>2, <1>3, <1>4 DEF Texts

(* The conversion of a setting yields what validation parsed. *)
LEMMA ReadAsParsed ==
    ASSUME NEW n, NEW r, NEW s, Sound(n, r), SettingSound(n, s),
           r.kind \in {"number", "flag"},
           NEW t \in Texts, Accepts(r, t), NEW u, u = IF t = Unset THEN r.default ELSE t,
           Plain(s, u)
    PROVE  Read(s, u) = Parsed(r, t)
  <1>1. Parsed(r, t) = IF r.kind = "number" THEN Number(u) ELSE Flagged(u)
    BY SMT DEF Parsed
  <1>2. u # Empty
    BY SMT DEF Plain, Empty, Form
  <1>3. CASE r.kind = "flag"
    <2>1. n \in Flags /\ (u = Unset => FALSE)
      BY SMT, <1>3 DEF Sound, NumberRule, FlagRule, OtherRule, GoodRule, Unset, Form
    <2>2. s.read = "flag"
      BY SMT, <2>1 DEF SettingSound, Flags, Words
    <2> QED BY SMT, <1>1, <1>2, <1>3, <2>1, <2>2 DEF Read
  <1>4. CASE r.kind = "number"
    <2>1. \/ u.form = "digits" /\ u.milli \in Nat /\ u.milli % 1000 = 0
          \/ u.form = "fraction" /\ s.read = "parseFloat"
      <3>1. CASE t = Unset
        <4>1. ~r.required
          BY <3>1 DEF Accepts
        <4>2. u = r.default
          BY SMT, <3>1
        <4>3. Typed(u)
          BY SMT, <4>2 DEF Sound, NumberRule, FlagRule, OtherRule, GoodRule
        <4>4. u.milli \in Nat
          BY SMT, <4>3, ConfigurationAssumption DEF Typed
        <4>5. CASE NumberRule(r)
          <5>1. WholeNumber(r)
            BY <1>4, <4>1, <4>5, Zenon DEF NumberRule, GoodRule
          <5> QED BY SMT, <4>2, <4>4, <5>1 DEF WholeNumber
        <4>6. CASE ~NumberRule(r)
          BY SMT, <1>4, <4>2, <4>6 DEF Sound, FlagRule, OtherRule, Plain
        <4> QED BY <4>5, <4>6
      <3>2. CASE t # Unset
        <4>1. Number(t).form # "NaN" /\ u = t
          BY SMT, <1>4, <3>2 DEF Accepts
        <4>2. IsNumeral(t) \/ t = Empty
          BY SMT, <4>1 DEF Number, Form
        <4>3. /\ Typed(t)
              /\ t.form = "digits" => t.milli % 1000 = 0
          BY SMT, TextTypes
        <4>4. t.milli \in Nat
          BY SMT, <4>3, ConfigurationAssumption DEF Typed
        <4> QED BY SMT, <1>2, <4>1, <4>2, <4>3, <4>4 DEF IsNumeral, Plain
      <3> QED BY SMT, <3>1, <3>2
    <2>2. s.read \in {"parseInt", "parseFloat"}
      BY SMT, <1>4 DEF Sound, SettingSound, NumberRule, FlagRule, OtherRule, Flags, Words
    <2>3. u # Unset
      BY SMT, <2>1 DEF Unset, Form
    <2>4. Number(u) = Digits(u.milli) /\ parseFloat(u) = Digits(u.milli)
      BY SMT, <2>1 DEF Number, parseFloat, IsNumeral
    <2>5. u.form = "digits" => parseInt(u) = Digits(u.milli)
      <3>1. ASSUME u.form = "digits" PROVE (u.milli \div 1000) * 1000 = u.milli
        BY SMT, <2>1, <3>1
      <3> QED BY SMT, <2>1, <3>1 DEF parseInt
    <2> QED BY SMT, <1>1, <1>2, <1>4, <2>1, <2>2, <2>3, <2>4, <2>5 DEF Read
  <1> QED BY SMT, <1>3, <1>4

(* Conversions yield texts. *)
LEMMA ConversionTypes ==
    ASSUME NEW t, Typed(t)
    PROVE  Typed(Number(t)) /\ Typed(parseInt(t)) /\ Typed(parseFloat(t)) /\ Typed(Flagged(t))
  <1>1. Top \in Nat /\ Top >= 1000 /\ t.milli \in Nat /\ t.milli <= Top /\ t.form \in TextForms
    BY SMT, ConfigurationAssumption DEF Typed
  <1>2. (t.milli \div 1000) * 1000 \in Nat /\ (t.milli \div 1000) * 1000 <= t.milli
    BY SMT, <1>1
  <1>3. \A m \in Nat : m <= Top => Typed(Digits(m))
    BY SMT, <1>1 DEF Typed, Digits, TextForms
  <1>4. Typed(Form("NaN")) /\ Typed(Form("false"))
    BY SMT, <1>1 DEF Typed, Form, TextForms
  <1>5. Typed(Number(t)) /\ Typed(parseFloat(t)) /\ Typed(Flagged(t))
    BY SMT, <1>1, <1>3, <1>4 DEF Number, parseFloat, Flagged
  <1>6. Typed(parseInt(t))
    BY SMT, <1>1, <1>2, <1>3, <1>4 DEF parseInt
  <1> QED BY <1>5, <1>6

(* The invariant: what was validated comes from an accepted text, the      *)
(* environment holds that text or the default, and what is configured was  *)
(* read from there.                                                        *)
Supplied(t) == /\ Accepts(envSchema[name], t)
               /\ validated = Parsed(envSchema[name], t)
               /\ text = IF t = Unset THEN envSchema[name].default ELSE t
ConfigurationInv ==
    /\ ConfigurationTypeOK
    /\ boot = "start" => text \in Texts
    /\ boot = "validated" => /\ text \in Texts /\ Accepts(envSchema[name], text)
                             /\ validated = Parsed(envSchema[name], text)
    /\ boot \in {"assigned", "configured", "stopped", "listening"} => \E t \in Texts : Supplied(t)
    /\ boot \in {"configured", "stopped", "listening"} /\ name \in DOMAIN Settings
          => configured = Read(Settings[name], text)

(* Before start-up nothing is validated or configured. *)
LEMMA ConfigurationInvInit == ConfigurationInit => ConfigurationInv
  <1> SUFFICES ASSUME ConfigurationInit PROVE ConfigurationInv
    OBVIOUS
  <1>1. Typed(text) /\ Typed(Unset)
    BY SMT, TextTypes, Defaults DEF ConfigurationInit
  <1>2. /\ name \in DOMAIN envSchema /\ text \in Texts /\ validated = Unset /\ configured = Unset
        /\ boot = "start"
    BY DEF ConfigurationInit
  <1> QED BY SMT, <1>1, <1>2 DEF ConfigurationInv, ConfigurationTypeOK, Typed

(* Validation, the assignment of the defaults and configuration() keep it. *)
LEMMA ConfigurationInvStep ==
    ConfigurationInv /\ [ConfigurationNext]_configurationVars => ConfigurationInv'
  <1> SUFFICES ASSUME ConfigurationInv, [ConfigurationNext]_configurationVars
               PROVE  ConfigurationInv'
    OBVIOUS
  <1> DEFINE r == envSchema[name]
  <1>0. /\ name \in DOMAIN envSchema /\ Typed(text) /\ Typed(validated) /\ Typed(configured)
        /\ boot \in {"start", "refused", "validated", "assigned", "configured", "stopped", "listening"}
    BY SMT DEF ConfigurationInv, ConfigurationTypeOK, Typed
  <1>a. Typed(r.default) /\ Typed(Unset)
    <2>1. Sound(name, r)
      BY SMT, <1>0, SchemaIsSound
    <2> QED BY SMT, <2>1, Defaults DEF Sound, NumberRule, FlagRule, OtherRule, GoodRule
  <1>b. Typed(Parsed(r, text))
    BY SMT, <1>0, <1>a, ConversionTypes DEF Parsed
  <1> HIDE DEF r
  <1>1. CASE validateEnv
    <2>1. CASE Accepts(r, text)
      <3>1. /\ name' = name /\ text' = text /\ configured' = configured
            /\ validated' = Parsed(r, text) /\ boot' = "validated" /\ boot = "start"
        BY <1>1, <2>1 DEF validateEnv, r
      <3>2. text \in Texts
        BY <3>1 DEF ConfigurationInv
      <3> QED BY SMT, <1>0, <1>b, <2>1, <3>1, <3>2
              DEF ConfigurationInv, ConfigurationTypeOK, Typed, r
    <2>2. CASE ~Accepts(r, text)
      <3>1. /\ name' = name /\ text' = text /\ configured' = configured
            /\ validated' = Unset /\ boot' = "refused"
        BY <1>1, <2>2 DEF validateEnv, r
      <3> QED BY SMT, <1>0, <1>a, <3>1 DEF ConfigurationInv, ConfigurationTypeOK, Typed
    <2> QED BY <2>1, <2>2
  <1>2. CASE assignVarsToProcess
    <2>1. /\ name' = name /\ validated' = validated /\ configured' = configured
          /\ boot' = "assigned" /\ boot = "validated"
          /\ text' = IF text = Unset THEN r.default ELSE text
      BY <1>2 DEF assignVarsToProcess, r
    <2>2. text \in Texts /\ Accepts(r, text) /\ validated = Parsed(r, text)
      BY <2>1 DEF ConfigurationInv, r
    <2>3. \E t \in Texts : Supplied(t)'
      BY SMT, <2>1, <2>2 DEF Supplied, r
    <2>4. Typed(text')
      BY SMT, <1>0, <1>a, <2>1
    <2> QED BY SMT, <1>0, <2>1, <2>3, <2>4 DEF ConfigurationInv, ConfigurationTypeOK, Typed
  <1>3. CASE configuration
    <2>1. /\ name' = name /\ validated' = validated /\ text' = text
          /\ boot' = "configured" /\ boot = "assigned"
          /\ configured' = IF name \in DOMAIN Settings THEN Read(Settings[name], text) ELSE validated
      BY <1>3 DEF configuration
    <2>2. \E t \in Texts : Supplied(t)'
      BY SMT, <2>1 DEF ConfigurationInv, Supplied
    <2>3. Typed(configured')
      <3>1. CASE name \in DOMAIN Settings
        <4> DEFINE s == Settings[name]
        <4>1. Typed(s.fallback)
          BY SMT, <3>1, SettingsAreSound DEF SettingSound
        <4>2. Typed(Form("list"))
          BY SMT, Defaults DEF TextForms
        <4>3. Typed(Read(s, text))
          BY SMT, <1>0, <4>1, <4>2, ConversionTypes DEF Read
        <4> QED BY SMT, <2>1, <3>1, <4>3
      <3> QED BY SMT, <1>0, <2>1, <3>1
    <2> QED BY SMT, <1>0, <2>1, <2>2, <2>3 DEF ConfigurationInv, ConfigurationTypeOK, Typed
  <1>4. CASE bootstrap
    <2>1. /\ name' = name /\ validated' = validated /\ text' = text /\ configured' = configured
          /\ boot' \in {"stopped", "listening"} /\ boot = "configured"
      BY <1>4 DEF bootstrap
    <2>2. \E t \in Texts : Supplied(t)'
      BY SMT, <2>1 DEF ConfigurationInv, Supplied
    <2> QED BY SMT, <1>0, <2>1, <2>2 DEF ConfigurationInv, ConfigurationTypeOK, Typed
  <1>5. CASE UNCHANGED configurationVars
    <2>1. /\ name' = name /\ validated' = validated /\ text' = text /\ configured' = configured
          /\ boot' = boot
      BY <1>5 DEF configurationVars
    <2>2. (\E t \in Texts : Supplied(t)) => \E t \in Texts : Supplied(t)'
      BY SMT, <2>1 DEF Supplied
    <2> QED BY SMT, <1>0, <2>1, <2>2 DEF ConfigurationInv, ConfigurationTypeOK, Typed
  <1> QED BY <1>1, <1>2, <1>3, <1>4, <1>5 DEF ConfigurationNext

(* A process that listens works with the numbers and flags it validated,   *)
(* whatever numbers the environment holds: the schema of env.validation    *)
(* and the settings of configuration() agree on every variable, and on the *)
(* defaults of those that are left out.                                    *)
THEOREM ConfiguredRight == ConfigurationSpec => []ConfiguredAsValidated
  <1>1. ConfigurationInv => ConfiguredAsValidated
    <2> SUFFICES ASSUME ConfigurationInv, boot = "listening", name \in DOMAIN Settings,
                        Plain(Settings[name], text),
                        envSchema[name].kind \in {"number", "flag"}
                 PROVE  configured = validated
      BY Zenon DEF ConfiguredAsValidated, Plain
    <2>1. Sound(name, envSchema[name])
      BY SMT, SchemaIsSound DEF ConfigurationInv, ConfigurationTypeOK
    <2>2. SettingSound(name, Settings[name])
      BY SMT, SettingsAreSound
    <2>3. PICK t \in Texts : Supplied(t)
      BY DEF ConfigurationInv
    <2>4. Read(Settings[name], text) = Parsed(envSchema[name], t)
      BY SMT, <2>1, <2>2, <2>3, ReadAsParsed DEF Supplied
    <2> QED BY SMT, <2>3, <2>4 DEF ConfigurationInv, Supplied
  <1> QED BY <1>1, ConfigurationInvInit, ConfigurationInvStep, PTL DEF ConfigurationSpec

----------------------------------------------------------------------------
(* Migrations. *)

(* The schema along a list of statements is what each statement leaves. *)
LEMMA SchemaAlong ==
    ASSUME NEW sts, Len(sts) \in Nat, NEW s
    PROVE  /\ SchemaAfter(sts, s)[0] = s
           /\ \A i \in 1..Len(sts) :
                SchemaAfter(sts, s)[i] = Result(sts[i], SchemaAfter(sts, s)[i - 1])
  <1> DEFINE L == Len(sts)
             Along(f, n) == /\ DOMAIN f = 0..n /\ f[0] = s
                            /\ \A i \in 1..n : f[i] = Result(sts[i], f[i - 1])
             Body(f) == [i \in 0..L |-> IF i = 0 THEN s ELSE Result(sts[i], f[i - 1])]
             Bad == {n \in 0..L : ~ \E f : Along(f, n)}
  <1>1. ASSUME NEW n \in Bad, \A m \in 0..(n - 1) : m \notin Bad PROVE FALSE
    <2>1. CASE n = 0
      <3> DEFINE g == [i \in 0..0 |-> s]
      <3>1. DOMAIN g = 0..0 /\ g[0] = s /\ 1..0 = {}
        OBVIOUS
      <3> HIDE DEF g
      <3>2. Along(g, 0)
        BY <3>1
      <3> QED BY <2>1, <3>2
    <2>2. CASE n # 0
      <3>a. n - 1 \in 0..L /\ n - 1 \in 0..(n - 1)
        BY <2>2
      <3>b. n - 1 \notin Bad
        BY ONLY <1>1, <3>a
      <3>c. \E f : Along(f, n - 1)
        <4> HIDE DEF Along
        <4> QED BY ONLY <3>a, <3>b, Zenon
      <3>1. PICK f : Along(f, n - 1)
        BY ONLY <3>c
      <3> DEFINE g == [i \in 0..n |-> IF i = n THEN Result(sts[n], f[n - 1]) ELSE f[i]]
      <3>2. Along(g, n)
        BY <2>2, <3>1
      <3> QED BY <3>2
    <2> QED BY <2>1, <2>2
  <1>2. Bad = {}
    <2> HIDE DEF Bad
    <2>1. Bad \in SUBSET (0..L)
      BY DEF Bad
    <2> QED BY ONLY L \in Nat, <1>1, <2>1, NoLeastNumber
  <1>3. PICK f : Along(f, L)
    BY <1>2
  <1>4. Body(f) = [i \in 0..L |-> f[i]]
    BY <1>3
  <1>5. Along(Body(f), L) /\ Body(f) = Body(Body(f))
    BY <1>3, <1>4
  <1> DEFINE a == CHOOSE h : h = Body(h)
  <1>6. a = Body(a)
    BY <1>5
  <1>7. SchemaAfter(sts, s) = a
    BY DEF SchemaAfter
  <1> HIDE DEF a
  <1>8. a[0] = s /\ \A i \in 1..L : a[i] = Result(sts[i], a[i - 1])
    BY <1>6
  <1> QED BY <1>7, <1>8

(* What a statement creates and what it takes away, with its parts. *)
Makes(st, n) == st.does = "create" /\ n \in st.names
Drops(st, n) == st.does = "drop" /\ (n \in st.names \/ \E t \in st.names : n \in Parts(t))

(* What one statement leaves, name by name. *)
LEMMA OneStatement ==
    ASSUME NEW st, NEW s, NEW n
    PROVE  /\ n \in Result(st, s) => n \in s \/ Makes(st, n)
           /\ Makes(st, n) => n \in Result(st, s)
           /\ n \in s /\ ~Drops(st, n) => n \in Result(st, s)
  <1>1. CASE st.does = "create"
    BY <1>1 DEF Result, Makes
  <1>2. CASE st.does = "drop"
    BY <1>2 DEF Result, Makes, Drops
  <1>3. CASE st.does \notin {"create", "drop"}
    BY <1>3 DEF Result, Makes
  <1> QED BY <1>1, <1>2, <1>3

(* A list of statements leaves nothing that was not there and that none    *)
(* of them makes.                                                          *)
LEMMA NothingFromNowhere ==
    ASSUME NEW sts, Len(sts) \in Nat, NEW s, NEW n,
           n \notin s, \A j \in 1..Len(sts) : ~Makes(sts[j], n)
    PROVE  n \notin SchemaAfter(sts, s)[Len(sts)]
  <1> DEFINE L == Len(sts)
             f == SchemaAfter(sts, s)
             Bad == {i \in 0..L : n \in f[i]}
  <1>1. f[0] = s /\ \A i \in 1..L : f[i] = Result(sts[i], f[i - 1])
    BY SchemaAlong
  <1> HIDE DEF f
  <1>2. ASSUME NEW i \in Bad, \A m \in 0..(i - 1) : m \notin Bad PROVE FALSE
    <2>1. i # 0
      BY <1>1
    <2>2. i \in 1..L /\ i - 1 \in 0..(i - 1) /\ i - 1 \in 0..L
      BY <2>1
    <2>3. n \notin f[i - 1]
      BY <1>2, <2>2
    <2>4. f[i] = Result(sts[i], f[i - 1]) /\ ~Makes(sts[i], n) /\ n \in f[i]
      BY <1>1, <2>2
    <2> QED BY <2>3, <2>4, OneStatement
  <1>3. Bad = {}
    <2> HIDE DEF Bad
    <2>1. Bad \in SUBSET (0..L)
      BY DEF Bad
    <2> QED BY ONLY L \in Nat, <1>2, <2>1, NoLeastNumber
  <1>4. L \notin Bad /\ L \in 0..L
    BY <1>3
  <1> QED BY <1>4 DEF f

(* It leaves what was there, and what one of them makes, unless another    *)
(* drops it.                                                               *)
LEMMA NothingLost ==
    ASSUME NEW sts, Len(sts) \in Nat, NEW s, NEW n,
           \A j \in 1..Len(sts) : ~Drops(sts[j], n),
           n \in s \/ \E j \in 1..Len(sts) : Makes(sts[j], n)
    PROVE  n \in SchemaAfter(sts, s)[Len(sts)]
  <1> DEFINE L == Len(sts)
             f == SchemaAfter(sts, s)
  <1>1. f[0] = s /\ \A i \in 1..L : f[i] = Result(sts[i], f[i - 1])
    BY SchemaAlong
  <1> HIDE DEF f
  <1>2. ASSUME NEW k \in 0..L, n \in f[k] PROVE n \in f[L]
    <2> DEFINE Bad == {i \in 0..L : i >= k /\ n \notin f[i]}
    <2>1. ASSUME NEW i \in Bad, \A m \in 0..(i - 1) : m \notin Bad PROVE FALSE
      <3>1. i # k
        BY <1>2
      <3>2. i \in 1..L /\ i - 1 \in 0..(i - 1) /\ i - 1 \in 0..L /\ i - 1 >= k
        BY <3>1
      <3>3. n \in f[i - 1]
        BY <2>1, <3>2
      <3>4. f[i] = Result(sts[i], f[i - 1]) /\ ~Drops(sts[i], n) /\ n \notin f[i]
        BY <1>1, <3>2
      <3> QED BY <3>3, <3>4, OneStatement
    <2>2. Bad = {}
      <3> HIDE DEF Bad
      <3>1. Bad \in SUBSET (0..L)
        BY DEF Bad
      <3> QED BY ONLY L \in Nat, <2>1, <3>1, NoLeastNumber
    <2>3. L \notin Bad /\ L \in 0..L /\ L >= k
      BY <2>2
    <2> QED BY <2>3
  <1>3. \E k \in 0..L : n \in f[k]
    <2>1. CASE n \in s
      BY <1>1, <2>1
    <2>2. ASSUME NEW j \in 1..L, Makes(sts[j], n) PROVE \E k \in 0..L : n \in f[k]
      <3>1. n \in f[j] /\ j \in 0..L
        BY <1>1, <2>2, OneStatement
      <3> QED BY <3>1
    <2> QED BY <2>1, <2>2
  <1> QED BY <1>2, <1>3 DEF f

(* The index that a revert takes along with its table and no run makes     *)
(* again, the names that the migrations after the first one add, and the   *)
(* tables of the first one.                                                *)
Exempt == "IDX_ledger_verification_results_ranAt"
AddedNames == {"transaction_receipt_seq", "currency_pairs", "IDX_currency_pairs_isActive",
               "fee_records", "IDX_fee_records_transactionId", "IDX_fee_records_userId",
               "IDX_transactions_receiptNumber", "IDX_kyc_documents_active_user",
               "IDX_ledger_verification_ranAt", "transactions.receiptNumber",
               "wallet_balances.is_primary", "wallet_balances.keyVersion",
               "users.preferredLanguage"}
TableNames == {"users", "user_accounts", "wallet_balances", "transactions", "refresh_tokens",
               "password_reset_tokens", "idempotency_keys", "kyc_documents", "otps",
               "activity_events", "aml_alerts", "audit_logs", "fx_trades", "ledger_entries",
               "device_tokens", "organisations", "organisation_members",
               "ledger_verification_results", "referrals", "support_tickets",
               "terms_acceptances", "webhook_endpoints", "webhook_deliveries"}

(* The tables of the first migration are those names, and no other. *)
LEMMA TablesNamed ==
    /\ DOMAIN initialTables = TableNames
    /\ initialTables["ledger_verification_results"].indexes = {Exempt}
  <1> DEFINE parts == {accountTables, securityTables, ledgerTables, serviceTables}
             table == "ledger_verification_results"
  <1>1. DOMAIN initialTables = UNION {DOMAIN p : p \in parts}
    BY DEF initialTables, Together
  <1>2. DOMAIN accountTables = {"users", "user_accounts", "wallet_balances", "transactions"}
    BY DEF accountTables
  <1>3. DOMAIN securityTables = {"refresh_tokens", "password_reset_tokens", "idempotency_keys",
               "kyc_documents", "otps", "activity_events", "aml_alerts"}
    BY DEF securityTables
  <1>4. DOMAIN ledgerTables = {"audit_logs", "fx_trades", "ledger_entries", "device_tokens",
               "organisations", "organisation_members", "ledger_verification_results"}
    BY DEF ledgerTables
  <1>5. DOMAIN serviceTables = {"referrals", "support_tickets", "terms_acceptances",
               "webhook_endpoints", "webhook_deliveries"}
    BY DEF serviceTables
  <1>6. DOMAIN initialTables = TableNames
    BY <1>1, <1>2, <1>3, <1>4, <1>5 DEF TableNames
  <1>7. table \in DOMAIN initialTables
    BY <1>6 DEF TableNames
  <1>8. \E p \in parts : table \in DOMAIN p /\ initialTables[table] = p[table]
    BY <1>7, EntryOfPart DEF initialTables
  <1>9. initialTables[table] = ledgerTables[table]
    BY <1>2, <1>3, <1>4, <1>5, <1>8
  <1>10. ledgerTables[table].indexes = {Exempt}
    BY DEF ledgerTables, Table, Exempt
  <1> QED BY <1>6, <1>9, <1>10

(* What goes with the names that a migration may drop. *)
LEMMA PartsOfDropped ==
    /\ \A t : t \notin TableNames \cup {"currency_pairs", "fee_records"} => Parts(t) = {}
    /\ Parts("ledger_verification_results") = {Exempt, "IDX_ledger_verification_ranAt"}
    /\ Parts("currency_pairs") = {"IDX_currency_pairs_isActive"}
    /\ Parts("fee_records") = {"IDX_fee_records_transactionId", "IDX_fee_records_userId"}
  <1>1. /\ DOMAIN indexesAdded = {"transactions", "kyc_documents", "ledger_verification_results"}
        /\ indexesAdded["ledger_verification_results"] = {"IDX_ledger_verification_ranAt"}
    BY DEF indexesAdded
  <1>2. DOMAIN columnsAdded = {"transactions", "wallet_balances", "users", "terms_acceptances"}
    BY DEF columnsAdded
  <1>3. /\ DOMAIN tablesAdded = {"currency_pairs", "fee_records"}
        /\ tablesAdded["currency_pairs"] = {"IDX_currency_pairs_isActive"}
        /\ tablesAdded["fee_records"] = {"IDX_fee_records_transactionId", "IDX_fee_records_userId"}
    BY DEF tablesAdded
  <1> QED BY <1>1, <1>2, <1>3, TablesNamed DEF Parts, Under, TableNames

(* The names of the schema: those of InitialSchema and those that others   *)
(* add.                                                                    *)
LEMMA NamesKnown ==
    /\ AllNames = initialNames \cup AddedNames
    /\ TableNames \cup initialColumns \subseteq initialNames
  <1>1. /\ DOMAIN indexesAdded = {"transactions", "kyc_documents", "ledger_verification_results"}
        /\ indexesAdded["transactions"] = {"IDX_transactions_receiptNumber"}
        /\ indexesAdded["kyc_documents"] = {"IDX_kyc_documents_active_user"}
        /\ indexesAdded["ledger_verification_results"] = {"IDX_ledger_verification_ranAt"}
    BY DEF indexesAdded
  <1>2. /\ DOMAIN columnsAdded = {"transactions", "wallet_balances", "users", "terms_acceptances"}
        /\ columnsAdded["transactions"] = initialColumns \cup {"transactions.receiptNumber"}
        /\ columnsAdded["wallet_balances"] = {"wallet_balances.is_primary", "wallet_balances.keyVersion"}
        /\ columnsAdded["users"] = {"users.preferredLanguage"}
        /\ columnsAdded["terms_acceptances"] = ofConstraint
    BY DEF columnsAdded, initialColumns
  <1>3. /\ DOMAIN tablesAdded = {"currency_pairs", "fee_records"}
        /\ tablesAdded["currency_pairs"] = {"IDX_currency_pairs_isActive"}
        /\ tablesAdded["fee_records"] = {"IDX_fee_records_transactionId", "IDX_fee_records_userId"}
    BY DEF tablesAdded
  <1>4. TableNames \cup initialColumns \cup ofConstraint \subseteq initialNames
    BY TablesNamed DEF initialNames
  <1>5. \A t \in TableNames : initialTables[t].indexes \subseteq initialNames
    BY TablesNamed DEF initialNames
  <1>6. AllNames = initialNames \cup {"transaction_receipt_seq"} \cup {"currency_pairs", "fee_records"}
            \cup UNION {Parts(t) : t \in TableNames \cup {"currency_pairs", "fee_records"}}
    BY <1>3, TablesNamed DEF AllNames
  <1>7. \A t \in TableNames \cup {"currency_pairs", "fee_records"} :
            Parts(t) \subseteq initialNames \cup AddedNames
    <2>1. \A t : Under(indexesAdded, t) \subseteq AddedNames
      BY <1>1 DEF Under, AddedNames
    <2>2. \A t : Under(columnsAdded, t) \subseteq initialNames \cup AddedNames
      BY <1>2, <1>4 DEF Under, AddedNames
    <2>3. \A t : Under(tablesAdded, t) \subseteq AddedNames
      BY <1>3 DEF Under, AddedNames
    <2> QED BY <1>5, <2>1, <2>2, <2>3, TablesNamed DEF Parts
  <1>8. AddedNames \subseteq AllNames
    <2>1. /\ "IDX_transactions_receiptNumber" \in Parts("transactions")
          /\ "transactions.receiptNumber" \in Parts("transactions")
          /\ "IDX_kyc_documents_active_user" \in Parts("kyc_documents")
          /\ "IDX_ledger_verification_ranAt" \in Parts("ledger_verification_results")
          /\ "wallet_balances.is_primary" \in Parts("wallet_balances")
          /\ "wallet_balances.keyVersion" \in Parts("wallet_balances")
          /\ "users.preferredLanguage" \in Parts("users")
          /\ "IDX_currency_pairs_isActive" \in Parts("currency_pairs")
          /\ "IDX_fee_records_transactionId" \in Parts("fee_records")
          /\ "IDX_fee_records_userId" \in Parts("fee_records")
      BY <1>1, <1>2, <1>3 DEF Parts, Under
    <2> QED BY <1>6, <2>1 DEF AddedNames, TableNames
  <1>9. {"transaction_receipt_seq", "currency_pairs", "fee_records"} \subseteq AddedNames
    BY DEF AddedNames
  <1> QED BY <1>4, <1>6, <1>7, <1>8, <1>9

(* What makes a migration safe: its up only creates, names of the schema,  *)
(* and its down only drops what its up creates, but for the exempt name.   *)
Steps(list) == {list[i] : i \in 1..Len(list)}
Creates(x, n) == \E j \in 1..Len(x.up) : Makes(x.up[j], n)
GoesUp(x) ==
    /\ x.up \in Seq(Steps(x.up))
    /\ \A i \in 1..Len(x.up) :
         x.up[i].does \in {"create", "alter"} /\ x.up[i].names \subseteq AllNames
GoesDown(x) ==
    /\ Len(x.down) \in Nat
    /\ \A i \in 1..Len(x.down) :
         /\ x.down[i].does \in {"drop", "alter"}
         /\ \A n : Drops(x.down[i], n) /\ n # Exempt => Creates(x, n)

(* The statements of a list that is written out. *)
LEMMA TuplesAreLists ==
    /\ \A a : <<a>> \in Seq(Steps(<<a>>))
    /\ \A a, b, c : <<a, b, c>> \in Seq(Steps(<<a, b, c>>))
    /\ \A a, b, c, d : <<a, b, c, d>> \in Seq(Steps(<<a, b, c, d>>))
  <1>1. ASSUME NEW a PROVE <<a>> \in Seq(Steps(<<a>>))
    <2>1. a \in Steps(<<a>>)
      BY DEF Steps
    <2> QED BY <2>1
  <1>2. ASSUME NEW a, NEW b, NEW c PROVE <<a, b, c>> \in Seq(Steps(<<a, b, c>>))
    <2>1. {a, b, c} \subseteq Steps(<<a, b, c>>)
      BY DEF Steps
    <2> QED BY <2>1
  <1>3. ASSUME NEW a, NEW b, NEW c, NEW d
        PROVE  <<a, b, c, d>> \in Seq(Steps(<<a, b, c, d>>))
    <2>1. {a, b, c, d} \subseteq Steps(<<a, b, c, d>>)
      BY DEF Steps
    <2> QED BY <2>1
  <1> QED BY <1>1, <1>2, <1>3

(* Its statements create what it adds, and its down() drops no more. *)
LEMMA AlterIdempotencyKeyLengthSound ==
    /\ GoesUp(AlterIdempotencyKeyLength) /\ GoesDown(AlterIdempotencyKeyLength)
    /\ \A n \in {} : Creates(AlterIdempotencyKeyLength, n)
  <1> DEFINE u == AlterIdempotencyKeyLength.up
             d == AlterIdempotencyKeyLength.down
  <1>1. /\ Len(u) = 1
        /\ u[1].does = "alter" /\ u[1].names = {}
    BY DEF AlterIdempotencyKeyLength, Migration, Create, DropNames, Alter
  <1>2. /\ Len(d) = 1
        /\ d[1].does = "alter" /\ d[1].names = {}
    BY DEF AlterIdempotencyKeyLength, Migration, Create, DropNames, Alter
  <1>0. u \in Seq(Steps(u))
    BY TuplesAreLists DEF AlterIdempotencyKeyLength, Migration
  <1> HIDE DEF u, d
  <1>3. \A n \in {} : n \in AllNames /\ Creates(AlterIdempotencyKeyLength, n)
    BY <1>1, NamesKnown DEF Creates, Makes, AddedNames, initialColumns, TableNames, u
  <1>4. GoesUp(AlterIdempotencyKeyLength)
    BY <1>0, <1>1, <1>3 DEF GoesUp, u
  <1>5. \A i \in 1..1 : \A n : Drops(d[i], n) /\ n # Exempt => n \in {}
    BY <1>2, PartsOfDropped DEF Drops, TableNames
  <1>6. GoesDown(AlterIdempotencyKeyLength)
    BY <1>2, <1>3, <1>5 DEF GoesDown, d
  <1> QED BY <1>3, <1>4, <1>6

(* Its statements create what it adds, and its down() drops no more. *)
LEMMA AddRetryCountToTransactionsSound ==
    /\ GoesUp(AddRetryCountToTransactions) /\ GoesDown(AddRetryCountToTransactions)
    /\ \A n \in {"transactions.retryCount"} : Creates(AddRetryCountToTransactions, n)
  <1> DEFINE u == AddRetryCountToTransactions.up
             d == AddRetryCountToTransactions.down
  <1>1. /\ Len(u) = 1
        /\ u[1].does = "create" /\ u[1].names = {"transactions.retryCount"}
    BY DEF AddRetryCountToTransactions, Migration, Create, DropNames, Alter
  <1>2. /\ Len(d) = 2
        /\ d[1].does = "alter" /\ d[1].names = {}
        /\ d[2].does = "drop" /\ d[2].names = {"transactions.retryCount"}
    BY DEF AddRetryCountToTransactions, Migration, Create, DropNames, Alter
  <1>0. u \in Seq(Steps(u))
    BY TuplesAreLists DEF AddRetryCountToTransactions, Migration
  <1> HIDE DEF u, d
  <1>3. \A n \in {"transactions.retryCount"} : n \in AllNames /\ Creates(AddRetryCountToTransactions, n)
    BY <1>1, NamesKnown DEF Creates, Makes, AddedNames, initialColumns, TableNames, u
  <1>4. GoesUp(AddRetryCountToTransactions)
    BY <1>0, <1>1, <1>3 DEF GoesUp, u
  <1>5. \A i \in 1..2 : \A n : Drops(d[i], n) /\ n # Exempt => n \in {"transactions.retryCount"}
    BY <1>2, PartsOfDropped DEF Drops, TableNames
  <1>6. GoesDown(AddRetryCountToTransactions)
    BY <1>2, <1>3, <1>5 DEF GoesDown, d
  <1> QED BY <1>3, <1>4, <1>6

(* Its statements create what it adds, and its down() drops no more. *)
LEMMA AddTxHashAndLedgerVerificationSound ==
    /\ GoesUp(AddTxHashAndLedgerVerification) /\ GoesDown(AddTxHashAndLedgerVerification)
    /\ \A n \in {"IDX_ledger_verification_ranAt", "ledger_verification_results", "transactions.txHash"} : Creates(AddTxHashAndLedgerVerification, n)
  <1> DEFINE u == AddTxHashAndLedgerVerification.up
             d == AddTxHashAndLedgerVerification.down
  <1>1. /\ Len(u) = 4
        /\ u[1].does = "alter" /\ u[1].names = {}
        /\ u[2].does = "create" /\ u[2].names = {"transactions.txHash"}
        /\ u[3].does = "create" /\ u[3].names = {"ledger_verification_results"}
        /\ u[4].does = "create" /\ u[4].names = {"IDX_ledger_verification_ranAt"}
    BY DEF AddTxHashAndLedgerVerification, Migration, Create, DropNames, Alter
  <1>2. /\ Len(d) = 4
        /\ d[1].does = "drop" /\ d[1].names = {"IDX_ledger_verification_ranAt"}
        /\ d[2].does = "drop" /\ d[2].names = {"ledger_verification_results"}
        /\ d[3].does = "drop" /\ d[3].names = {"transactions.txHash"}
        /\ d[4].does = "alter" /\ d[4].names = {}
    BY DEF AddTxHashAndLedgerVerification, Migration, Create, DropNames, Alter
  <1>0. u \in Seq(Steps(u))
    BY TuplesAreLists DEF AddTxHashAndLedgerVerification, Migration
  <1> HIDE DEF u, d
  <1>3. \A n \in {"IDX_ledger_verification_ranAt", "ledger_verification_results", "transactions.txHash"} : n \in AllNames /\ Creates(AddTxHashAndLedgerVerification, n)
    BY <1>1, NamesKnown DEF Creates, Makes, AddedNames, initialColumns, TableNames, u
  <1>4. GoesUp(AddTxHashAndLedgerVerification)
    BY <1>0, <1>1, <1>3 DEF GoesUp, u
  <1>5. \A i \in 1..4 : \A n : Drops(d[i], n) /\ n # Exempt => n \in {"IDX_ledger_verification_ranAt", "ledger_verification_results", "transactions.txHash"}
    BY <1>2, PartsOfDropped DEF Drops, TableNames
  <1>6. GoesDown(AddTxHashAndLedgerVerification)
    BY <1>2, <1>3, <1>5 DEF GoesDown, d
  <1> QED BY <1>3, <1>4, <1>6

(* Its statements create what it adds, and its down() drops no more. *)
LEMMA AddIsPrimaryToWalletsSound ==
    /\ GoesUp(AddIsPrimaryToWallets) /\ GoesDown(AddIsPrimaryToWallets)
    /\ \A n \in {"wallet_balances.is_primary"} : Creates(AddIsPrimaryToWallets, n)
  <1> DEFINE u == AddIsPrimaryToWallets.up
             d == AddIsPrimaryToWallets.down
  <1>1. /\ Len(u) = 1
        /\ u[1].does = "create" /\ u[1].names = {"wallet_balances.is_primary"}
    BY DEF AddIsPrimaryToWallets, Migration, Create, DropNames, Alter
  <1>2. /\ Len(d) = 1
        /\ d[1].does = "drop" /\ d[1].names = {"wallet_balances.is_primary"}
    BY DEF AddIsPrimaryToWallets, Migration, Create, DropNames, Alter
  <1>0. u \in Seq(Steps(u))
    BY TuplesAreLists DEF AddIsPrimaryToWallets, Migration
  <1> HIDE DEF u, d
  <1>3. \A n \in {"wallet_balances.is_primary"} : n \in AllNames /\ Creates(AddIsPrimaryToWallets, n)
    BY <1>1, NamesKnown DEF Creates, Makes, AddedNames, initialColumns, TableNames, u
  <1>4. GoesUp(AddIsPrimaryToWallets)
    BY <1>0, <1>1, <1>3 DEF GoesUp, u
  <1>5. \A i \in 1..1 : \A n : Drops(d[i], n) /\ n # Exempt => n \in {"wallet_balances.is_primary"}
    BY <1>2, PartsOfDropped DEF Drops, TableNames
  <1>6. GoesDown(AddIsPrimaryToWallets)
    BY <1>2, <1>3, <1>5 DEF GoesDown, d
  <1> QED BY <1>3, <1>4, <1>6

(* Its statements create what it adds, and its down() drops no more. *)
LEMMA AddReceiptNumberToTransactionsSound ==
    /\ GoesUp(AddReceiptNumberToTransactions) /\ GoesDown(AddReceiptNumberToTransactions)
    /\ \A n \in {"IDX_transactions_receiptNumber", "transaction_receipt_seq", "transactions.receiptNumber"} : Creates(AddReceiptNumberToTransactions, n)
  <1> DEFINE u == AddReceiptNumberToTransactions.up
             d == AddReceiptNumberToTransactions.down
  <1>1. /\ Len(u) = 3
        /\ u[1].does = "create" /\ u[1].names = {"transaction_receipt_seq"}
        /\ u[2].does = "create" /\ u[2].names = {"transactions.receiptNumber"}
        /\ u[3].does = "create" /\ u[3].names = {"IDX_transactions_receiptNumber"}
    BY DEF AddReceiptNumberToTransactions, Migration, Create, DropNames, Alter
  <1>2. /\ Len(d) = 4
        /\ d[1].does = "drop" /\ d[1].names = {"IDX_transactions_receiptNumber"}
        /\ d[2].does = "alter" /\ d[2].names = {}
        /\ d[3].does = "drop" /\ d[3].names = {"transactions.receiptNumber"}
        /\ d[4].does = "drop" /\ d[4].names = {"transaction_receipt_seq"}
    BY DEF AddReceiptNumberToTransactions, Migration, Create, DropNames, Alter
  <1>0. u \in Seq(Steps(u))
    BY TuplesAreLists DEF AddReceiptNumberToTransactions, Migration
  <1> HIDE DEF u, d
  <1>3. \A n \in {"IDX_transactions_receiptNumber", "transaction_receipt_seq", "transactions.receiptNumber"} : n \in AllNames /\ Creates(AddReceiptNumberToTransactions, n)
    BY <1>1, NamesKnown DEF Creates, Makes, AddedNames, initialColumns, TableNames, u
  <1>4. GoesUp(AddReceiptNumberToTransactions)
    BY <1>0, <1>1, <1>3 DEF GoesUp, u
  <1>5. \A i \in 1..4 : \A n : Drops(d[i], n) /\ n # Exempt => n \in {"IDX_transactions_receiptNumber", "transaction_receipt_seq", "transactions.receiptNumber"}
    BY <1>2, PartsOfDropped DEF Drops, TableNames
  <1>6. GoesDown(AddReceiptNumberToTransactions)
    BY <1>2, <1>3, <1>5 DEF GoesDown, d
  <1> QED BY <1>3, <1>4, <1>6

(* Its statements create what it adds, and its down() drops no more. *)
LEMMA AddActiveKycUniqueIndexSound ==
    /\ GoesUp(AddActiveKycUniqueIndex) /\ GoesDown(AddActiveKycUniqueIndex)
    /\ \A n \in {"IDX_kyc_documents_active_user"} : Creates(AddActiveKycUniqueIndex, n)
  <1> DEFINE u == AddActiveKycUniqueIndex.up
             d == AddActiveKycUniqueIndex.down
  <1>1. /\ Len(u) = 1
        /\ u[1].does = "create" /\ u[1].names = {"IDX_kyc_documents_active_user"}
    BY DEF AddActiveKycUniqueIndex, Migration, Create, DropNames, Alter
  <1>2. /\ Len(d) = 1
        /\ d[1].does = "drop" /\ d[1].names = {"IDX_kyc_documents_active_user"}
    BY DEF AddActiveKycUniqueIndex, Migration, Create, DropNames, Alter
  <1>0. u \in Seq(Steps(u))
    BY TuplesAreLists DEF AddActiveKycUniqueIndex, Migration
  <1> HIDE DEF u, d
  <1>3. \A n \in {"IDX_kyc_documents_active_user"} : n \in AllNames /\ Creates(AddActiveKycUniqueIndex, n)
    BY <1>1, NamesKnown DEF Creates, Makes, AddedNames, initialColumns, TableNames, u
  <1>4. GoesUp(AddActiveKycUniqueIndex)
    BY <1>0, <1>1, <1>3 DEF GoesUp, u
  <1>5. \A i \in 1..1 : \A n : Drops(d[i], n) /\ n # Exempt => n \in {"IDX_kyc_documents_active_user"}
    BY <1>2, PartsOfDropped DEF Drops, TableNames
  <1>6. GoesDown(AddActiveKycUniqueIndex)
    BY <1>2, <1>3, <1>5 DEF GoesDown, d
  <1> QED BY <1>3, <1>4, <1>6

(* Its statements create what it adds, and its down() drops no more. *)
LEMMA AddKeyVersionToWalletBalancesSound ==
    /\ GoesUp(AddKeyVersionToWalletBalances) /\ GoesDown(AddKeyVersionToWalletBalances)
    /\ \A n \in {"wallet_balances.keyVersion"} : Creates(AddKeyVersionToWalletBalances, n)
  <1> DEFINE u == AddKeyVersionToWalletBalances.up
             d == AddKeyVersionToWalletBalances.down
  <1>1. /\ Len(u) = 1
        /\ u[1].does = "create" /\ u[1].names = {"wallet_balances.keyVersion"}
    BY DEF AddKeyVersionToWalletBalances, Migration, Create, DropNames, Alter
  <1>2. /\ Len(d) = 2
        /\ d[1].does = "alter" /\ d[1].names = {}
        /\ d[2].does = "drop" /\ d[2].names = {"wallet_balances.keyVersion"}
    BY DEF AddKeyVersionToWalletBalances, Migration, Create, DropNames, Alter
  <1>0. u \in Seq(Steps(u))
    BY TuplesAreLists DEF AddKeyVersionToWalletBalances, Migration
  <1> HIDE DEF u, d
  <1>3. \A n \in {"wallet_balances.keyVersion"} : n \in AllNames /\ Creates(AddKeyVersionToWalletBalances, n)
    BY <1>1, NamesKnown DEF Creates, Makes, AddedNames, initialColumns, TableNames, u
  <1>4. GoesUp(AddKeyVersionToWalletBalances)
    BY <1>0, <1>1, <1>3 DEF GoesUp, u
  <1>5. \A i \in 1..2 : \A n : Drops(d[i], n) /\ n # Exempt => n \in {"wallet_balances.keyVersion"}
    BY <1>2, PartsOfDropped DEF Drops, TableNames
  <1>6. GoesDown(AddKeyVersionToWalletBalances)
    BY <1>2, <1>3, <1>5 DEF GoesDown, d
  <1> QED BY <1>3, <1>4, <1>6

(* Its statements create what it adds, and its down() drops no more. *)
LEMMA AddPreferredLanguageToUsersSound ==
    /\ GoesUp(AddPreferredLanguageToUsers) /\ GoesDown(AddPreferredLanguageToUsers)
    /\ \A n \in {"users.preferredLanguage"} : Creates(AddPreferredLanguageToUsers, n)
  <1> DEFINE u == AddPreferredLanguageToUsers.up
             d == AddPreferredLanguageToUsers.down
  <1>1. /\ Len(u) = 1
        /\ u[1].does = "create" /\ u[1].names = {"users.preferredLanguage"}
    BY DEF AddPreferredLanguageToUsers, Migration, Create, DropNames, Alter
  <1>2. /\ Len(d) = 1
        /\ d[1].does = "drop" /\ d[1].names = {"users.preferredLanguage"}
    BY DEF AddPreferredLanguageToUsers, Migration, Create, DropNames, Alter
  <1>0. u \in Seq(Steps(u))
    BY TuplesAreLists DEF AddPreferredLanguageToUsers, Migration
  <1> HIDE DEF u, d
  <1>3. \A n \in {"users.preferredLanguage"} : n \in AllNames /\ Creates(AddPreferredLanguageToUsers, n)
    BY <1>1, NamesKnown DEF Creates, Makes, AddedNames, initialColumns, TableNames, u
  <1>4. GoesUp(AddPreferredLanguageToUsers)
    BY <1>0, <1>1, <1>3 DEF GoesUp, u
  <1>5. \A i \in 1..1 : \A n : Drops(d[i], n) /\ n # Exempt => n \in {"users.preferredLanguage"}
    BY <1>2, PartsOfDropped DEF Drops, TableNames
  <1>6. GoesDown(AddPreferredLanguageToUsers)
    BY <1>2, <1>3, <1>5 DEF GoesDown, d
  <1> QED BY <1>3, <1>4, <1>6

(* Its statements create what it adds, and its down() drops no more. *)
LEMMA AddCurrencyPairsAndFeeRecordsSound ==
    /\ GoesUp(AddCurrencyPairsAndFeeRecords) /\ GoesDown(AddCurrencyPairsAndFeeRecords)
    /\ \A n \in {"IDX_currency_pairs_isActive", "IDX_fee_records_transactionId", "IDX_fee_records_userId", "currency_pairs", "fee_records"} : Creates(AddCurrencyPairsAndFeeRecords, n)
  <1> DEFINE u == AddCurrencyPairsAndFeeRecords.up
             d == AddCurrencyPairsAndFeeRecords.down
  <1>1. /\ Len(u) = 4
        /\ u[1].does = "create" /\ u[1].names = {"currency_pairs"}
        /\ u[2].does = "create" /\ u[2].names = {"IDX_currency_pairs_isActive"}
        /\ u[3].does = "create" /\ u[3].names = {"fee_records"}
        /\ u[4].does = "create" /\ u[4].names = {"IDX_fee_records_transactionId", "IDX_fee_records_userId"}
    BY DEF AddCurrencyPairsAndFeeRecords, Migration, Create, DropNames, Alter, tablesAdded
  <1>2. /\ Len(d) = 4
        /\ d[1].does = "drop" /\ d[1].names = {"IDX_fee_records_transactionId", "IDX_fee_records_userId"}
        /\ d[2].does = "drop" /\ d[2].names = {"fee_records"}
        /\ d[3].does = "drop" /\ d[3].names = {"IDX_currency_pairs_isActive"}
        /\ d[4].does = "drop" /\ d[4].names = {"currency_pairs"}
    BY DEF AddCurrencyPairsAndFeeRecords, Migration, Create, DropNames, Alter, tablesAdded
  <1>0. u \in Seq(Steps(u))
    BY TuplesAreLists DEF AddCurrencyPairsAndFeeRecords, Migration
  <1> HIDE DEF u, d
  <1>3. \A n \in {"IDX_currency_pairs_isActive", "IDX_fee_records_transactionId", "IDX_fee_records_userId", "currency_pairs", "fee_records"} : n \in AllNames /\ Creates(AddCurrencyPairsAndFeeRecords, n)
    BY <1>1, NamesKnown DEF Creates, Makes, AddedNames, initialColumns, TableNames, u
  <1>4. GoesUp(AddCurrencyPairsAndFeeRecords)
    BY <1>0, <1>1, <1>3 DEF GoesUp, u
  <1>5. \A i \in 1..4 : \A n : Drops(d[i], n) /\ n # Exempt => n \in {"IDX_currency_pairs_isActive", "IDX_fee_records_transactionId", "IDX_fee_records_userId", "currency_pairs", "fee_records"}
    BY <1>2, PartsOfDropped DEF Drops, TableNames
  <1>6. GoesDown(AddCurrencyPairsAndFeeRecords)
    BY <1>2, <1>3, <1>5 DEF GoesDown, d
  <1> QED BY <1>3, <1>4, <1>6

(* The first migration creates every table with its columns and indexes,   *)
(* and its down() never runs: the first statement fails.                   *)
LEMMA InitialSchemaSound ==
    /\ GoesUp(InitialSchema)
    /\ \A n \in initialNames : Creates(InitialSchema, n)
    /\ \A s : ~Executable(InitialSchema.down, s)
  <1> DEFINE u == InitialSchema.up
             d == InitialSchema.down
  <1>1. Len(u) = 1 /\ u[1].does = "create" /\ u[1].names = initialNames
    BY DEF InitialSchema, Migration, Create
  <1>0. u \in Seq(Steps(u))
    BY TuplesAreLists DEF InitialSchema, Migration
  <1>2. Len(d) = 3 /\ d[1].does = "drop" /\ ofConstraint \subseteq d[1].names
    BY DEF InitialSchema, Migration, DropNames
  <1> HIDE DEF u, d
  <1>3. GoesUp(InitialSchema)
    BY <1>0, <1>1, NamesKnown DEF GoesUp, u
  <1>4. \A n \in initialNames : Creates(InitialSchema, n)
    BY <1>1 DEF Creates, Makes, u
  <1>5. \A s : ~Succeeds(d[1], s)
    BY <1>2 DEF Succeeds, ofConstraint
  <1>6. \A s : ~Executable(d, s)
    BY <1>2, <1>5 DEF Executable
  <1> QED BY <1>3, <1>4, <1>6 DEF d

(* So every migration of the list is sound, and each known name is made. *)
LEMMA MigrationsSound ==
    /\ Len(migrations) = 10
    /\ \A m \in Versions : GoesUp(migrations[m])
    /\ \A m \in Versions : m = 1 \/ GoesDown(migrations[m])
    /\ \A s : ~Executable(migrations[1].down, s)
    /\ \A n \in AllNames : \E m \in Versions : Creates(migrations[m], n)
  <1>1. /\ Len(migrations) = 10
        /\ migrations[1] = InitialSchema /\ migrations[2] = AlterIdempotencyKeyLength
        /\ migrations[3] = AddRetryCountToTransactions
        /\ migrations[4] = AddTxHashAndLedgerVerification
        /\ migrations[5] = AddIsPrimaryToWallets
        /\ migrations[6] = AddReceiptNumberToTransactions
        /\ migrations[7] = AddActiveKycUniqueIndex
        /\ migrations[8] = AddKeyVersionToWalletBalances
        /\ migrations[9] = AddPreferredLanguageToUsers
        /\ migrations[10] = AddCurrencyPairsAndFeeRecords
    BY DEF migrations
  <1>2. Versions = {1, 2, 3, 4, 5, 6, 7, 8, 9, 10}
    BY <1>1 DEF Versions
  <1>3. \A m \in Versions : GoesUp(migrations[m]) /\ (m = 1 \/ GoesDown(migrations[m]))
    BY <1>1, <1>2, InitialSchemaSound, AlterIdempotencyKeyLengthSound,
       AddRetryCountToTransactionsSound, AddTxHashAndLedgerVerificationSound,
       AddIsPrimaryToWalletsSound, AddReceiptNumberToTransactionsSound,
       AddActiveKycUniqueIndexSound, AddKeyVersionToWalletBalancesSound,
       AddPreferredLanguageToUsersSound, AddCurrencyPairsAndFeeRecordsSound
  <1>4. \A n \in AddedNames : \E m \in Versions : Creates(migrations[m], n)
    BY <1>1, <1>2, AddTxHashAndLedgerVerificationSound, AddIsPrimaryToWalletsSound,
       AddReceiptNumberToTransactionsSound, AddActiveKycUniqueIndexSound,
       AddKeyVersionToWalletBalancesSound, AddPreferredLanguageToUsersSound,
       AddCurrencyPairsAndFeeRecordsSound
       DEF AddedNames
  <1>5. \A n \in initialNames : \E m \in Versions : Creates(migrations[m], n)
    BY <1>1, <1>2, InitialSchemaSound
  <1> QED BY <1>1, <1>3, <1>4, <1>5, InitialSchemaSound, NamesKnown

(* Lists put one after the other have the members of both. *)
LEMMA StepsOfBoth ==
    ASSUME NEW S, NEW b \in Seq(S), NEW u \in Seq(S)
    PROVE  b \o u \in Seq(S) /\ Steps(b \o u) = Steps(b) \cup Steps(u)
  <1> DEFINE c == b \o u
  <1>1. /\ c \in Seq(S) /\ Len(c) = Len(b) + Len(u) /\ Len(b) \in Nat /\ Len(u) \in Nat
        /\ \A j \in 1..Len(b) : c[j] = b[j]
        /\ \A j \in 1..Len(u) : c[Len(b) + j] = u[j]
    OBVIOUS
  <1> HIDE DEF c
  <1>2. ASSUME NEW j \in 1..Len(c) PROVE c[j] \in Steps(b) \cup Steps(u)
    <2>1. CASE j \in 1..Len(b)
      BY <1>1, <2>1 DEF Steps
    <2>2. CASE j \notin 1..Len(b)
      <3> DEFINE i == j - Len(b)
      <3>1. i \in 1..Len(u) /\ Len(b) + i = j
        BY <1>1, <2>2
      <3> HIDE DEF i
      <3>2. c[j] = u[i]
        BY <1>1, <3>1
      <3> QED BY <3>1, <3>2 DEF Steps
    <2> QED BY <2>1, <2>2
  <1>3. ASSUME NEW j \in 1..Len(b) PROVE b[j] \in Steps(c)
    <2>1. j \in 1..Len(c) /\ c[j] = b[j]
      BY <1>1
    <2> QED BY <2>1 DEF Steps
  <1>4. ASSUME NEW j \in 1..Len(u) PROVE u[j] \in Steps(c)
    <2>1. Len(b) + j \in 1..Len(c) /\ c[Len(b) + j] = u[j]
      BY <1>1
    <2> QED BY <2>1 DEF Steps
  <1>5. Steps(c) = Steps(b) \cup Steps(u)
    BY <1>2, <1>3, <1>4 DEF Steps
  <1> QED BY <1>1, <1>5 DEF c

(* The statements of a run are those of its migrations. *)
LEMMA StatementsOfRun ==
    ASSUME NEW list \in SUBSET Versions
    PROVE  /\ Len(Ups(list)) \in Nat
           /\ Steps(Ups(list)) = UNION {Steps(migrations[m].up) : m \in list}
  <1> DEFINE L == Len(migrations)
             All == UNION {Steps(migrations[m].up) : m \in Versions}
             Next1(k, f) == IF k \in list THEN f \o migrations[k].up ELSE f
             Along(f, n) == /\ DOMAIN f = 0..n /\ f[0] = << >>
                            /\ \A i \in 1..n : f[i] = Next1(i, f[i - 1])
             Body(f) == [i \in 0..L |-> IF i = 0 THEN << >> ELSE Next1(i, f[i - 1])]
             Bad == {n \in 0..L : ~ \E f : Along(f, n)}
  <1>0. L \in Nat /\ Versions = 1..L /\ \A m \in Versions : migrations[m].up \in Seq(All)
    <2>1. L \in Nat /\ Versions = 1..L
      BY MigrationsSound DEF Versions
    <2>2. ASSUME NEW m \in Versions PROVE migrations[m].up \in Seq(All)
      <3>1. migrations[m].up \in Seq(Steps(migrations[m].up))
        BY MigrationsSound DEF GoesUp
      <3>2. Steps(migrations[m].up) \subseteq All
        OBVIOUS
      <3> HIDE DEF All
      <3> QED BY <3>1, <3>2
    <2> QED BY <2>1, <2>2
  <1> HIDE DEF All, L, Next1
  <1>1. ASSUME NEW n \in Bad, \A m \in 0..(n - 1) : m \notin Bad PROVE FALSE
    <2>1. CASE n = 0
      <3> DEFINE g == [i \in 0..0 |-> << >>]
      <3>1. DOMAIN g = 0..0 /\ g[0] = << >> /\ 1..0 = {}
        OBVIOUS
      <3> HIDE DEF g
      <3>2. Along(g, 0)
        BY <3>1
      <3> QED BY <2>1, <3>2
    <2>2. CASE n # 0
      <3>a. n - 1 \in 0..L /\ n - 1 \in 0..(n - 1)
        BY <1>0, <2>2
      <3>b. n - 1 \notin Bad
        BY ONLY <1>1, <3>a
      <3>c. \E f : Along(f, n - 1)
        <4> HIDE DEF Along
        <4> QED BY ONLY <3>a, <3>b, Zenon
      <3>1. PICK f : Along(f, n - 1)
        BY ONLY <3>c
      <3> DEFINE g == [i \in 0..n |-> IF i = n THEN Next1(n, f[n - 1]) ELSE f[i]]
      <3>2. Along(g, n)
        BY <1>0, <2>2, <3>1
      <3> QED BY <3>2
    <2> QED BY <2>1, <2>2
  <1>2. Bad = {}
    <2> HIDE DEF Bad
    <2>1. Bad \in SUBSET (0..L)
      BY DEF Bad
    <2> QED BY ONLY <1>0, <1>1, <2>1, NoLeastNumber
  <1>3. PICK f : Along(f, L)
    BY <1>0, <1>2
  <1>4. Body(f) = [i \in 0..L |-> f[i]]
    BY <1>0, <1>3
  <1>5. Body(f) = Body(Body(f))
    <2> DEFINE g == Body(f)
    <2>1. \A i \in 0..L : g[i] = f[i]
      BY <1>4
    <2> HIDE DEF g
    <2>2. Body(g) = Body(f)
      BY <1>0, <2>1
    <2> QED BY <2>2 DEF g
  <1> DEFINE a == CHOOSE h : h = Body(h)
  <1>6. a = Body(a)
    BY <1>5
  <1>7. Ups(list) = a[L]
    BY DEF Ups, Next1, L
  <1> HIDE DEF a
  <1>8. a[0] = << >> /\ \A i \in 1..L : a[i] = Next1(i, a[i - 1])
    BY <1>0, <1>6
  <1> DEFINE Done(k) == UNION {Steps(migrations[m].up) : m \in {m \in list : m <= k}}
             Good(k) == a[k] \in Seq(All) /\ Steps(a[k]) = Done(k)
             Worse == {k \in 0..L : ~Good(k)}
  <1>9. ASSUME NEW k \in Worse, \A m \in 0..(k - 1) : m \notin Worse PROVE FALSE
    <2>1. CASE k = 0
      <3>1. a[0] \in Seq(All) /\ Len(a[0]) = 0
        BY <1>8
      <3>2. Steps(a[0]) = {}
        BY <3>1 DEF Steps
      <3>3. {m \in list : m <= 0} = {}
        BY <1>0
      <3> QED BY <2>1, <3>1, <3>2, <3>3
    <2>2. CASE k # 0
      <3>1. k \in 1..L /\ k - 1 \in 0..(k - 1) /\ k - 1 \in 0..L
        BY <1>0, <2>2
      <3>2. Good(k - 1)
        <4> HIDE DEF Good
        <4> QED BY <1>9, <3>1
      <3>3. CASE k \in list
        <4>1. a[k] = a[k - 1] \o migrations[k].up
          BY <1>8, <3>1, <3>3 DEF Next1
        <4>2. a[k - 1] \in Seq(All) /\ migrations[k].up \in Seq(All)
          BY <1>0, <3>1, <3>2
        <4>3. a[k] \in Seq(All) /\ Steps(a[k]) = Steps(a[k - 1]) \cup Steps(migrations[k].up)
          BY ONLY <4>1, <4>2, StepsOfBoth
        <4>4. {m \in list : m <= k} = {m \in list : m <= k - 1} \cup {k}
          BY <1>0, <3>1, <3>3
        <4>5. Done(k) = Done(k - 1) \cup Steps(migrations[k].up)
          BY <4>4
        <4> QED BY <3>2, <4>3, <4>5
      <3>4. CASE k \notin list
        <4>1. a[k] = a[k - 1]
          BY <1>8, <3>1, <3>4 DEF Next1
        <4>2. {m \in list : m <= k} = {m \in list : m <= k - 1}
          BY <1>0, <3>1, <3>4
        <4> QED BY <3>2, <4>1, <4>2
      <3> QED BY <3>3, <3>4
    <2> QED BY <2>1, <2>2
  <1>10. Worse = {}
    <2> HIDE DEF Worse
    <2>1. Worse \in SUBSET (0..L)
      BY DEF Worse
    <2> QED BY ONLY <1>0, <1>9, <2>1, NoLeastNumber
  <1>11. Good(L)
    <2>1. L \in 0..L
      BY <1>0
    <2> HIDE DEF Good
    <2> QED BY <1>10, <2>1
  <1>12. {m \in list : m <= L} = list
    <2>1. \A m \in list : m <= L
      BY <1>0
    <2> QED BY <2>1
  <1> QED BY <1>7, <1>11, <1>12

(* The invariant: a name is there once every migration that creates it is  *)
(* recorded as executed, and a command either runs or reverts.             *)
Present(n) == (\A m \in Versions : Creates(migrations[m], n) => m \in executed) => n \in schema
MigrationsInv ==
    /\ MigrationsTypeOK
    /\ \A o \in Operators : command[o].reverts # 0 => command[o].runs = {}
    /\ \A n \in AllNames \ {Exempt} : Present(n)

(* No migration has run on an empty database. *)
LEMMA MigrationsInvInit == MigrationsInit => MigrationsInv
  <1> SUFFICES ASSUME MigrationsInit PROVE MigrationsInv
    OBVIOUS
  <1>1. NoCommand \in [runs : SUBSET Versions, reverts : 0..Len(migrations)]
    BY MigrationsSound DEF NoCommand
  <1>2. MigrationsTypeOK /\ \A o \in Operators : command[o].reverts = 0
    BY <1>1 DEF MigrationsInit, MigrationsTypeOK, NoCommand
  <1>3. \A n \in AllNames : Present(n)
    BY MigrationsSound DEF MigrationsInit, Present
  <1> QED BY <1>2, <1>3 DEF MigrationsInv

(* The last migration of a set of migrations is one of them. *)
LEMMA LastExists ==
    ASSUME NEW S \in SUBSET Versions, S # {}
    PROVE  (CHOOSE m \in S : \A n \in S : n <= m) \in Versions
  <1> DEFINE L == Len(migrations)
             Bad == {k \in 0..L : L - k \in S}
  <1>0. L \in Nat /\ Versions = 1..L
    BY MigrationsSound DEF Versions
  <1> HIDE DEF L
  <1>1. \E m \in S : \A n \in S : n <= m
    <2> SUFFICES ASSUME \A m \in S : \E n \in S : ~(n <= m) PROVE FALSE
      OBVIOUS
    <2>1. ASSUME NEW k \in Bad, \A j \in 0..(k - 1) : j \notin Bad PROVE FALSE
      <3>1. PICK n \in S : ~(n <= L - k)
        BY <1>0
      <3>2. L - n \in 0..(k - 1) /\ L - (L - n) = n /\ L - n \in 0..L
        BY <1>0, <3>1
      <3> QED BY <2>1, <3>1, <3>2
    <2>2. Bad = {}
      <3> HIDE DEF Bad
      <3>1. Bad \in SUBSET (0..L)
        BY DEF Bad
      <3> QED BY ONLY <1>0, <2>1, <3>1, NoLeastNumber
    <2>3. PICK n \in S : TRUE
      OBVIOUS
    <2>4. L - n \in 0..L /\ L - (L - n) = n
      BY <1>0
    <2> QED BY <2>2, <2>3, <2>4
  <1> QED BY <1>1

(* Running what is pending and reverting the last keep it: a transaction   *)
(* commits the statements with their record, or neither.                   *)
LEMMA MigrationsInvStep == MigrationsInv /\ [MigrationsNext]_migrationVars => MigrationsInv'
  <1> SUFFICES ASSUME MigrationsInv, [MigrationsNext]_migrationVars PROVE MigrationsInv'
    OBVIOUS
  <1> DEFINE L == Len(migrations)
             Commands == [runs : SUBSET Versions, reverts : 0..L]
  <1>0. L \in Nat /\ Versions = 1..L
    BY MigrationsSound DEF Versions
  <1>a. /\ schema \subseteq AllNames /\ executed \subseteq Versions
        /\ command \in [Operators -> Commands]
        /\ \A o \in Operators : command[o].reverts # 0 => command[o].runs = {}
        /\ \A n \in AllNames \ {Exempt} : Present(n)
    BY DEF MigrationsInv, MigrationsTypeOK
  <1> HIDE DEF L
  <1>b. NoCommand \in Commands /\ NoCommand.reverts = 0 /\ NoCommand.runs = {}
    BY <1>0 DEF NoCommand
  <1>1. ASSUME UNCHANGED <<schema, executed>>, command' \in [Operators -> Commands],
               \A o \in Operators : command'[o].reverts # 0 => command'[o].runs = {}
        PROVE  MigrationsInv'
    <2>1. \A n : Present(n)' <=> Present(n)
      BY <1>1 DEF Present
    <2> QED BY <1>a, <1>1, <2>1 DEF MigrationsInv, MigrationsTypeOK, L
  <1>2. ASSUME NEW o \in Operators, readPending(o) PROVE MigrationsInv'
    <2>1. /\ UNCHANGED <<schema, executed>> /\ command[o] = NoCommand
          /\ command' = [command EXCEPT ![o].runs = Versions \ executed]
      BY <1>2 DEF readPending
    <2>2. command' \in [Operators -> Commands]
      BY <1>a, <2>1
    <2>3. \A p \in Operators : command'[p].reverts = command[p].reverts
                               /\ (p # o => command'[p] = command[p])
      BY <1>a, <2>1
    <2>4. \A p \in Operators : command'[p].reverts # 0 => command'[p].runs = {}
      BY <1>a, <1>b, <2>1, <2>3
    <2> QED BY <1>1, <2>1, <2>2, <2>4
  <1>3. ASSUME NEW o \in Operators, readLast(o) PROVE MigrationsInv'
    <2> DEFINE last == CHOOSE m \in executed : \A n \in executed : n <= m
    <2>0. executed # {}
      BY <1>3 DEF readLast
    <2>1. last \in Versions
      BY <1>a, <2>0, LastExists
    <2>2. /\ UNCHANGED <<schema, executed>> /\ command[o] = NoCommand
          /\ command' = [command EXCEPT ![o].reverts = last]
      BY <1>3 DEF readLast
    <2> HIDE DEF last
    <2>3. command' \in [Operators -> Commands]
      BY <1>0, <1>a, <2>1, <2>2
    <2>4. \A p \in Operators : command'[p].runs = command[p].runs
                               /\ (p # o => command'[p] = command[p])
      BY <1>a, <2>2
    <2>5. \A p \in Operators : command'[p].reverts # 0 => command'[p].runs = {}
      BY <1>a, <1>b, <2>2, <2>4
    <2> QED BY <1>1, <2>2, <2>3, <2>5
  <1>4. ASSUME NEW o \in Operators, rollbackCommand(o) PROVE MigrationsInv'
    <2>1. UNCHANGED <<schema, executed>> /\ command' = [command EXCEPT ![o] = NoCommand]
      BY <1>4 DEF rollbackCommand
    <2>2. command' \in [Operators -> Commands]
      BY <1>a, <1>b, <2>1
    <2>3. \A p \in Operators : command'[p].reverts # 0 => command'[p].runs = {}
      BY <1>a, <1>b, <2>1
    <2> QED BY <1>1, <2>1, <2>2, <2>3
  <1>5. ASSUME NEW o \in Operators, commit(o) PROVE MigrationsInv'
    <2> DEFINE sts == Statements(o)
               c == command[o]
    <2>0. c \in Commands /\ (c.reverts # 0 => c.runs = {})
      BY <1>a
    <2>1. /\ Executable(sts, schema)
          /\ schema' = SchemaAfter(sts, schema)[Len(sts)]
          /\ executed' = (executed \cup c.runs) \ {c.reverts}
          /\ command' = [command EXCEPT ![o] = NoCommand]
      BY <1>5 DEF commit
    <2>2. command' \in [Operators -> Commands]
      BY <1>a, <1>b, <2>1
    <2>3. \A p \in Operators : command'[p].reverts # 0 => command'[p].runs = {}
      BY <1>a, <1>b, <2>1
    <2>4. executed' \subseteq Versions
      BY <1>a, <2>0, <2>1
    <2>5. schema' \subseteq AllNames /\ \A n \in AllNames \ {Exempt} : Present(n)'
      <3>1. CASE c.reverts # 0
        <4> DEFINE m == c.reverts
                   x == migrations[m]
        <4>1. m \in Versions /\ sts = x.down /\ executed' = executed \ {m}
          BY <1>0, <2>0, <2>1, <3>1 DEF Statements
        <4>2. m # 1
          BY <2>1, <4>1, MigrationsSound
        <4>3. GoesDown(x)
          BY <4>1, <4>2, MigrationsSound
        <4>4. Len(sts) \in Nat /\ \A j \in 1..Len(sts) : \A n : ~Makes(sts[j], n)
          BY <4>1, <4>3 DEF GoesDown, Makes
        <4> HIDE DEF sts
        <4>5. schema' \subseteq schema
          BY <2>1, <4>4, NothingFromNowhere
        <4>6. ASSUME NEW n \in AllNames \ {Exempt},
                     \A k \in Versions : Creates(migrations[k], n) => k \in executed'
              PROVE  n \in schema'
          <5>1. ~Creates(x, n)
            BY <4>1, <4>6
          <5>2. \A j \in 1..Len(sts) : ~Drops(sts[j], n)
            BY <4>1, <4>3, <5>1 DEF GoesDown
          <5>3. n \in schema
            BY <1>a, <4>1, <4>6 DEF Present
          <5> QED BY <2>1, <4>4, <5>2, <5>3, NothingLost
        <4> QED BY <1>a, <4>5, <4>6 DEF Present
      <3>2. CASE c.reverts = 0
        <4> DEFINE runs == c.runs
        <4>1. runs \in SUBSET Versions /\ sts = Ups(runs) /\ executed' = executed \cup runs
          BY <1>0, <1>a, <2>0, <2>1, <3>2 DEF Statements
        <4> HIDE DEF sts, runs
        <4>2. Len(sts) \in Nat /\ Steps(sts) = UNION {Steps(migrations[m].up) : m \in runs}
          BY <4>1, StatementsOfRun
        <4>3. \A st \in Steps(sts) : st.does \in {"create", "alter"} /\ st.names \subseteq AllNames
          <5> SUFFICES ASSUME NEW m \in runs, NEW st \in Steps(migrations[m].up)
                       PROVE  st.does \in {"create", "alter"} /\ st.names \subseteq AllNames
            BY <4>2
          <5>1. GoesUp(migrations[m])
            BY <4>1, MigrationsSound
          <5> QED BY <5>1 DEF GoesUp, Steps
        <4>4. \A j \in 1..Len(sts) : sts[j] \in Steps(sts)
          BY DEF Steps
        <4>5. \A j \in 1..Len(sts) : \A n :
                /\ ~Drops(sts[j], n)
                /\ n \notin AllNames => ~Makes(sts[j], n)
          BY <4>3, <4>4 DEF Drops, Makes
        <4>6. schema' \subseteq AllNames
          BY <1>a, <2>1, <4>2, <4>5, NothingFromNowhere
        <4>7. ASSUME NEW n \in AllNames \ {Exempt},
                     \A k \in Versions : Creates(migrations[k], n) => k \in executed'
              PROVE  n \in schema'
          <5>1. CASE n \in schema
            BY <2>1, <4>2, <4>5, <5>1, NothingLost
          <5>2. CASE n \notin schema
            <6>1. PICK k \in runs : Creates(migrations[k], n)
              BY <1>a, <4>1, <4>7, <5>2 DEF Present
            <6>2. PICK st \in Steps(migrations[k].up) : Makes(st, n)
              BY <6>1 DEF Creates, Steps
            <6>3. st \in Steps(sts)
              BY <4>2
            <6>4. \E j \in 1..Len(sts) : Makes(sts[j], n)
              BY <6>2, <6>3 DEF Steps
            <6> QED BY <2>1, <4>2, <4>5, <6>4, NothingLost
          <5> QED BY <5>1, <5>2
        <4> QED BY <4>6, <4>7 DEF Present
      <3> QED BY <3>1, <3>2
    <2> QED BY <2>2, <2>3, <2>4, <2>5 DEF MigrationsInv, MigrationsTypeOK, L
  <1>6. CASE UNCHANGED migrationVars
    BY <1>a, <1>1, <1>6 DEF migrationVars
  <1> QED BY <1>2, <1>3, <1>4, <1>5, <1>6 DEF MigrationsNext

(* Whatever operators run, revert and run again from lists that are out of *)
(* date: once every migration is recorded, nothing is missing from the     *)
(* schema, but for the one index that a revert takes along with its table. *)
THEOREM SchemaStaysWhole == MigrationsSpec => []ExecutedSchemaIsWhole
  <1>1. MigrationsInv => ExecutedSchemaIsWhole
    BY DEF MigrationsInv, ExecutedSchemaIsWhole, Present, Exempt
  <1> QED BY <1>1, MigrationsInvInit, MigrationsInvStep, PTL DEF MigrationsSpec

----------------------------------------------------------------------------
(* The nine modules side by side. *)

(* A step of the whole is a step of each module, or leaves it alone. *)
LEMMA StepOfParts ==
    [Next]_vars =>
      /\ [TradesNext]_tradeVars /\ [RollbacksNext]_rollbackVars /\ [JobNext]_jobVars
      /\ [SubsNext]_subVars /\ [SavesNext]_saveVars /\ [ListingsNext]_listingVars
      /\ [LedgerNext]_ledgerVars /\ [ConfigurationNext]_configurationVars
      /\ [MigrationsNext]_migrationVars
  BY Zenon DEF Next, vars

(* A behaviour of the whole is one of each module. *)
LEMMA PartsOfSpec ==
    Spec => /\ TradesSpec /\ RollbacksSpec /\ JobSpec /\ SubsSpec /\ SavesSpec
            /\ ListingsSpec /\ LedgerSpec /\ ConfigurationSpec /\ MigrationsSpec
  <1>1. Init => /\ TradesInit /\ RollbacksInit /\ JobInit /\ SubsInit /\ SavesInit
                /\ ListingsInit /\ LedgerInit /\ ConfigurationInit /\ MigrationsInit
    BY DEF Init
  <1> QED BY <1>1, StepOfParts, PTL
          DEF Spec, TradesSpec, RollbacksSpec, JobSpec, SubsSpec, SavesSpec, ListingsSpec,
              LedgerSpec, ConfigurationSpec, MigrationsSpec

(* Every variable of the module that moves keeps its type. *)
THEOREM OperationsTypes == Spec => []TypeOK
  <1> DEFINE Parts9 == /\ TradesTypeOK /\ RollbacksTypeOK /\ JobTypeOK /\ SubsTypeOK /\ SavesTypeOK
                       /\ ListingsTypeOK /\ LedgerTypeOK /\ ConfigurationTypeOK /\ MigrationsTypeOK
             Focus == focus \in {"trades", "rollbacks", "jobs", "subscriptions", "saves",
                                 "listings", "ledger", "configuration", "migrations"}
  <1>1. Init => Focus
    BY DEF Init, Modules
  <1>2. Focus /\ [Next]_vars => Focus'
    BY DEF Next, vars
  <1>3. TradesSpec => []TradesTypeOK
    <2>1. TradesInv => TradesTypeOK
      BY DEF TradesInv
    <2> QED BY <2>1, TradesInvInit, TradesInvStep, PTL DEF TradesSpec
  <1>4. RollbacksSpec => []RollbacksTypeOK
    <2>1. RollbacksInv => RollbacksTypeOK
      BY DEF RollbacksInv
    <2> QED BY <2>1, RollbacksInvStep, PTL DEF RollbacksSpec
  <1>5. JobSpec => []JobTypeOK
    <2>1. JobInv => JobTypeOK
      BY DEF JobInv
    <2> QED BY <2>1, JobInvStep, PTL DEF JobSpec
  <1>6. SubsSpec => []SubsTypeOK
    <2>1. SubsInv => SubsTypeOK
      BY DEF SubsInv
    <2> QED BY <2>1, SubsInvStep, PTL DEF SubsSpec
  <1>7. SavesSpec => []SavesTypeOK
    <2>1. SavesInv => SavesTypeOK
      BY DEF SavesInv
    <2> QED BY <2>1, SavesInvInit, SavesInvStep, PTL DEF SavesSpec
  <1>8. ListingsSpec => []ListingsTypeOK
    BY PagesLoseLittle, PTL
  <1>9. LedgerSpec => []LedgerTypeOK
    <2>1. LedgerInv => LedgerTypeOK
      BY DEF LedgerInv
    <2> QED BY <2>1, LedgerInvInit, LedgerInvStep, PTL DEF LedgerSpec
  <1>10. ConfigurationSpec => []ConfigurationTypeOK
    <2>1. ConfigurationInv => ConfigurationTypeOK
      BY DEF ConfigurationInv
    <2> QED BY <2>1, ConfigurationInvInit, ConfigurationInvStep, PTL DEF ConfigurationSpec
  <1>11. MigrationsSpec => []MigrationsTypeOK
    <2>1. MigrationsInv => MigrationsTypeOK
      BY DEF MigrationsInv
    <2> QED BY <2>1, MigrationsInvInit, MigrationsInvStep, PTL DEF MigrationsSpec
  <1>12. Focus /\ Parts9 => TypeOK
    BY DEF TypeOK
  <1>13. Spec => []Parts9
    BY <1>3, <1>4, <1>5, <1>6, <1>7, <1>8, <1>9, <1>10, <1>11, PartsOfSpec, PTL
  <1>14. Spec => []Focus
    BY <1>1, <1>2, PTL DEF Spec
  <1> QED BY <1>12, <1>13, <1>14, PTL

(* What each module promises, of the specification that puts them side by  *)
(* side.                                                                   *)
THEOREM OperationsHold ==
    Spec => [](/\ UndoneOnce /\ OneRunUntilExpiry /\ EveryTargetIsServed
               /\ SavesUndoOnlyOverlaps /\ PagesLoseOnlyToDepartures /\ ReportsAreFounded
               /\ ConfiguredAsValidated /\ ExecutedSchemaIsWhole)
  BY PartsOfSpec, UndoneOnceHolds, JobRunsOnce, TargetsServed, SavesUndoOnlyWhatOverlaps,
     PagesLoseLittle, ReportsFounded, ConfiguredRight, SchemaStaysWhole, PTL
============================================================================
