----------------------------- MODULE FxTrades ------------------------------
(***************************************************************************)
(* FxService (src/fx): trades between two balances of one user, and their  *)
(* reversal.  Neither awaits its two adjustBalance calls, which run beside *)
(* the transaction that saves the trade; a leg may fail (a debit larger    *)
(* than the balance always does) and nobody learns of it.  adjustBalance   *)
(* is one step here, as AtomicWallet allows.                               *)
(*                                                                         *)
(* Amounts are in the sub-units of Money, which are the eight decimals     *)
(* that a trade stores; the balances are in cents, to which every leg is   *)
(* rounded, so that a trade and its reversal need not cancel out.          *)
(***************************************************************************)
EXTENDS Money, FiniteSetsExt

CONSTANTS Trades,           \* ids
          Reversals,        \* requests, each made once
          FromAmounts,      \* what may be traded, in sub-units
          RateUnit, Rates,  \* the rates that may be found, in parts of a RateUnit
          InitialFunds,     \* in cents
          NoTrade

ASSUME TradesAssumption == /\ InitialFunds \in Nat /\ NoTrade \notin Trades
                           /\ IsFiniteSet(Trades) /\ IsFiniteSet(Reversals) /\ Trades \cap Reversals = {}
                           /\ FromAmounts \subseteq Nat /\ Rates \subseteq Nat
                           /\ RateUnit \in Nat \ {0}

VARIABLES trades,           \* per id: "none", "saving", "executed", "reversed", "lost"
          fromAmount, toAmount,     \* per id: what it stores
          open,             \* the trades whose reversal window is still open
          reversal,         \* per request: the trade it reverses, or NoTrade
          saving,           \* the requests that have started their legs
          answered,         \* the requests that have ended
          legs,             \* the calls under way: <<by, currency, delta>>
          funds,            \* per currency, in cents
          legFailed,        \* history: some leg failed
          doubled,          \* history: trades two reversals had loaded at once
          volume            \* volumeTracker, in memory

tradeVars == <<trades, fromAmount, toAmount, open, reversal, saving, answered, legs, funds,
               legFailed, doubled, volume>>
amounts == <<fromAmount, toAmount>>

TradesInit ==
    /\ trades = [t \in Trades |-> "none"]
    /\ fromAmount = [t \in Trades |-> 0]
    /\ toAmount = [t \in Trades |-> 0]
    /\ open = {}
    /\ reversal = [r \in Reversals |-> NoTrade]
    /\ saving = {}
    /\ answered = {}
    /\ legs = {}
    /\ funds = [from |-> InitialFunds, to |-> 0]
    /\ legFailed = FALSE
    /\ doubled = {}
    /\ volume = 0

(* (fromAmount * rate).toFixed(8): a whole number of sub-units. *)
Converted(amount, rate) == (2 * amount * rate + RateUnit) \div (2 * RateUnit)

(* The rate is known: the legs are started, then the trade is saved. *)
executeTrade(t, amount, rate) ==
    /\ trades[t] = "none"
    /\ trades' = [trades EXCEPT ![t] = "saving"]
    /\ fromAmount' = [fromAmount EXCEPT ![t] = amount]
    /\ toAmount' = [toAmount EXCEPT ![t] = Converted(amount, rate)]
    /\ legs' = legs \cup {<<t, "from", -amount>>, <<t, "to", Converted(amount, rate)>>}
    /\ volume' = volume + amount
    /\ UNCHANGED <<open, reversal, saving, answered, funds, legFailed, doubled>>

saveTrade(t, stored) ==
    /\ trades[t] = "saving"
    /\ trades' = [trades EXCEPT ![t] = IF stored THEN "executed" ELSE "lost"]
    /\ open' = IF stored THEN open \cup {t} ELSE open
    /\ UNCHANGED <<reversal, saving, answered, legs, funds, legFailed, doubled, volume, amounts>>

(* Mutant: reversedAt is not checked. *)
ReversibleAgain(t) == trades[t] \in {"executed", "reversed"} /\ t \in open

Reversible(t) == trades[t] = "executed" /\ t \in open

reverseTrade(r, t) ==
    /\ reversal[r] = NoTrade /\ r \notin answered
    /\ Reversible(t)
    /\ reversal' = [reversal EXCEPT ![r] = t]
    /\ doubled' = IF \E q \in Reversals : reversal[q] = t THEN doubled \cup {t} ELSE doubled
    /\ UNCHANGED <<trades, open, saving, answered, legs, funds, legFailed, volume, amounts>>

reverseLegs(r) ==
    /\ reversal[r] # NoTrade /\ r \notin saving
    /\ legs' = legs \cup {<<r, "from", fromAmount[reversal[r]]>>, <<r, "to", -toAmount[reversal[r]]>>}
    /\ saving' = saving \cup {r}
    /\ UNCHANGED <<trades, open, reversal, answered, funds, legFailed, doubled, volume, amounts>>

(* A save that fails leaves the legs of the reversal: it counts as doubled.*)
saveReversal(r, stored) ==
    /\ r \in saving
    /\ trades' = IF stored THEN [trades EXCEPT ![reversal[r]] = "reversed"] ELSE trades
    /\ doubled' = IF stored THEN doubled ELSE doubled \cup {reversal[r]}
    /\ reversal' = [reversal EXCEPT ![r] = NoTrade]
    /\ saving' = saving \ {r}
    /\ answered' = answered \cup {r}
    /\ UNCHANGED <<open, legs, funds, legFailed, volume, amounts>>

(* Mutant: adjustBalance relies on its caller to know the balance. *)
CoveredAlways(l) == TRUE

Covered(l) == NewBalance(funds[l[2]], l[3]) >= 0

(* A leg: adjustBalance in its own transaction, any time later. *)
adjustLeg(l, done) ==
    /\ l \in legs
    /\ legs' = legs \ {l}
    /\ funds' = IF Covered(l) /\ done THEN [funds EXCEPT ![l[2]] = NewBalance(@, l[3])]
                                   ELSE funds
    /\ legFailed' = (legFailed \/ ~(Covered(l) /\ done))
    /\ UNCHANGED <<trades, open, reversal, saving, answered, doubled, volume, amounts>>

windowPasses(t) ==
    /\ t \in open
    /\ open' = open \ {t}
    /\ UNCHANGED <<trades, reversal, saving, answered, legs, funds, legFailed, doubled, volume, amounts>>

TradesNext ==
    \/ \E t \in Trades : \/ \E amount \in FromAmounts, rate \in Rates : executeTrade(t, amount, rate)
                         \/ windowPasses(t)
                         \/ \E stored \in BOOLEAN : saveTrade(t, stored)
    \/ \E r \in Reversals : \/ reverseLegs(r)
                            \/ \E t \in Trades : reverseTrade(r, t)
                            \/ \E stored \in BOOLEAN : saveReversal(r, stored)
    \/ \E l \in legs, done \in BOOLEAN : adjustLeg(l, done)

TradesSpec == TradesInit /\ [][TradesNext]_tradeVars

----------------------------------------------------------------------------
(* Type invariant. *)
TradesTypeOK ==
    /\ trades \in [Trades -> {"none", "saving", "executed", "reversed", "lost"}]
    /\ fromAmount \in [Trades -> Nat] /\ toAmount \in [Trades -> Nat]
    /\ open \subseteq Trades
    /\ reversal \in [Reversals -> Trades \cup {NoTrade}]
    /\ saving \subseteq Reversals /\ answered \subseteq Reversals
    /\ legs \subseteq (Trades \cup Reversals) \X {"from", "to"} \X Int
    /\ funds \in [{"from", "to"} -> Nat]
    /\ legFailed \in BOOLEAN
    /\ doubled \subseteq Trades
    /\ volume \in Nat

(* What the trades move in currency c. *)
Moved(c) == [t \in Trades |-> IF c = "from" THEN -fromAmount[t] ELSE toAmount[t]]

(* Once the legs are done, the balances are what the trades say: each      *)
(* trade that was not reversed, or whose save was lost, moved its amounts  *)
(* once, at the rate it was made, and the others not at all, unless a leg  *)
(* failed, two reversals of a trade overlapped, or one was not saved.  The *)
(* rounding to the cent puts them out by half a cent at most for each leg  *)
(* that is not whole cents: a trade and its reversal may leave a cent.     *)
BalancesFollowTrades ==
    legs = {} /\ saving = {} /\ ~legFailed /\ doubled = {} =>
        \A c \in {"from", "to"} :
            LET kept == {t \in Trades : trades[t] \notin {"none", "reversed"}}
                told == SubUnits * (IF c = "from" THEN InitialFunds ELSE 0)
                        + MapThenSumSet(LAMBDA t : Moved(c)[t], kept)
                uneven == {t \in Trades : trades[t] # "none" /\ ~WholeCents(Moved(c)[t])}
                twice == {t \in uneven : trades[t] = "reversed"}
                slack == HalfCent * (Cardinality(uneven) + Cardinality(twice))
            IN SubUnits * funds[c] - told \in -slack..slack
============================================================================
