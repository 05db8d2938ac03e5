----------------------------- MODULE RateTable -----------------------------
(***************************************************************************)
(* The exchange rates kept in the database (src/exchange-rates).  A reader *)
(* that finds no row that is still good refreshes all pairs, one after the *)
(* other; so does a job every minute.  Nothing keeps refreshes apart, and  *)
(* the table has no unique key on the pair.  The rates themselves are left *)
(* out: a row is the instant at which it expires.                          *)
(***************************************************************************)
EXTENDS Integers, Sequences

CONSTANTS RateReaders,      \* requests and runs of the job
          PairCount,        \* the length of SUPPORTED_PAIRS
          TtlTicks,         \* cacheTtlSeconds
          LastRateTick

ASSUME RateTableAssumption ==
    PairCount \in Nat \ {0} /\ TtlTicks \in Nat \ {0} /\ LastRateTick \in Nat

VARIABLES rateRows,     \* per pair: the expiresAt of its rows
          rateTick,     \* the clock
          refresh,      \* per reader: its refresh
          listed,       \* per reader: the pairs it was answered
          excused,      \* history: readers answered during or after a disturbance
          disturbed     \* history: a refresh failed, or two overlapped

rateVars == <<rateRows, rateTick, refresh, listed, excused, disturbed>>

SupportedPairs == 1..PairCount
NoRefresh == [stage |-> "idle", pair |-> 1, expires |-> 0, row |-> 0]
Good(p) == \E i \in 1..Len(rateRows[p]) : rateRows[p][i] > rateTick
GoodPairs == {p \in SupportedPairs : Good(p)}
Refreshing == {r \in RateReaders : refresh[r].stage \notin {"idle", "done"}}

RateTableInit ==
    /\ rateRows = [p \in SupportedPairs |-> <<>>]
    /\ rateTick = 0
    /\ refresh = [r \in RateReaders |-> NoRefresh]
    /\ listed = [r \in RateReaders |-> SupportedPairs] /\ excused = {}
    /\ disturbed = FALSE

(* Mutant: the expiry is computed for each pair when its turn comes. *)
ExpiresAtTurn(r) == rateTick + TtlTicks
(* The expiry is computed once, before the loop. *)
ExpiresAt(r) == refresh[r].expires

startRefresh(r) ==
    /\ refresh' = [refresh EXCEPT ![r] = [NoRefresh EXCEPT !.stage = "find",
                                                           !.expires = rateTick + TtlTicks]]
    /\ disturbed' = (disturbed \/ Refreshing # {})

getRates(r) ==
    /\ refresh[r].stage = "idle"
    /\ \/ /\ GoodPairs # {}
          /\ listed' = [listed EXCEPT ![r] = GoodPairs]
          /\ excused' = IF disturbed \/ Refreshing # {} THEN excused \cup {r} ELSE excused
          /\ refresh' = [refresh EXCEPT ![r].stage = "done"]
          /\ UNCHANGED disturbed
       \/ GoodPairs = {} /\ startRefresh(r) /\ UNCHANGED <<listed, excused>>
    /\ UNCHANGED <<rateRows, rateTick>>

(* A pair that is not supported: an inverse one, which calculateConversion *)
(* asks for next, or any other text.  It has no row.                       *)
UnsupportedPair == 0

(* getRateByPair refreshes when its own pair is not good, though all the   *)
(* supported ones may be.                                                  *)
getRateByPair(r, p) ==
    /\ refresh[r].stage = "idle" /\ p \notin GoodPairs
    /\ startRefresh(r)
    /\ UNCHANGED <<rateRows, rateTick, listed, excused>>

refreshExpiredRates(r) ==
    /\ refresh[r].stage = "idle" /\ GoodPairs = {}
    /\ startRefresh(r)
    /\ UNCHANGED <<rateRows, rateTick, listed, excused>>

(* fetchAndCacheRates: a row of the pair is found, whichever it is. *)
findRow(r, i) ==
    /\ refresh[r].stage = "find"
    /\ i \in IF rateRows[refresh[r].pair] = <<>> THEN {0} ELSE 1..Len(rateRows[refresh[r].pair])
    /\ refresh' = [refresh EXCEPT ![r].stage = "save", ![r].row = i]
    /\ UNCHANGED <<rateRows, rateTick, listed, excused, disturbed>>

saveRow(r) ==
    /\ refresh[r].stage = "save"
    /\ rateRows' = [rateRows EXCEPT ![refresh[r].pair] =
                        IF refresh[r].row = 0 THEN Append(@, ExpiresAt(r))
                        ELSE [@ EXCEPT ![refresh[r].row] = ExpiresAt(r)]]
    /\ refresh' = [refresh EXCEPT ![r].stage = "history"]
    /\ UNCHANGED <<rateTick, listed, excused, disturbed>>

saveHistory(r) ==
    /\ refresh[r].stage = "history"
    /\ refresh' = [refresh EXCEPT ![r] = IF @.pair = PairCount THEN [@ EXCEPT !.stage = "done"]
                                         ELSE [@ EXCEPT !.stage = "find",
                                                        !.pair = refresh[r].pair + 1]]
    /\ UNCHANGED <<rateRows, rateTick, listed, excused, disturbed>>

(* The source or the database fails: the rest of the pairs are left. *)
refreshFails(r) ==
    /\ r \in Refreshing
    /\ refresh' = [refresh EXCEPT ![r].stage = "done"]
    /\ disturbed' = TRUE
    /\ UNCHANGED <<rateRows, rateTick, listed, excused>>

newRequest(r) ==
    /\ refresh[r].stage = "done"
    /\ refresh' = [refresh EXCEPT ![r] = NoRefresh]
    /\ listed' = [listed EXCEPT ![r] = SupportedPairs]
    /\ excused' = excused \ {r}
    /\ UNCHANGED <<rateRows, rateTick, disturbed>>

rateTime ==
    /\ rateTick < LastRateTick
    /\ rateTick' = rateTick + 1
    /\ UNCHANGED <<rateRows, refresh, listed, excused, disturbed>>

RateTableNext ==
    \/ \E r \in RateReaders :
        \/ getRates(r) \/ refreshExpiredRates(r) \/ saveRow(r) \/ saveHistory(r)
        \/ refreshFails(r) \/ newRequest(r)
        \/ \E p \in SupportedPairs \cup {UnsupportedPair} : getRateByPair(r, p)
        \/ \E i \in 0..Len(rateRows[refresh[r].pair]) : findRow(r, i)
    \/ rateTime

RateTableSpec == RateTableInit /\ [][RateTableNext]_rateVars

----------------------------------------------------------------------------
(* Type invariant. *)
RateTableTypeOK ==
    /\ rateRows \in [SupportedPairs -> Seq(Nat)]
    /\ rateTick \in 0..LastRateTick
    /\ refresh \in [RateReaders -> [stage : {"idle", "find", "save", "history", "done"},
                                    pair : SupportedPairs, expires : Nat, row : Nat]]
    /\ listed \in [RateReaders -> SUBSET SupportedPairs] /\ excused \subseteq RateReaders
    /\ disturbed \in BOOLEAN

(* getRates answers with whatever rows are good.  The list is whole as     *)
(* long as refreshes ran one at a time and to their end: the rows of one   *)
(* refresh expire together.                                                *)
ListsAreWhole == \A r \in RateReaders \ excused : listed[r] = SupportedPairs
============================================================================
