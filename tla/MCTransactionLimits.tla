------------------------ MODULE MCTransactionLimits ------------------------
(***************************************************************************)
(* Small instances of TransactionLimits, of the rate limiters, and of the  *)
(* cache, the feed and the table of exchange rates, for TLC.  They share   *)
(* no state: focus chooses the one that moves, among the Parts a run is    *)
(* about.                                                                  *)
(***************************************************************************)
EXTENDS TransactionLimits, RateLimits, RatesCache, RatesGateway, RateTable,
        FiniteSetsExt

CONSTANT Parts

ASSUME PartsAssumption == Parts \subseteq {"limits", "limiters", "cache", "feed", "table"}

VARIABLE focus

MCVars == <<focus, vars, limitVars, cacheVars, gatewayVars, rateVars>>

(* The modules that stand still start in one fixed initial state. *)
MCInit == /\ focus \in Parts
          /\ Init
          /\ LimitsInit
          /\ focus # "limiters" => limiter = "user"
          /\ CacheInit
          /\ GatewayInit
          /\ RateTableInit

MCNext == /\ UNCHANGED focus
          /\ focus # "limits" => UNCHANGED vars
          /\ focus # "limiters" => UNCHANGED limitVars
          /\ focus # "cache" => UNCHANGED cacheVars
          /\ focus # "feed" => UNCHANGED gatewayVars
          /\ focus # "table" => UNCHANGED rateVars
          /\ \/ focus = "limits" /\ Next
             \/ focus = "limiters" /\ LimitsNext
             \/ focus = "cache" /\ CacheNext
             \/ focus = "feed" /\ GatewayNext
             \/ focus = "table" /\ RateTableNext

MCSpec == MCInit /\ [][MCNext]_MCVars

MCDefaultLimits == [read |-> 2, write |-> 1]

(* Bounds of the run: requests differ in nothing but their number, so they *)
(* come in its order; more than three are made only one after the other,   *)
(* and more than four only of the user's limiter.                          *)
HitsBound ==
    LET Made == {h \in Hits : hit[h] # "idle"} IN
    /\ \A h \in Made : 1..h \subseteq Made
    /\ Cardinality(Made) > 3 => Cardinality({h \in Made : hit[h] # "over"}) <= 1 /\ ~overlap
    /\ Cardinality(Made) > 4 => limiter = "user"

Sum(f) == MapThenSumSet(LAMBDA k : f[k], DOMAIN f)
OfUser(f, u) == [k \in {j \in DOMAIN f : j[1] = u} |-> f[k]]

(* Type invariant of the module that moves. *)
MCTypeOK == CASE focus = "limits" -> TypeOK
              [] focus = "limiters" -> LimitsTypeOK
              [] focus = "cache" -> CacheTypeOK
              [] focus = "feed" -> GatewayTypeOK
              [] focus = "table" -> RateTableTypeOK

(* The two accumulators agree: over its days and over its months a user    *)
(* was charged the same, and as much as its admitted calls since the last  *)
(* start, wherever midnight fell and whatever was refused.                 *)
AccumulatorsAgree ==
    \A u \in Users : /\ Sum(OfUser(dailyTotals, u)) = charged[u]
                     /\ Sum(OfUser(monthlyTotals, u)) = charged[u]

(* Who asks for rates is served: the cache keeps what was used last, a     *)
(* replay brings back what it can, and the table's list is whole.          *)
RatesAreServed == RecentlyUsedStays /\ ReplayIsComplete /\ ListsAreWhole
============================================================================
