---------------------------- MODULE MCOperations ----------------------------
(***************************************************************************)
(* Small instances of nine modules in one run: trades and rollbacks, jobs, *)
(* webhook subscriptions, administrative saves, listings and exports,      *)
(* reports on the ledger, the configuration and the migrations.  They      *)
(* share no state, so each property speaks of one of them, and their       *)
(* interleavings need not be explored: focus chooses the one that moves.   *)
(***************************************************************************)
EXTENDS FxTrades, Rollbacks, JobLocks, Subscriptions, EntitySaves, Listings,
        LedgerReports, Configuration, Migrations

CONSTANT s1

(* Bound of the run: after a leg has failed, which excuses the balances,   *)
(* no second trade is explored.                                            *)
FailuresBound == legFailed => Cardinality({t \in Trades : trades[t] # "none"}) <= 1

Modules == {"trades", "rollbacks", "jobs", "subscriptions", "saves", "listings",
            "ledger", "configuration", "migrations"}

VARIABLE focus

vars == <<focus, tradeVars, rollbackVars, jobVars, subVars, saveVars, listingVars,
          ledgerVars, configurationVars, migrationVars>>

(* The modules that stand still start in one fixed initial state. *)
Init == /\ focus \in Modules
        /\ TradesInit
        /\ RollbacksInit
        /\ JobInit
        /\ SubsInit
        /\ SavesInit
        /\ focus # "saves" => service = "keys" /\ requestedBy = [a \in Approvals |-> s1]
        /\ ListingsInit
        /\ focus # "listings" => listing = TransactionExport
        /\ LedgerInit
        /\ ConfigurationInit
        /\ focus # "configuration" => name = "PORT" /\ text = Unset
        /\ MigrationsInit

Next == /\ UNCHANGED focus
        /\ focus # "trades" => UNCHANGED tradeVars
        /\ focus # "rollbacks" => UNCHANGED rollbackVars
        /\ focus # "jobs" => UNCHANGED jobVars
        /\ focus # "subscriptions" => UNCHANGED subVars
        /\ focus # "saves" => UNCHANGED saveVars
        /\ focus # "listings" => UNCHANGED listingVars
        /\ focus # "ledger" => UNCHANGED ledgerVars
        /\ focus # "configuration" => UNCHANGED configurationVars
        /\ focus # "migrations" => UNCHANGED migrationVars
        /\ \/ focus = "trades" /\ TradesNext
           \/ focus = "rollbacks" /\ RollbacksNext
           \/ focus = "jobs" /\ JobNext
           \/ focus = "subscriptions" /\ SubsNext
           \/ focus = "saves" /\ SavesNext
           \/ focus = "listings" /\ ListingsNext
           \/ focus = "ledger" /\ LedgerNext
           \/ focus = "configuration" /\ ConfigurationNext
           \/ focus = "migrations" /\ MigrationsNext

Spec == Init /\ [][Next]_vars

(* Type invariant of the module that moves. *)
TypeOK == CASE focus = "trades" -> TradesTypeOK
            [] focus = "rollbacks" -> RollbacksTypeOK
            [] focus = "jobs" -> JobTypeOK
            [] focus = "subscriptions" -> SubsTypeOK
            [] focus = "saves" -> SavesTypeOK
            [] focus = "listings" -> ListingsTypeOK
            [] focus = "ledger" -> LedgerTypeOK
            [] focus = "configuration" -> ConfigurationTypeOK
            [] focus = "migrations" -> MigrationsTypeOK

(* What undoing a trade or a transaction leaves in the balances, within    *)
(* half a cent for each leg of adjustBalance that is not of whole cents,   *)
(* and on record, unless a leg failed or two attempts overlapped.          *)
UndoneOnce == BalancesFollowTrades /\ RolledBackOnce
============================================================================
