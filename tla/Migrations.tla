---------------------------- MODULE Migrations -----------------------------
(***************************************************************************)
(* The migrations of src/database/migrations, as `migration:run` and       *)
(* `migration:revert` execute them with src/database/data-source.ts: run   *)
(* applies the pending migrations in the order of their timestamps, revert *)
(* undoes the last one, each in one transaction.  What is pending, or      *)
(* last, was read before: two operators may work on the same list.         *)
(*                                                                         *)
(* The schema is a set of names: enum types, tables, indexes, a sequence,  *)
(* and the columns that more than one migration is about.  The types of    *)
(* columns are left out.  acquireMigrationLock (migration-lock.ts) is not  *)
(* called by anything.                                                     *)
(***************************************************************************)
EXTENDS Naturals, Sequences, FiniteSets, Tables

CONSTANT Operators      \* those who start the two commands

VARIABLES schema,       \* the names that exist
          executed,     \* typeorm_migrations: the numbers of the migrations
          command       \* per operator: the command under way and its list

migrationVars == <<schema, executed, command>>
----------------------------------------------------------------------------
(* Statements.  With a guard (IF [NOT] EXISTS) a statement that finds      *)
(* nothing to do succeeds.  A table takes its columns and indexes along.   *)

Create(guard, table, names) == [does |-> "create", guard |-> guard, on |-> table, names |-> names]
DropNames(guard, names) == [does |-> "drop", guard |-> guard, on |-> "", names |-> names]
Alter(table) == [does |-> "alter", guard |-> FALSE, on |-> table, names |-> {}]

enumTypes == {"transactions_status_enum", "kyc_documents_status_enum", "otps_purpose_enum",
              "ledger_entries_type_enum", "device_tokens_platform_enum",
              "organisations_kyc_status_enum", "organisation_members_role_enum",
              "support_tickets_category_enum", "support_tickets_status_enum",
              "webhook_deliveries_status_enum"}

(* The tables of InitialSchema: the enum types they use and their indexes. *)
Table(uses, indexes) == [uses |-> uses, indexes |-> indexes]

accountTables ==
    [users |-> Table({}, {"UQ_users_email"}),
     user_accounts |-> Table({}, {"UQ_user_accounts_email", "IDX_user_accounts_deletedAt",
                                  "IDX_user_accounts_piiPurgeAt"}),
     wallet_balances |-> Table({}, {"UQ_wallet_balances_accountId_currency"}),
     transactions |-> Table({"transactions_status_enum"},
        {"IDX_transactions_senderId_createdAt", "IDX_transactions_status_createdAt",
         "IDX_transactions_currency_createdAt", "IDX_transactions_senderId",
         "IDX_transactions_receiverId", "IDX_transactions_createdAt"})]

securityTables ==
    [refresh_tokens |-> Table({}, {"UQ_refresh_tokens_tokenHash", "IDX_refresh_tokens_userId",
                                   "IDX_refresh_tokens_familyId", "IDX_refresh_tokens_expiresAt"}),
     password_reset_tokens |-> Table({}, {"IDX_password_reset_tokens_userId"}),
     idempotency_keys |-> Table({}, {"IDX_idempotency_keys_createdAt",
                                     "IDX_idempotency_keys_expiresAt"}),
     kyc_documents |-> Table({"kyc_documents_status_enum"},
                             {"IDX_kyc_documents_userId", "IDX_kyc_documents_status"}),
     otps |-> Table({"otps_purpose_enum"}, {"IDX_otps_userId_purpose", "IDX_otps_expiresAt"}),
     activity_events |-> Table({}, {"IDX_activity_events_userId_createdAt",
                                    "IDX_activity_events_type"}),
     aml_alerts |-> Table({}, {"IDX_aml_alerts_userId", "IDX_aml_alerts_ruleTriggered",
                               "IDX_aml_alerts_createdAt"})]

ledgerTables ==
    [audit_logs |-> Table({}, {"IDX_audit_logs_userId", "IDX_audit_logs_entityType_entityId",
                               "IDX_audit_logs_createdAt"}),
     fx_trades |-> Table({}, {"IDX_fx_trades_userId", "IDX_fx_trades_executedAt"}),
     ledger_entries |-> Table({"ledger_entries_type_enum"},
        {"IDX_ledger_entries_userId_createdAt", "IDX_ledger_entries_userId",
         "IDX_ledger_entries_transactionId"}),
     device_tokens |-> Table({"device_tokens_platform_enum"}, {"IDX_device_tokens_userId"}),
     organisations |-> Table({"organisations_kyc_status_enum"}, {"IDX_organisations_ownerId"}),
     organisation_members |-> Table({"organisation_members_role_enum"},
                                    {"IDX_organisation_members_organisationId"}),
     ledger_verification_results |-> Table({}, {"IDX_ledger_verification_results_ranAt"})]

(* The unique indexes of terms_acceptances and others belong to a          *)
(* constraint: they go with their table only.                              *)
serviceTables ==
    [referrals |-> Table({}, {"IDX_referrals_referrerId"}),
     support_tickets |-> Table({"support_tickets_category_enum", "support_tickets_status_enum"},
                               {"IDX_support_tickets_userId"}),
     terms_acceptances |-> Table({}, {}),
     webhook_endpoints |-> Table({}, {"IDX_webhook_endpoints_ownerId"}),
     webhook_deliveries |-> Table({"webhook_deliveries_status_enum"},
        {"IDX_webhook_deliveries_endpointId", "IDX_webhook_deliveries_eventName"})]

initialTables == Together({accountTables, securityTables, ledgerTables, serviceTables})
ofConstraint == {"UQ_terms_acceptances_userId_version"}
initialColumns == {"transactions.retryCount", "transactions.txHash"}
initialNames == enumTypes \cup DOMAIN initialTables \cup initialColumns \cup ofConstraint
                \cup UNION {initialTables[t].indexes : t \in DOMAIN initialTables}

(* What is on a table, and goes with it. *)
indexesAdded == [transactions |-> {"IDX_transactions_receiptNumber"},
                 kyc_documents |-> {"IDX_kyc_documents_active_user"},
                 ledger_verification_results |-> {"IDX_ledger_verification_ranAt"}]
columnsAdded == [transactions |-> {"transactions.retryCount", "transactions.txHash",
                                   "transactions.receiptNumber"},
                 wallet_balances |-> {"wallet_balances.is_primary", "wallet_balances.keyVersion"},
                 users |-> {"users.preferredLanguage"},
                 terms_acceptances |-> ofConstraint]
tablesAdded == [currency_pairs |-> {"IDX_currency_pairs_isActive"},
                fee_records |-> {"IDX_fee_records_transactionId", "IDX_fee_records_userId"}]
Under(f, t) == IF t \in DOMAIN f THEN f[t] ELSE {}
Parts(t) == Under(indexesAdded, t) \cup Under(columnsAdded, t) \cup Under(tablesAdded, t)
            \cup IF t \in DOMAIN initialTables THEN initialTables[t].indexes ELSE {}

(* A statement succeeds on the schema s, and what it leaves. *)
Succeeds(st, s) ==
    /\ st.on = "" \/ st.on \in s
    /\ st.does = "create" /\ ~st.guard => st.names \cap s = {}
    /\ st.does = "drop" => (~st.guard => st.names \subseteq s) /\ st.names \cap ofConstraint = {}
Result(st, s) ==
    CASE st.does = "create" -> s \cup st.names
      [] st.does = "drop" -> s \ (st.names \cup UNION {Parts(t) : t \in st.names})
      [] OTHER -> s
----------------------------------------------------------------------------
(* The migrations.  A list of statements of one kind on one table is       *)
(* written as one statement.                                               *)

Migration(up, down) == [up |-> up, down |-> down]

InitialSchema == Migration(
    <<Create(FALSE, "", initialNames)>>,
    <<DropNames(TRUE, ofConstraint \cup UNION {initialTables[t].indexes : t \in DOMAIN initialTables}),
      DropNames(TRUE, DOMAIN initialTables), DropNames(TRUE, enumTypes)>>)

AlterIdempotencyKeyLength == Migration(<<Alter("idempotency_keys")>>, <<Alter("idempotency_keys")>>)

AddRetryCountToTransactions == Migration(
    <<Create(TRUE, "transactions", {"transactions.retryCount"})>>,
    <<Alter("transactions"), DropNames(TRUE, {"transactions.retryCount"})>>)

(* Mutant: the table is not created, since InitialSchema has created it. *)
AddTxHashOnly == Migration(
    <<Alter("transactions"), Create(TRUE, "transactions", {"transactions.txHash"})>>,
    <<DropNames(TRUE, {"IDX_ledger_verification_ranAt"}), DropNames(TRUE, {"ledger_verification_results"}),
      DropNames(TRUE, {"transactions.txHash"}), Alter("transactions")>>)

AddTxHashAndLedgerVerification == Migration(
    <<Alter("transactions"), Create(TRUE, "transactions", {"transactions.txHash"}),
      Create(TRUE, "", {"ledger_verification_results"}),
      Create(TRUE, "ledger_verification_results", {"IDX_ledger_verification_ranAt"})>>,
    <<DropNames(TRUE, {"IDX_ledger_verification_ranAt"}), DropNames(TRUE, {"ledger_verification_results"}),
      DropNames(TRUE, {"transactions.txHash"}), Alter("transactions")>>)

AddIsPrimaryToWallets == Migration(
    <<Create(FALSE, "wallet_balances", {"wallet_balances.is_primary"})>>,
    <<DropNames(FALSE, {"wallet_balances.is_primary"})>>)

AddReceiptNumberToTransactions == Migration(
    <<Create(TRUE, "", {"transaction_receipt_seq"}),
      Create(TRUE, "transactions", {"transactions.receiptNumber"}),
      Create(TRUE, "transactions", {"IDX_transactions_receiptNumber"})>>,
    <<DropNames(TRUE, {"IDX_transactions_receiptNumber"}), Alter("transactions"),
      DropNames(TRUE, {"transactions.receiptNumber"}), DropNames(TRUE, {"transaction_receipt_seq"})>>)

AddActiveKycUniqueIndex == Migration(
    <<Create(FALSE, "kyc_documents", {"IDX_kyc_documents_active_user"})>>,
    <<DropNames(FALSE, {"IDX_kyc_documents_active_user"})>>)

AddKeyVersionToWalletBalances == Migration(
    <<Create(TRUE, "wallet_balances", {"wallet_balances.keyVersion"})>>,
    <<Alter("wallet_balances"), DropNames(TRUE, {"wallet_balances.keyVersion"})>>)

AddPreferredLanguageToUsers == Migration(
    <<Create(FALSE, "users", {"users.preferredLanguage"})>>,
    <<DropNames(FALSE, {"users.preferredLanguage"})>>)

AddCurrencyPairsAndFeeRecords == Migration(
    <<Create(FALSE, "", {"currency_pairs"}),
      Create(FALSE, "currency_pairs", tablesAdded.currency_pairs),
      Create(FALSE, "", {"fee_records"}), Create(FALSE, "fee_records", tablesAdded.fee_records)>>,
    <<DropNames(TRUE, tablesAdded.fee_records), DropNames(TRUE, {"fee_records"}),
      DropNames(TRUE, tablesAdded.currency_pairs), DropNames(TRUE, {"currency_pairs"})>>)

(* In the order of their timestamps; of the two with the same, by name. *)
migrations == <<InitialSchema, AlterIdempotencyKeyLength, AddRetryCountToTransactions,
                AddTxHashAndLedgerVerification, AddIsPrimaryToWallets,
                AddReceiptNumberToTransactions, AddActiveKycUniqueIndex,
                AddKeyVersionToWalletBalances, AddPreferredLanguageToUsers,
                AddCurrencyPairsAndFeeRecords>>
Versions == 1..Len(migrations)
----------------------------------------------------------------------------
(* Executing statements: the schema before each of them. *)
SchemaAfter(sts, s) ==
    LET after[i \in 0..Len(sts)] == IF i = 0 THEN s ELSE Result(sts[i], after[i - 1])
    IN  after
Executable(sts, s) == \A i \in 1..Len(sts) : Succeeds(sts[i], SchemaAfter(sts, s)[i - 1])

Ups(list) == LET ups[i \in 0..Len(migrations)] ==
                    IF i = 0 THEN << >>
                    ELSE IF i \in list THEN ups[i - 1] \o migrations[i].up ELSE ups[i - 1]
             IN  ups[Len(migrations)]

NoCommand == [runs |-> {}, reverts |-> 0]

MigrationsInit ==
    /\ schema = {}
    /\ executed = {}
    /\ command = [o \in Operators |-> NoCommand]

(* The table of executed migrations is read ... *)
readPending(o) ==
    /\ command[o] = NoCommand /\ executed # Versions
    /\ command' = [command EXCEPT ![o].runs = Versions \ executed]
    /\ UNCHANGED <<schema, executed>>

(* TypeORM reverts the row that was inserted last: here the largest        *)
(* version, which a race of two operators may make another one.            *)
readLast(o) ==
    /\ command[o] = NoCommand /\ executed # {}
    /\ command' = [command EXCEPT ![o].reverts = CHOOSE m \in executed : \A n \in executed : n <= m]
    /\ UNCHANGED <<schema, executed>>

Statements(o) == IF command[o].reverts # 0 THEN migrations[command[o].reverts].down
                 ELSE Ups(command[o].runs)

(* ... and the command works in one transaction, which locks what it       *)
(* alters, and records what it has done.                                   *)
commit(o) ==
    /\ command[o] # NoCommand
    /\ Executable(Statements(o), schema)
    /\ schema' = SchemaAfter(Statements(o), schema)[Len(Statements(o))]
    /\ executed' = (executed \cup command[o].runs) \ {command[o].reverts}
    /\ command' = [command EXCEPT ![o] = NoCommand]

(* A statement failed, for the schema or for the rows, or the process died.*)
rollbackCommand(o) ==
    /\ command[o] # NoCommand
    /\ command' = [command EXCEPT ![o] = NoCommand]
    /\ UNCHANGED <<schema, executed>>

MigrationsNext ==
    \E o \in Operators : readPending(o) \/ readLast(o) \/ commit(o) \/ rollbackCommand(o)

MigrationsSpec == MigrationsInit /\ [][MigrationsNext]_migrationVars
----------------------------------------------------------------------------
AllNames == initialNames \cup {"transaction_receipt_seq"} \cup DOMAIN tablesAdded
            \cup UNION {Parts(t) : t \in DOMAIN initialTables \cup DOMAIN tablesAdded}

(* Type invariant. *)
MigrationsTypeOK ==
    /\ schema \subseteq AllNames
    /\ executed \subseteq Versions
    /\ command \in [Operators -> [runs : SUBSET Versions, reverts : 0..Len(migrations)]]

(* Whatever was run, reverted and run again, by operators who did not know *)
(* of each other: when every migration is recorded as executed, nothing of *)
(* the schema is missing.  (One index is excepted: reverting               *)
(* AddTxHashAndLedgerVerification drops the table that InitialSchema       *)
(* created, with its index, and running it again creates another one.)     *)
ExecutedSchemaIsWhole ==
    executed = Versions => AllNames \ {"IDX_ledger_verification_results_ranAt"} \subseteq schema
============================================================================
