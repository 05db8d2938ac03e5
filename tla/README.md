# NexaFx in TLA+

NexaFx-js is a NestJS back end for multi-currency wallets. Requests run as
interleaved handlers of a Node.js process over PostgreSQL (TypeORM), Redis, Bull
queues and scheduled jobs. Nearly everything that can go wrong in it lies between two
`await`s: a row is read without a lock and saved later, two legs of a movement commit
in transactions of their own, a check and the effect it guards are steps apart. The
modules here keep that control flow, one action per stretch between two awaits, with
errors and restarts at each of them, and abstract everything else.

The modules model functions, not the deployed application: at this commit some files
do not compile as they stand (a stray brace in `wallet/wallets.service.ts:150`,
duplicated lines in `transactions/transactions.controller.ts:48`, imports of modules
that do not exist in `app.module.ts`). Each action follows the body of the function it is
named after. Paths below are relative to `src/src/`.

## 1. The system

| Component | State | Operations | What makes it correct |
|---|---|---|---|
| Wallets (`wallet/`) | `wallet_balances`: one row per account and currency; a Map of sweep thresholds in memory | `adjustBalance` (row lock, own transaction), `getBalance`, `setAutoSweepConfig`, `processAutoSweep`, `updateCustomization` | no update lost, never negative, rounding bounded, every call returns |
| Transactions (`transactions/transactions.service.ts`) | `transactions`: status, `reversedAt`, unique `reference` | `transfer`, `createDeposit`, `createWithdrawal`, `createSwap`, `cancelTransaction`, `updateTags`, `reverseTransaction` | the status tells which legs moved; one reference moves money once; a reversal happens once |
| Fees (`fees/`) | fee records | `calculateFee`, `recordFee` | charged once, on the right side |
| Limits (`transactions/transaction-limit.service.ts`) | totals per day and month, in memory | `check` | totals within the limits, day and month agree |
| Exchange rates (`fx/exchange-rate.service.ts`) | a cache with a TTL | `getRate`, two providers | a missing rate refuses |
| Idempotency (`idempotency/`) | `idempotency_keys` | guard, interceptor, `store`, daily `cleanup` | an answered request is not executed again, a replay is a real answer |
| Webhooks (`webhooks/`) | endpoints, deliveries, a Bull queue | `createEndpoint`, `dispatchEvent`, the processor, the minutely retries, `manualRetry` | DELIVERED means received, no post unrecorded, no delivery forgotten, jobs end |
| FX trades (`fx/fx.service.ts`) | trades | `executeTrade`, `reverseTrade` | balances follow the trades, but for the rounding of the legs |
| Users and login (`users/users.service.ts`, `auth/`) | one row per user; used refresh tokens in memory; a single-flight cache of balances | register, log in, update, change the password (`updatePassword`, which nothing calls), reset it (`resetPassword` of `modules/auth`, the writer with a caller), delete, status and role by an administrator; fetch and invalidate balances | no token older than a dated password is accepted; the cache does not stay stale |
| Account closure (`users/account-closure.service.ts`, `tokens/`) | the account, its refresh tokens | create, rotate and revoke tokens; close in steps; nightly purge | a closed account holds no money and no usable token |
| One-time secrets (`otp/`, `auth/password-reset.service.ts`, `modules/auth/`) | codes, reset tokens, hashes in the user's row | issue, check, consume, purge | bounded attempts, single use, only the newest |
| Case tables: disputes, KYC documents and tiers, support tickets, freezes, deactivations | rows with a status | transitions by users, operators and a nightly job | a settled case stays settled, a decision is signed by who made it, a tier was approved |
| Bulk payments (`bulk-payments/`) | a payment, its items, counts | `create`, `processBulkPayment` in the background | the final verdict and counts agree with the items |
| Referrals (`referral/`) | codes, rewards | `generateCode`, `applyCode`, qualification, `rewardReferral` | no reward without a credit to the referrer |
| Rollbacks (`modules/transactions/`) | rollback records | `rollback` | one rollback per transaction, on record |
| Scheduled jobs (`scheduled-jobs/`) | locks in Redis | fail pending rows that timed out, purge secrets | one instance at a time |
| Subscriptions (`modules/webhooks/`) | subscriptions, deliveries | create, toggle, update, dispatch | every target is served |
| Rate limits (`modules/rate-limit`, `modules/endpoint-rate-limit`, `otp/otp-throttle.guard.ts`, `admin/admin-alert.service.ts`) | time stamps or counters per window | check, configure | what passes in any interval is bounded |
| Rates (`exchange-rates/`, `rates/`) | a table, an LRU map, a replay buffer | refresh, read, broadcast, replay | readers are served what there is |
| Keys, devices, key rotation, approvals (`modules/api-keys`, `notifications/push`, `admin/`) | rows saved as whole entities | create, use, revoke, rotate, approve | a save undoes only what overlaps it |
| Listings and exports (`admin/exports` and fourteen paged queries), archival | none; a file and a link | page by offset, store, download; move old rows | a row is missed or repeated only because another moved |
| Statements, reconciliation, verification (`statements/`, `reconciliation/`) | none | several queries and a sum | a movement counts once; a reported difference has a cause |
| Configuration and migrations (`config/`, `database/`) | environment, schema | validate, read, run, revert | configured as validated; an executed schema is whole |
| AML rules, ledger entries, payments, spending, metrics, mail, documents, Stellar access | see `PROJECT.json` | | not modelled |

How they interact: a handler of Transactions passes the idempotency guard, asks terms,
deactivation and limits for permission, calls `WalletsService.adjustBalance` for every
leg, records its fee, invalidates the users' cached balances and emits an event;
the webhooks' listener turns the event into deliveries. Components share rows
(`wallet_balances`, `transactions`) rather than messages; the queue and the event
emitter are the only asynchronous channels.

The hard behaviours are listed, with the lines where they bite, under `hazards` in
`PROJECT.json`: stale reads before a write, whole-entity `save`s that bring old columns
back, legs that commit separately, retries of what was already done, restarts between
two statements, acknowledgements that are lost, clocks read twice, overlapping jobs.

## 2. The modules

| Module | Models |
|---|---|
| `Money` | amounts, rounding to the cent (`toFixed(2)` of big.js: half away from zero) |
| `AtomicWallet` | what `adjustBalance` promises: abstract specification |
| `Wallets` | `WalletsService` at the granularity of SQL statements; refines `AtomicWallet` |
| `Transactions` | `TransactionsService` over wallets that are atomic, with `FeesService` |
| `Idempotency` | guard, interceptor, store and clean-up |
| `TransactionLimits` | `check`, with `ExchangeRateService` |
| `Webhooks` | endpoints, dispatch, processor, retry job, manual retry |
| `Cases` | the services over disputes, KYC documents, tier upgrades, support tickets, freezes and deactivations |
| `BulkPayments` | one bulk payment: creation and background processing |
| `Referrals` | codes, application, qualification, reward, deletion with the account |
| `BalanceCache` | the cache of balances of `UsersService` |
| `Users` | the row of a user, login, tokens |
| `AccountClosure` | refresh tokens and the closing of an account |
| `OneTimeCodes` | four stores of mailed secrets |
| `RateLimits` | four limiters |
| `RatesCache`, `RatesGateway`, `RateTable` | the LRU map, the websocket feed with its replay, the table of rates |
| `FxTrades`, `Rollbacks` | trades and rollbacks |
| `JobLocks` | the minutely job under its locks |
| `Subscriptions` | the second implementation of webhooks |
| `EntitySaves` | API keys, push devices, key rotation, approvals |
| `Listings` | paged reading, the export and the archival job |
| `LedgerReports` | statements and the nightly comparisons |
| `Configuration`, `Migrations` | start-up and schema |
| `Tables` | tables written down in parts, for the two |
| `MC*` | instances for TLC, and the properties of several modules together |
| `*Proofs` | the theorems, one module per run or, for the core, per component |

Conventions. `pc[r]` is the step the request or handler `r` is at, or its outcome:
`ok` (answered), `refused` (a check of the code), `failed` (an error was thrown or the
process stopped). Actions carry the names of the methods; a method with several awaits
has one action per stretch, the first named after the method. Variables commented
"history" record what happened and never guard an action. An operator whose comment
begins with "Mutant" is a wrong version of the definition after it, used only to show
that the property it is meant to break can be broken.

**PostgreSQL and TypeORM.** The isolation is READ COMMITTED. In `Wallets` the row lock
of `SELECT ... FOR UPDATE`, the wait of an UPDATE for it, and the wait of an INSERT for an
uncommitted INSERT of the same unique key are explicit. `repository.save` of a loaded
entity is a SELECT, a comparison and an UPDATE of the columns that differ; where another
step may fall between them (`Reload` and `Update` in `Wallets` and `Transactions`, `LoadRow`
and `WriteRow` in `Idempotency`) they are two actions. A handler of
`Transactions` saving its own row is one action: for the column `status` the pair is
equivalent to one write, at the moment of the UPDATE when the columns differ and at the
moment of the SELECT when they do not. `Webhooks!Written` offers both outcomes for the columns the
processor did not touch. A commit or a save may take effect and still be
reported as an error (lost acknowledgement).

**`Wallets`.** Balances are whole cents; deltas are sub-units, of which `SubUnits` make a cent, since
fees are computed to eight decimals. A missing row is `None`. `processAutoSweep` reads
the balance without a lock and withdraws the excess later; `updateCustomization` saves
an entity it read earlier, balance included. A restart clears the Map of thresholds.

**`Transactions`.** One request that creates a transaction names the row it creates.
`Catch` is the table of the handlers' catch blocks: a transfer swallows errors after its
insert and leaves the row PENDING, a withdrawal refunds, a swap repeats its credit up
to `MAX_RETRIES` times and then refunds. The legs are counted per row in
`debited`, `credited`, `refunded`, `repaid`, `recovered`. Terms, deactivation, limits, the Stellar
check and the argument checks are the action `Refuse` or an `Error`. Amounts are not negative.
`createDeposit` fails on every call, as the code does (section 6). `AdminService.overrideTransactionStatus` (`admin/admin.service.ts:133`)
writes any status on the same rows and moves no money; it is not an action here, so that `CompletedTransferMoved` and
`FailedMeansRefunded` are statements about the handlers of `TransactionsService` alone. What the override does to others is in
`LedgerReports` and `Listings`.

**`Idempotency`.** The answer of a handler is identified with the request it ran
for. An expired row still answers until the daily job deletes it.

**`TransactionLimits`.** After its await `check` runs to the end, but reads the clock twice;
`accumulate(r, tomorrow)` lets midnight fall between the two reads. Rates are positive integers.

**`Webhooks`.** Bull is modelled from its use: `attempts`, one rerun of a job whose worker
died, removal at the end. `nextRetryAt: undefined` leaves the column as it is, as TypeORM does. The
processor never sets `nextRetryAt`, so the minutely job sees a delivery only after a
manual retry. No code deletes an endpoint; `RemoveEndpoint` stands for
the deletion that the processor and the job allow for.

**`Cases`.** Six tables and seven services, all written alike: load a row, refuse or change the entity,
`save()` it, no lock. A method is an operator from the loaded row to the entities it may save;
a creator is an operator to the rows it may insert; the steps (`Open`, `Look`, `Insert`; `Load`, `Compare`,
`Update`, `GrantTier`) are shared. Disputes and support tickets have two entities each that name one table,
so the methods of both act on the same rows. No handler touches two of the tables: the variable `table`
is chosen in the initial state. `by` stands for the column that says who decided (reviewer, `unfrozenBy`,
assignee, author of the resolution). The nightly job loads all stale disputes at once and saves them one by one.
Messages, dates and events are left out: no guard reads them. A request body is of the type its DTO declares (section 6).

**`BulkPayments`.** The loop keeps its counts in local variables; an error inside its `try` marks the item
failed, an error outside, or a restart, ends the work for good. Bulk payments share no row, so one is enough.

**`Referrals`.** `rewardReferral` credits the wallet in a transaction of the wallet's own and then stores the reward
and the referral in another. `deleteAccount` removes a user's referrals, and `save` of an entity whose row
is gone inserts it again.

**`BalanceCache`.** The balances are a version number. Invalidation removes the entry and leaves a fetch under way
alone, which then caches what it read before; only the time to live ends that.

**`Users`.** Every change is a load, a `save` that compares, and an UPDATE of the columns that differ. `setAt`
records when the password in the row was really set. A token carries its `iat` in whole seconds, as `passwordChangedAt`
is compared with it. `resetPassword` of `modules/auth` finds the row and later writes the hash alone, without a date:
`AcceptedTokensPostdatePassword` excepts the passwords it stored, recorded in `resets`, and a reset that fell while another request
held the row (`crossedReset`); that a reset does end older tokens is refuted (`reset_keeps_tokens`). The entity file that
`modules/auth` imports is not in the repository; it is taken to be the same table.

**`AccountClosure`.** The steps of `closeAccount` (verify, balance, save, revoke, mail, save) are actions; a rotation is
a read and a save of two rows. Credits to the wallet come at any time. The balance check passes only an account without
a wallet row (section 6).

**`OneTimeCodes`.** `store` says which of the four a behaviour is about: `otps`, reset tokens, and the reset and
verification hashes in the user's row. A code is the number of its issue. `undefined` in an `update` leaves the reset hash as it was, so it
stays usable until it expires: the properties make no claim of single use for it.

**`RateLimits`.** Time is in ticks; the sliding limiter keeps the times, the others a count and the start of
a window. The limiter of a user takes its time (`checkUser`), finds its record (`findRecord`) and writes it (`storeRecord`) in three steps, and
judges by the time it took first: a request that waited long for its queries opens a window that began long ago, so that one full
window and the next may fall into one interval. Twice the limit is the bound that holds, and it is reached; the other fixed windows stay below it.
The unique index refuses a second insertion of the record.

**`RateTable`.** A row is the instant at which it expires. `getRateByPair` of a pair that is not supported, such as the inverse one
that `calculateConversion` asks for next, finds no row and starts a refresh although every supported pair may be good.

**`FxTrades`, `Rollbacks`, `JobLocks`, `Subscriptions`, `EntitySaves`.** Each is a protocol of two or more awaits over one
small table. Their properties say exactly which overlap excuses a wrong result; the history variables
(`legFailed`, `doubled`, `crossed`, `ranOut`, `broken`, `contendedApprovals`, `crossedDevices`) record it. In `FxTrades` an amount is
converted at the rate of the moment (`Converted`: `toFixed(8)`, a whole number of sub-units) and every leg is rounded by `adjustBalance`;
`BalancesFollowTrades` therefore allows half a cent for each leg that is not of whole cents, and no more. In `Subscriptions` the columns
`status` and `isActive` are one value, active when both say so; `toggle` of a disabled one may leave it disabled, since
an update may have set one column alone.

**`Listings`.** Fourteen listings differ in their order, their largest page and whether rows may leave the filter; the
export pages on the server, stores a file and may stall and run again. The order is given by ranks: the `i`th row is the one with `i` rows not after it.

**`LedgerReports`.** A statement is the set of movements that its opening balance and its lines add up. Time is in instants, `DayLength` to the
day; the period is given in days and `Midnight` makes its end the first instant of the last day, so that the rest of that day is
counted nowhere, which `StatementCountsOnce` says. Wallets move by rows (a transfer, a withdrawal or swap with its fee, a trade) and without
one (`BareKinds`: referral rewards, `POST adjust-balance`, sweeps, the credit of a swap, refunds); each movement is rounded to the cent.
`overrideTransactionStatus` stands for every write of a status that moves nothing. The comparisons sum what the code sums, completed rows that
name the account as receiver, and allow `TOLERANCE`, one cent; `DiscrepancyHasACause` names every cause of a report, rounding of more than two
uneven receipts among them. The fee is one constant.

**`Configuration`.** A text is its form and its value in thousandths, which is what `Number`, `parseInt` and `parseFloat`
tell apart. Every variable of `env.validation.ts` and of `configuration.ts` is in the tables. `ConfiguredAsValidated` leaves out the texts that the
code reads differently (section 6): the empty one, `1e3`, and a fraction where `parseInt` reads.

**`Migrations`.** A schema is a set of names; a migration maps it to the schema after it, or fails. A revert takes the largest version; TypeORM takes
the row with the largest id, which may be another one after two operators raced. The invariant speaks of any set of executed migrations and does not depend on it.

**Sums of modules.** `MCWallets`, `MCIdempotency`, `MCTransactionLimits`, `MCBackOffice` and `MCOperations` check several
modules in one run. The modules of a run share no variable and each property speaks of one of them, so their
interleavings add nothing: `focus`, chosen in the initial state, says which of them moves, and the others stand still in
one of their initial states.

## 3. What the runs check

| Run | Instance | Shows |
|---|---|---|
| `wallets_adjust` | 3 adjustments of one account, 5 deltas, 3 spellings | `DriftBounded`, `NoLostUpdate`, and that the table implements `AtomicWallet` |
| `wallets_sweep` | 2 adjustments, a sweep, a customization; 2 askers of the cache, 2 changes | the sweep's unlocked read never overdraws; every call returns; the cache does not stay stale |
| `transfers` | a transfer with either another one, a cancellation and a tagging, or two reversals, a deposit and a tagging (`OneScenario`) | COMPLETED means both legs moved; one debit per reference; no money is created, and none lost once all is COMPLETED; one reversal is reported, after both of its legs |
| `withdraw_swap` | a withdrawal and a swap of 3 attempts on one user, a tagging | FAILED means refunded; success means settled; legs and attempts bounded; handlers return |
| `access` | 3 requests, 2 keys, 2 bodies; 3 visitors, 3 passwords; 2 rotations, 2 closures, 3 tokens; 2 issuers and 2 checkers per store | no re-execution of an answered request; answers are real; no accepted token is older than the password; closing and revoking are final; codes are one-time |
| `limits_and_rates` | 3 calls of one user, 3 days in 2 months; 5 requests per limiter, windows of 2 and 3 ticks, limits of 1 and 2, 4 instants (`HitsBound`); 4 pairs in a map of 2; 4 updates in a buffer of 2; 2 readers of 2 pairs | totals within limits and equal to what was charged; windows hold, also when a limiter's clock is read before its record; rates are served |
| `webhooks` | 2 endpoint requests, 1 event, 2 attempts, 2 retries, 2 overlapping runs, 1 operator | DELIVERED means received; every post on record; only a fault strands a delivery; jobs end |
| `back_office` | per table 2 handlers on 2 cases of one owner; 3 items; 2 callers, 2 codes, 2 members | a settled case stays settled (a dispute: unless two handlers had loaded it at once); one pending document per user; a tier was approved; a decision nobody contended is signed by its maker; the bulk verdict matches its items; every reward was credited |
| `operations` | 2 trades of one and a half cents at 2 rates and 2 reversals; 2 admins; 2 instances and 2 rows; 3 subscriptions; 2 savers per service; 3 rows, pages of 1 and 2, one change; 2 movements at 3 instants of 2 days; every variable with 8 whole and 5 broken numbers and the other texts; 2 operators and all ten migrations | undone once; one run until a lock expires; every target served; saves undo only overlaps; pages lose only to departures; reports are founded; configured as validated; an executed schema is whole |

Three more runs end in a counterexample, each for something a comment, a test or a document of the repository says:

| Run | Said | Done |
|---|---|---|
| `swap_keeps_credit` | "All retries exhausted - restore balance, then write FAILED" (`transactions.service.ts:471`) | an attempt that credited and then failed is repeated; at the end only the debit is undone |
| `repaid_twice` | "Transaction has already been reversed" (`:587`) | two reversals pass the test of `reversedAt` and both repay the sender |
| `reset_keeps_tokens` | "rejects token issued before password change" (`auth/strategies/jwt.strategy.spec.ts:42`) | a reset writes the hash and not the date, and older tokens go on being accepted |

**Bounds.** Two requests suffice for every race between two steps of one kind, and three let
two of them race around a third; wallets, limits, idempotency and users have three. Three swap attempts
are the code's own number. Deltas are chosen around the half cent, and limits so that two calls fit
and a third, or a larger pair, does not. Two days in the first month put one midnight inside a month and
one at its end. Two attempts, two retries and two overlapping runs of the
job make the first, a middle and the last attempt different. `MAX_ATTEMPTS` of codes is 2 (5 and 3 in the code): a last one and one before it. A map and a buffer of
two evict with a third entry. Three rows and pages of one or two give a page before and a page after every change. The
numbers tried in `Configuration` lie on both sides of every bound of the schema that a port, a percentage or a batch size has.
Amounts of one and a half cents make a trade, its reversal and a receipt round away from what they say. Two receipts of that amount are out by the whole tolerance of the nightly
comparisons, which must still accept them; that a third may exceed it is in the theorem only. Five requests are two full windows of the largest limit and one more.
Symmetry is used in `wallets_adjust` and `back_office`: no definition tells their members apart. Actions that a bound cuts off: the clocks (`LastDay`,
`LastSecond`, `LastTick`, `LastMs`, `LastInstant`, `LastRateTick`), escalations (`MaxLevel`, 2: a first and a
repeated one), credits (`MaxCredits`, `MaxWalletCredits`, 2), issued codes and judgements (`MaxCodes`, `MaxJudged`), updates
of the feed (`MaxUpdates`), changes of balances and of rows (`LastVersion`, `MaxChanges`); the number of requests bounds the rest.
`OneScenario` is a state constraint: the two groups of requests it keeps apart meet only in the transfer they share, which each
scenario contains. So are `HitsBound` (requests to a limiter come in the order of their numbers, which says nothing about them; a fourth and a fifth
only when none overlaps, since an overlap excuses the limiters that await) and `FailuresBound` (no second trade once a leg has failed, which excuses the
balances).

**Deadlock** checking is off: every model may stop when all its requests have returned.

**Fairness.** Weak fairness of the steps a request takes once started:
the event loop resumes a handler whose awaited call has returned, PostgreSQL grants a lock that was released,
Bull hands out waiting jobs, a cached entry expires. Arrivals, errors, restarts, the minutely
job and operators are not fair. `EveryCallReturns`, `EveryHandlerReturns`,
`JobsEnd` and `EventuallyCurrent` hold although errors and restarts may happen at any step. In `MCWallets` the fairness
of each part is required only when it has the focus.

**Mutants.** Every property of a passing run is violated by at least one wrong version of a definition it depends on; a
property that is a conjunction has one per conjunct where they concern different code. They are listed in `PROJECT.json`.

## 4. What is proved

All theorems hold for every value of the constants that satisfies the `ASSUME`s: sets of
requests, accounts, keys and users of any size, any amounts and limits.

| Module | Theorems | Inductive invariant |
|---|---|---|
| `MoneyProofs` | rounding errs by at most half a cent; whole cents are exact; what a sum over a finite set is, and how it changes with one entry (`Adds*`); induction as least counterexamples (`NoLeastSubset`, `NoLeastNumber`) | |
| `WalletsProofs` | `TypeCorrect`, `ReadStaysCurrent`, `NeverOverdrawn`, `LostUpdateFree`, `Refinement`, `DriftIsBounded` | `WInv`: a request between its read and its commit holds the lock of its row and the balance it read is the committed one; a lock has a holder at such a step; an INSERT holder has no row yet; copies taken by customizations are not negative |
| `TransactionsProofs` | `TypeCorrect`, `CompletedTransfersMoved`, `FailedAreRefunded`, `SuccessIsSettled`, `ReferenceMovesMoneyOnce`, `LegsAreBounded`, `OneReversal` | `TInv`: for each step of a handler, the legs applied so far and the status in memory; for each editor, that the status it carries was the row's at some time and what that status implies; for each reverser, the legs of its reversal |
| | `TransfersConserveMoney` | `MoneyInv`: while only transfers of whole cents, cancellations and taggings take part, the wallets hold the opening total less what is between the two legs of a transfer (`UnderWay`); a leg is credited once at most |
| `AccessProofs` | `TypeCorrect`, `NeverReexecuted`, `RepliesAreReal` | `IInv`: a stored row is the answer of an executed handler of that key, and a request answered and neither unsaved nor cleaned has a row |
| | `TokensPostdatePassword` | `UserInv`: the row, and every copy of it that will be saved, carries a password with the second it was really set, unless a reset stored it (`Dated`); two copies agree in the hash exactly when they agree in its date (`Alike`), so that an UPDATE writes both columns or neither (`Both`), as long as no reset fell in between |
| | `ClosuresAreFinal` | `ClosureInv`: families are named by tokens that exist, a rotation under way holds a row whose family is not cut off, and while nothing was credited late there is still no wallet, as the closer found |
| | `CodesOneTime` | `CodesInv`: what the history says of a code is in its row, or in the row its only check will write (`Counted`); two checks of one code make it contended; what is left of a superseded code cannot be accepted |
| | `AccessTypes` | the four together, for the composed specification |
| `TransactionLimitsProofs` | `TypeCorrect`, `LimitsHold` | `LInv`: a request past `check` has its arguments and a fresh currency has a rate |
| | `AccumulatorsStayEqual` | the property itself, with the types of `LInv`: a charge adds the same amount to one day, one month and the user's total |
| | `LimitersHold` | `LimInv`: the stored times or the counter cover every request let through since the window was opened, and an interval that reaches back before it holds fewer than the limit from there (`Windowed`, used in `OtpFits`, `AlertFits`; `EndpointFits` for the sliding one); for the user's, at most a limit of requests passed in the window's length before the record's start and the rest are in its count (`Opened`), and nothing passed since the one request under way took its time (`Decides`, `UserFits`) |
| | `EvictionSparesTheRecent` | `CInv`: the map is ordered by last use (`UsedInOrder`), so that whatever stands before a key was used before it, and a key was evicted only with `maxSize` others after it (`EvictedLate`) |
| | `ReplaysComplete` | `GInv`: the buffer is the tail of the updates (`BufferIsTail`), their stamps ascend, the client's last stamp is one it received |
| | `ListsWhole` | `RateInv`: while nothing disturbed, one refresh at a time, one row per pair, and the pairs already written agree in their expiry, as do all the others (`Undisturbed`) |
| | `RatesServed`, `PartsTyped` | the five together, for the composed specification |
| `WebhooksProofs` | `DeliveriesHonest` | `WInv`: for each of the four writers of a row (dispatch, processor, minutely job, operator), what its copy says of the row and of the posts made, and for each job its attempts left |
| `BackOfficeProofs` | `CasesSound`, `SettledForGood` (an action property) | `CaseInv`: the entity a handler will save is an edit of what it loaded; when nobody contended, the row is still what it was |
| | `PayoutsHonest` | `BulkInv`: the counts in local variables are those of the item rows, and what is behind the loop is settled, what is before it untouched; `ReferralInv`: per code the credits cover the rewards stored and those a caller is about to store |
| | `BackOfficeTypes` | the three together, for the composed specification |
| `OperationsProofs` | `UndoneOnceHolds` | `TradesInv`: the funds are the initial ones and the legs applied, each leg that of a trade or reversal begun, up to a drift (`Drift`) of half a cent for each leg done that is not of whole cents (`Made`); `RollbacksInv`: what each administrator has undone so far, and that an uncontended transaction is undone once |
| | `JobRunsOnce` | `JobInv`: as long as no lock expired under its holder, whoever runs the job has its lock, alone |
| | `TargetsServed` | `SubsInv`: each subscription a dispatch began with is yet to come, settled, or the one it is at |
| | `SavesUndoOnlyWhatOverlaps` | `SavesInv`: per service, a held copy agrees with its row or the row is marked as changed under it |
| | `ReportsFounded` | `LedgerInv`: what each query of a statement or comparison has found so far is what was there, on its side of the start and of the end; the balance is the sum of the movements applied up to half a cent for each that is not of whole cents (`BalanceReal`) |
| | `PagesLoseLittle` | `PagesInv`: in the middle of a reading (`HalfRead`), of the rows that were there throughout, the part already read lacks no more than left it, and every row at rank `k` there has `k` rows read up to it, less those that entered (`ReadOver`) |
| | `ConfiguredRight` | `ConfigurationInv`: what was validated comes from an accepted text, the environment holds that text or the default, and what is configured was read from there; the tables agree rule by rule (`SchemaIsSound`, `SettingsAreSound`, `ReadAsParsed`) |
| | `SchemaStaysWhole` | `MigrationsInv`: a name is in the schema as soon as every migration that creates it is recorded as executed (`Present`), for every subset of executed migrations and not only for all ten; each migration's `up` only creates, its `down` drops only what it created (`*Sound`) |
| | `OperationsTypes`, `OperationsHold` | the nine together, for the composed specification: it implements each of the nine (`PartsOfSpec`) |

The properties are not inductive by themselves. `NoLostUpdate`, for example, needs that the
balance read under the lock is still the committed one, which needs that nobody else writes a
locked row, which for a first adjustment rests on the unique index and not on a lock.
`CompletedTransferMoved` is threatened by `updateTags`, which may write COMPLETED
long after it read it; the invariant says that the legs a status promises are never taken back.
The same difficulty returns in every component: between two awaits a handler carries a copy of a row, and each invariant says what that
copy still tells about the row. Where the code has no lock the answer depends on who else held the row, so the invariants of
`OneTimeCodes`, `Cases`, `Rollbacks`, `JobLocks` and `EntitySaves` tie the history variables (contended, crossed, ran out) to
the copies in flight: an excuse is recorded before it is needed. The limiters need a second window: a fixed window is bounded over any
interval only because the window before the current one is. A listing read by offset needs a rank for every row rather than a count, since a row that
leaves shifts all those after it. `ExecutedSchemaIsWhole` speaks of all ten migrations, but an operator may revert one and run it again, so
its invariant speaks of any subset; that `InitialSchema.down` always fails (section 6) is used.

`Refinement` and `DriftIsBounded` assume `Customizers = {}`: a customization writes an old
balance back, and both are false with it. `BalanceNonNegative` and `NoLostUpdate` are proved with customizations.

**Where the theorems stand.** Those of `MCIdempotency`, `MCTransactionLimits`, `MCBackOffice` and `MCOperations` are about
the components themselves (`UserSpec`, `ClosureSpec`, `CodesSpec`, `LimitsSpec`, ...); the composed ones (`AccessTypes`, `PartsTyped`,
`RatesServed`, `BackOfficeTypes`, `OperationsTypes`, `OperationsHold`) use that every step of the composition is a step or a stutter of each part. `ReadStaysCurrent` and the
separate type invariants are proved and used in the other proofs; the runs check them only through what they imply.

**Assumptions.** They are the `ASSUME`s of the component modules, which TLC evaluates on the instances: bounds and limits are natural
numbers, special values (`None`, `NoOne`, `NoRow`, `NoTrade`, `NoSub`, `NoTx`) are no members of the sets they stand outside of, sets that are
counted or summed over are finite (`FiniteAssumption` of `Transactions`: wallets and transfers), the largest number of `Configuration` is not below the
largest default of the schema, and where the code relies on an order of its own constants that order is assumed (the limit for writes is at most the one for
reads, 20 and 100 in `modules/rate-limit`). No theorem assumes anything about who runs when.

**Induction.** Sums over sets of any size, the statements of a run of migrations and the pages of a listing need induction. It is stated as a
least counterexample: a set of subsets of a finite set, or of numbers of an interval, without a least member is empty (`NoLeastSubset`, from the
library's `WFMin` and the order of finite subsets, and `NoLeastNumber`). The sum of the community modules is tied to it by `AddsEmpty` and `AddsStep`.

**Model-checked only.** The liveness properties `EveryCallReturns`, `EveryHandlerReturns`, `JobsEnd` and `EventuallyCurrent`, since fairness and `ENABLED` are
outside the prover's reach, and the three counterexamples. Every invariant and every action property that a run checks is a theorem.

## 5. What is not modelled

`PROJECT.json` lists every part with its status.

- **Connection pool.** A transfer holds one pooled connection while `adjustBalance` asks for a second
  (`transactions.service.ts:159`); as many concurrent transfers as the pool has connections wait for each other. The size is a
  default of the driver and not in this code; it is listed as a hazard.
- **`AdminService.overrideTransactionStatus`** (`admin/admin.service.ts:133-176`, tested at `admin.service.spec.ts:62` and `:102`) is no action of
  `Transactions`: an administrator may write COMPLETED on a transfer that never moved, or FAILED without a refund, and no code relates the two.
- **AML rules** count rows in a window before one insert; nothing modelled reads the alert. **Ledger entries** are single appends that no
  modelled handler makes. **Payments** are stubs of a provider. **Rate alerts, currencies, beneficiaries, organisations, fee tiers** are
  records with one statement per operation.
- **Mail, PDF, S3, push providers, Stellar and Soroban** are input and output; where their failure matters it is an error of the caller.
- **Spending, portfolio, metrics, health, statistics** only read.
- **Previews, simulations, receipts and comments** of `TransactionsService` change neither a balance nor a status.
- **Guards, decorators, controllers, GraphQL and module wiring** are framework glue; the guards with state (idempotency, rate
  limits, API keys, OTP throttle) are modelled.
- `src/migrations` holds a second set of migrations that `data-source.ts` does not load.

## 6. Deviations met while modelling

Besides the three counterexamples, reading the code against its tests and comments showed:

- `createDeposit` reads `tx.id` inside the initialiser of `tx` (`transactions.service.ts:313`): every deposit fails after its limit was charged; `test/transactions/deposit.e2e-spec.ts:83` expects it to succeed.
- A withdrawal's debit and its refund are rounded to the cent separately (`:392`), so a failed withdrawal may leave a cent more than before; `DriftBounded` is the bound that holds.
- `cancelTransaction` decides on a status it read earlier (`:563`) and may write CANCELLED over COMPLETED.
- A transfer left PENDING is meant for reconciliation (`:169`), which selects by `pendingTimeoutAt`; nothing sets that column (`scheduled-jobs/scheduled-jobs.service.ts:46`).
- The limits' totals are lost at a restart, and charged for transactions that fail later.
- The key is looked up before the handler and stored after it, with nothing reserved in between (`idempotency.guard.ts:63`): two concurrent copies of a request both run, although `docs/architecture.md:6` says "deduplicates replayable requests". `NoReexecution` is what holds, once one of them was answered.
- Two concurrent `store`s under one key with different bodies may leave one body's hash with the other's answer (`idempotency.service.ts:37`).
- The number of endpoints per user may be exceeded by concurrent requests (`webhooks.service.ts:112`); a delivery the endpoint accepted is sent again or marked FAILED when the save after it fails (`webhooks.processor.ts:92`), and overlapping retry runs may mark a delivered one FAILED.
- Two overlapping reviews of a case may leave the status of one with the reviewer of the other, since each `save` writes only the columns that differ from the row it selected (`kyc/kyc.service.ts`); `SignedUnlessContended` is what holds.
- A dispute escalated from a stale copy is open again after it was closed (`disputes/disputes.service.ts`).
- A tier upgrade approved and rejected at once leaves the tier granted and the row rejected (`modules/kyc-tiers/services/kyc-tiers.service.ts`).
- Two overlapping `rewardReferral`s both pay. `referral/referral.service.spec.ts:83` says "prevents double-payment", of a method the service no longer has. A credit whose second transaction fails stays without a reward.
- An item of a bulk payment may be failed although its transaction was stored, and a restart leaves the payment `processing` for good (`bulk-payments/bulk-payments.service.ts`).
- `submit` stores the whole request body and `review` any `status` (`kyc/kyc.service.ts:75`, `:99`): the DTOs are interfaces, which nothing checks at run time. `Cases` has the bodies they declare, with a fresh document and the statuses approved and rejected.
- `src/support` is modelled but not imported by `app.module.ts`.
- The branch of `login` that locks an account names a variable that is not declared (`auth/auth.service.ts`): the failure that should lock raises an error instead.
- `assertZeroBalance` compares a decimal column, which the driver returns as a text, with `!== 0` (`users/account-closure.service.ts:163`): an account with any wallet row, an empty one too, cannot be closed, although the message asks for a balance of zero.
- `updatePassword` (`users/users.service.ts:99`), the one writer that dates a password, has no caller.
- `deleteUser` asks for a soft delete of an entity without a delete column (`users/users.service.ts:118`) and fails after it has overwritten name and e-mail.
- `README.md:112` says that transactions are soft-deleted; the archival job deletes their rows after copying them.
- `resetPassword` passes `undefined` for the hash it means to clear (`modules/auth/auth.service.ts:174`): the column keeps it.
- `rotateRefreshToken` (`auth/auth.service.ts:160`) gives an old session a new `iat`, which a password change then does not end if the rotation comes after it.
- The limits of the OTP counter, the single use of a code and the replacement of an older one hold only for checks that do not overlap (`otp/otp.service.ts:90`).
- `executeTrade` and `reverseTrade` do not await their legs (`fx/fx.service.ts:39`): a trade is answered although a leg fails.
- Conversion and legs of a trade are rounded separately (`fx/fx.service.ts:36`, `wallet/wallets.service.ts:46`): a trade of 0.925 and its reversal leave a cent.
- The last day of a statement's period is left out, but for its first instant (`statements/statements.service.ts:61`).
- Requests of one user may pass twice the limit within one window (`modules/rate-limit/services/per-user-rate-limit.service.ts:35`).
- The locks of the jobs have no owner (`scheduled-jobs/scheduled-jobs.service.ts:71`).
- `InitialSchema.down` drops an index that belongs to a constraint and fails; `README.md:65` offers `migration:revert`. Two migrations create `ledger_verification_results`. `acquireMigrationLock` is never called.
- `configuration.ts` lacks the brace that closes `scheduledJobs`, `main.ts` declares `port` twice, `env.validation.ts` declares `WALLET_BALANCE_CACHE_TTL_SECONDS` twice, and `key-rotation.service.ts` imports a path that does not exist.
- The empty text validates as 0 (`Number`) and is read as the default; `1e3` validates as 1000 and is read as 1 (`parseInt`).
- The archival loop ends after one batch, since the INSERT it measures returns no rows, and breaks once a migration adds a column to the original table only (`archival/archival.service.ts:51`).
- Reconciliation and ledger verification sum receipts only, so every account that ever sent money is reported (`reconciliation/reconciliation.service.ts:34`); money that moves without a row is reported as well; statements ignore the status of a transaction.
- `exchange_rate_cache` has no unique key on the pair: concurrent refreshes may leave two rows; `getRates` takes any good row for the whole list.

## 7. Plan

Modelled and checked: everything in section 2. Proved: section 4. What could follow, in this order: the action property
of the balance cache behind `EventuallyCurrent` (no entry outlives its time to live); a composition of the idempotency guard, the limits and a transfer, to state
that one key and one reference move money once whatever is repeated; the connection pool, if its size becomes part of the configuration.
