# A TLA+ model of the transaction platform

This directory models the secure high-throughput transaction platform: its
money-moving core (the transfer service, the cash service and the risk workers,
running against one PostgreSQL database), and around it the login rate limiter,
registration and the manager, the schema migrations, the risk engine, the
reports and the web console. TLC checks each on small instances. TLAPS proves
the main safety properties for every value of the constants.

## The system

| Component | State it keeps | Operations | Hard behaviour | What makes it correct |
|---|---|---|---|---|
| Transfer service (`app/services/transaction_service.py`), called by `routes/transactions.py` and by the manager's `/transfers` | rows of `accounts`, `transactions`, `risk_jobs` | `create_transaction`: look the key up, lock the sender, validate, check the balance, look the key up again, debit, insert, commit | concurrent duplicates, one key for several senders, foreign-key locks, a crash before the commit | one transaction per key; reservation, transaction and job appear together; decisions on the committed balance |
| Cash service (`app/services/cash_service.py`) | `accounts`, `cash_operations` | `perform_cash_operation`: look up, lock, apply, commit | concurrent duplicates without a second lookup, overflow in the flush | one operation per key; audit row equal to the committed balances |
| Risk worker (`app/workers/risk_worker.py`) | `risk_jobs`, `transactions`, `accounts`; the objects in its session | `process_next_risk_job`: claim, load, score, lock, settle; `run_worker` loops | claims by several workers, retries, values loaded before the lock, exceptions that end the process | one settlement per transaction; rows agree; no money lost; every job ends |
| Persistence (`models/entities.py`, `db/session.py`) | tables, constraints, row locks, the session's identity map | locks, unique-index waits, rollback, deadlock detection | waiting cycles, objects not refreshed by a later SELECT | locks exclude each other |
| Risk engine (`services/risk_engine.py`) and the context the worker gives it | none | score and decision from amount, activity, age, new merchant | the context is read at several times; rounding at the thresholds | a burst is noticed; waiting raises no score; decision and stored score agree |
| Registration and accounts (`routes/auth.py`, `routes/manager.py`) | `users`, `merchants`, `accounts` | register, create user, create merchant | check then insert of an email, a request cut short between two rows | one owner per email, one account per owner, true answers |
| Tokens and roles (`api/deps.py`, `core/security.py`) | none, the token is the state | issue, check, admin role | a role in a token against the role in the table | only the manager manages |
| Login rate limiter (`services/rate_limiter.py`, `api/deps.py`) | a Redis counter with an expiry | INCR and EXPIRE in one script | window boundary, expiry, Redis restart, refused attempts that count | refusals are deserved and end |
| Manager command line (`scripts/manager_cli.py`) | `users` | create the manager, change its password | two runs at once, beside a running API | one manager, nobody promoted |
| Migrations (`migrations/`) | the schema and its rows | eight upgrades and downgrades | rows rewritten between two data models | schema follows revision; money and ends of transactions are kept |
| Analytics (`services/transaction_analytics.py`) | none | report of a range of time | rows committed later than `created_at`, range ends, rounding | figures agree, ranges add up, closed periods are final |
| Web console (`frontend/`) | the browser's cookie session | login, registration, sign-out, pages, send, send again | responses that cross, requests without an answer | one person per session, true messages, one attempt per wrong password |
| Application, metrics, configuration, deployment | none of interest | | | |

The components of the core interact only through the database. A handler and a worker meet
on the rows of `accounts`. A handler creates the row of `risk_jobs` that a
worker claims. Handlers with one idempotency key meet on a unique index.
Workers meet on `FOR UPDATE SKIP LOCKED`. Registration, the manager's endpoints
and the command line meet on the unique indexes of the emails; logins meet on
one Redis key per host; the requests of a browser meet on its cookie. The
migrations run before the API starts and share the tables with every version of
it. Only the owner's `created_at`, the accounts and the transactions connect
these parts to the core, which is why each is a module of its own and the core
takes the accounts as constants.

## Modules

| Module | Models |
|---|---|
| `Store` | constants and their assumptions, the tables, the sessions, locks, rollback, process kill, deadlock detection |
| `TransferService` | `create_transaction`, one action between each two points where another session can be seen |
| `CashService` | `perform_cash_operation` |
| `RiskWorker` | `process_next_risk_job` and `run_worker` |
| `TransactionPlatform` | composition, fairness, type invariant, properties |
| `Ledger` | abstract specification: what the platform promises about money, one step per effect |
| `PlatformLedger` | the ledger the tables represent (refinement mapping) and what the platform implements of it |
| `LoginRateLimiter` | the Redis script, key expiry and the dependency of the login endpoint |
| `Identity` | registration, manager endpoints, command line, login and tokens |
| `TransferMigration` | the chain of revisions over schema and rows, and the applications that write the rows |
| `RiskEngine` | score, decision, and the context of a job claimed and tried again by several workers |
| `TransactionAnalytics` | reports over rows that are being written |
| `Console` | the Flask console and its API client, for one browser |
| `MCPlatform`, `MCRateLimiter`, `MCIdentity`, `MCMigration`, `MCRiskEngine`, `MCAnalytics`, `MCConsole` | instances for TLC |
| `Sums` | theorems about the sum of a function over a finite set |
| `TransactionPlatformProofs`, `AnalyticsProofs`, `RateLimiterProofs`, `IdentityProofs`, `MigrationProofs`, `RiskEngineProofs`, `ConsoleProofs` | theorems |

### How the state corresponds to the code

`balance`, `txn`, `job` and `cash` hold the committed rows. Each row keeps the
columns that a decision or a property reads. Transactions, jobs and cash
operations are indexed by idempotency key, which the unique constraints make
their identity. A duplicate insert the index would reject is the action
`UniqueViolation` or `CashFlushFails`, never a silent overwrite.

Each handler, teller and worker is a process. `pc` is the statement it executes
next, and after the last one its answer. A handler serves one request. Retries
and duplicates are further handlers with the same request. A worker loops.

`loaded` is the identity map of the process's SQLAlchemy session. `SessionLocal`
sets `autoflush=False` and `expire_on_commit=False`, and `select(...)
.with_for_update()` without `populate_existing` does not overwrite an object the
session already holds. `SelectForUpdate` therefore stores the committed balance
only if the account was not loaded before. This one line is the difference
between the two services, whose first load is the locking one, and the worker,
which loads first and locks later.

There are no lock variables. PostgreSQL keeps every lock to the end of the
transaction, so the locks a process holds are a function of the statement it has
reached: `HoldsUpdate`, `HoldsKeyShare` (the foreign key of an inserted
transaction locks the receiver `FOR KEY SHARE`) and `HoldsKey` (an inserted
but uncommitted idempotency key). `WantsUpdate`, `WantsKeyShare` and `WantsKey`
say what it waits for. A cycle of the waits-for relation enables
`DeadlockVictim` for any member.

Uncommitted writes are visible to nobody else under READ COMMITTED, so a write
appears in the tables in the action that commits it. A rollback ends the session
and leaves the tables alone.

`job.due` and `job.at` abstract `available_at`: whether it has passed, and its
rank among the timestamps taken. `clock` counts those timestamps. A job that
failed becomes due again in `BecomeDue`.

`request` is a transfer or cash request. Its fields are those the code compares
or computes with. The endpoints' own guards (empty key 400, a participant that
names a sender 403) reach no state and are left out.

### The modules around the core

`LoginRateLimiter`: `current` and `since` are the counter and the creation time of
each host's key; the key expires `Window` after it, by Redis's own clock, which does
not go back. The script is one step because Redis runs it as one. `attempts` is
history. `Forget` is a Redis that comes back without a key, from a snapshot older than
it; `lost` remembers whose key it lost. A snapshot in which the key had a lower count is
not modelled.

`Identity`: each request and each run of the command line is a process that looks
up, inserts (flush) and commits in separate steps and may be killed between any
two. An uuid4 or a password is named by the process that draws it. An insert waits
for another process's uncommitted row with the same email and fails on a committed
one; nobody catches that error. `DatabaseFails` is any other statement that fails, or a
commit that does, and leaves nothing; `Reply` may be a 500 too, when the commit was done
and its acknowledgement or the `db.refresh` after it fails, and leaves everything.
Login is one step, because it reads one row.
Emails are members of a small set with the code's `strip().lower()` as a function
(`Normal`). Names are short or longer than the column.

`TransferMigration`: the revisions 1 to 8 are `UpgradeTo` and `DowngradeFrom`, sets of
the names of tables, columns, constraints and indexes they create and drop; revision
7 also rewrites rows. `migrations/env.py` runs the revisions of one command in one
transaction, so a refused migration changes nothing, and only the ones that go
through are steps. A migration runs with no writer beside it: the container runs
`alembic upgrade head` and then starts the API (Dockerfile:13). The worker's
container does not wait for it, and its failing start is not modelled. Between the
migrations the application of each revision writes rows, legacy payments before
revision 7 and transfers after it. `origin` is history.

`RiskEngine`: scores are exact integers, 1,825,000 of them a point. The float the code
compares is within an ulp of it, so at a score of exactly 40 or 70 either decision
is possible. A worker takes the clock at its claim and counts the transfers when it
scores; the model separates the two. `Batches` commits several transfers at once, so
that twenty of them are few steps.

`TransactionAnalytics`: a row has its `created_at` from the `INSERT` on and is seen
from the commit on. `create_transaction` and the worker are the only writers of rows
in the application, and the model's rows are theirs; the integration test stores rows of
its own, one of them COMPLETED with REVIEW (`test_transaction_analytics_db.py:41-50`), and
for such a row the counts of a report do not fit each other. Amounts are in cents.
`pd.to_numeric` makes floats of them, and neither their values nor the order of the
additions is exact, so a report is not one record but the set `Reports` of all that the
roundings leave possible: a number that went through `k` roundings is off by at most `k`
parts in `Precision` (2^52 for float64), is then rounded to a cent, and a number in the
middle of two cents may become either. `Exact` is the condition under which only one
figure is left for a total.

`Console`: a handler works on the session its request brought along, and its
response replaces the cookie as a whole, if the handler changed it. The API is what
the console can see of it: it answers with one of its statuses, or there is no answer
(status 0), whether it served the request or not. A login is refused with 422 for the email, for a
password over 128 characters, or for being a form. `last_transaction_request` is not in
the session: the form's transaction is always refused (below), so it is never set.

## Properties

* `LocksExclude`, `LockedReadIsFresh`: locking works, and what the two services
  decide and write under their lock is computed from the committed balance.
* `ClaimsAreExclusive`, `WorkersNeverDeadlock`: workers do not share a job, and
  the ordered account locks keep them from blocking one another in a cycle.
* `ExactlyOnce`: an answer 201 is backed by a row equal to the request, and one
  request per key created it.
* `RowsAgree`, `SettledOnce`: transaction, decision, status, job and attempts fit
  together in every committed state, and a finished transaction never changes.
* `LedgerExplainsBalance`: each balance is the initial one, minus the reserved
  and completed transfers sent, plus the completed ones received, plus cash.
* `MoneyConserved`: all accounts and the transfers still PENDING hold together what the
  accounts opened with and what cash brought. It is proved rather than run.
* `ServicesImplementLedger`, `OnlyStaleSettlesLeaveLedger`: `Ledger` reserves,
  completes, refunds, holds or abandons a transfer and operates a cash operation in
  one step each, from the balance there is. The two services alone implement it.
  With the workers every step is one of its steps or invisible, except a settlement
  from a balance that was loaded before the lock and has changed since; even that
  one decides its transfer correctly and touches one balance.
* `CashAuditMatchesBalance`: the audit row holds the committed balances.
* `EveryRequestAnswered`, `EveryJobFinishes`: lock waits and retries end.
* `SessionsConsistent`: what the code relies on between two statements. It is the
  strengthening the proofs need, and proved rather than run.

Around the core:

* `BurstBounded`, `RefusedOnlyAfterLimit`, `RetryAfterSuffices`, `BlockEnds`: a host's
  logins are admitted at most twice the limit within any span of a window, refused
  only when as many as the limit were admitted just before, and a host that goes on
  trying is not shut out for longer.
* `EmailsAreUnique`, `OwnersHaveAccounts`, `AnswersAreTrue`: lookups and inserts of
  several endpoints interleave and die anywhere, and still an email has one owner, an
  owner one account, and an answer tells what was stored. A 500 does not say whether the
  commit came first, but it never stands for half a registration.
* `OnlyTheManagerManages`, `IdentitiesAreKept`: no interleaving of the command line
  and the API makes a second admin or promotes a user.
* `EveryProcessAnswers`: inserts that wait for each other come to an answer.
* `SchemaFollowsRevision`, `OneAccountEach`, `TransfersMapped`, `MoneyIsKept`,
  `UpgradeGoesThrough`: whatever way up and down led to a revision, the schema is the
  same, owners have their accounts, every transaction names whom it is from and to,
  no money appears or vanishes, and clean data gets to the head.
* `BlockedForAReason`, `LargeTransfersAreHeld`, `StoredScoreFitsDecision`: which
  transfers can be blocked, which cannot pass unseen, and that the score stored and the
  decision, one rounded and one not, disagree at most at a threshold itself.
* `BurstsAreNoticed`, `WaitingNeverRaises`: workers that score a burst at the same
  time do not all miss it, and a job that waits does not become riskier.
* `ReportAgrees`, `RangesAddUp`, `ClosedPeriodsAreFinal`: the counts of a report fit
  each other in every state, adjoining ranges add up, and a period is final for good once
  the requests of its time have ended. The same is said of totals and averages, to the
  cent, of transactions whose sum floats hold exactly enough (`Exact`), and of no others.
* `ShownUserOwnsToken`, `MessagesAreTrue`, `RefusedLoginsCostOne`: whatever responses
  cross, the user shown owns the token; what is said of an email is true; and a login
  that is refused for its password, or for the attempts before it, costs one of the attempts
  that everyone at the console shares. What the schema refuses costs two.

## Runs and bounds

| Run | Instance | Shows |
|---|---|---|
| `all` | 2 accounts of 10, crossing transfers of 6 and one with the key of the first, cash credit or debit of 5, 2 handlers, 1 teller, 2 workers, all killable, `MaxBalance` 15 (78 thousand states) | locks, claims, rows, settlement and the ledger in the composition, settlements that overflow included |
| `services` | 3 accounts, one request of every kind accepted or refused, 2 handlers, 2 tellers, no worker, all killable, `MaxBalance` 12 (245 thousand) | the services implement the ledger, the rows explain every balance, each key works once, through every refusal and failing flush |
| `progress` | 2 handlers, 1 teller, 1 worker, a handler and the teller killable, no overflow, fairness (36 thousand) | requests are answered and jobs finish |
| `limiter` | 1 host, limit 2, window 2, times 0 to 4, counters to 3, Redis may forget, fairness (313 thousand) | bursts bounded, refusals deserved, Retry-After long enough, blocks end |
| `identity` | 3 processes, two spellings of an email and the manager's, every operation, long names, a failing database, fairness (471 thousand) | every property of `Identity` listed above |
| `migration` | 2 users, 2 merchants, 2 transactions, amounts 0 and 1, balances to 1 (59 thousand) | every property of the chain of revisions listed above |
| `risk` | 1 user, 1 merchant, 2 workers, amounts 2,499.99 and 20,000.00, commits of 1 and of 20, up to a year (149 thousand) | reasons of a block, bursts noticed, waiting, stored scores |
| `analytics` | 3 transactions of 1 or 2 cents, times 0 to 2, a `Precision` of 32 (8 thousand) | reports agree, add up and become final |
| `console` | 2 requests, 3 people, restarts that lose the key (131 thousand) | one person per session, true messages, one attempt per refused password |
| `lost_update`, `lock_cycle`, `duplicate` | the smallest instance that shows it | the disagreements below |

The amounts are chosen so that the interesting cases happen: 6 out of 10 leaves
too little for a second transfer of 6, a credit of 5 makes a second one possible
again, and `MaxBalance` 12 or 15 is exceeded by a credit. Two accounts give
both lock orders, and the third of `services` a merchant. Two workers and two handlers
give every kind of pairwise race and waiting cycle. `MaxAttempts` is 2, so that there is
a retry and an exhausted job (the code's default is 3). No state constraint is used: requests are served once, attempts
are bounded, and so are the timestamps.

Around the core: with a limit and a window of 2 a burst of twice the limit fits into
the clock, and a counter of 3 is a refusal; larger values repeat this. Three
processes are two that race and a third that comes late. Two users, merchants and
transactions give a second account, an unpaid merchant, and transfers of all four
types. The amounts of `risk` are just below the 2,500.00 a block needs and above the
10,000.00 where the weight ends; its commits reach the 20 where activity ends, its
times the hour, the 30 days and the year, and a commit comes an hour after its
transfer was made. Two workers that score two transfers once or twice are enough for
one to miss the other. The times of `analytics` give
every range with a transaction at each of its ends. With a `Precision` of 32 three
transactions are exact up to a sum of 3 cents and wrong from 4 on, so both sides of
`Exact` are reached, and the properties fail without it. The proofs remove the bounds for
the properties they cover.

`CHECK_DEADLOCK FALSE` is set because the system may really stop: the handlers
of an instance have answered and the workers poll an empty queue, which changes
nothing; the limiter's clock and counters are at their bounds; every process has answered; the
transactions of an instance are used up. The console never stops. Handlers, tellers and workers are each interchangeable, so the safety
runs of the core use symmetry; the runs that check liveness do not.

## Fairness

`FairSpec` assumes that the server goes on with a request it has accepted, that a
worker's endless loop runs and its container is restarted (`restart:
unless-stopped` in `docker-compose.yml`), that PostgreSQL queues the waiters of a
row, that it breaks every deadlock, and that time passes. Strong fairness stands
for the queue: a waiter for which the lock is free again and again gets it. It is
stated for the whole of a process's next step and not for each outcome, so no
decision of the engine, no successful scoring and no particular victim is
assumed. A request need not be sent, and nothing has to be killed.
`EveryJobFinishes` holds only while no settlement overflows (5 below is the other case).

`LoginRateLimiter` assumes that time passes, and not that anyone stops trying.
`Identity` assumes that the server goes on with a request and that the operator answers
the prompt; nobody has to call, log in or be killed. `Console`, `RiskEngine`,
`TransferMigration` and `TransactionAnalytics` state safety only.

## What the checks show of the code

Three runs end in a violation of what the repository says:

1. **Lost update** (`lost_update`). `process_next_risk_job` loads both accounts
   without a lock (lines 177-185), scores, and locks them at 265. The locked SELECT
   does not refresh the objects, so 272 and 279 add to the old balance.
   A balance change committed meanwhile is overwritten.
   `OnlyStaleSettlesLeaveLedger` shows this to be the only step that goes wrong.
2. **Deadlock with a settlement** (`lock_cycle`). The comment at lines 76-77 holds
   among workers (`WorkersNeverDeadlock`) but not between a worker and a transfer,
   whose second lock is the foreign key's.
3. **Duplicate refused** (`duplicate`). The balance check at line 212 precedes the
   second lookup at 222: a concurrent copy of a request may be answered 409.

Read on the way; the models contain what reaches their state, and no run is about it:

4. Reservations that stay. The comment at `risk_worker.py:286-287` says "Funds remain
   reserved until a manual review workflow explicitly resolves the transaction." No code
   resolves one, nor one whose job failed for good (line 241).
5. A settlement whose credit exceeds `Numeric(18, 2)` raises outside the `try` of line 229,
   ends the worker, does not count as an attempt, and its job is first in the queue again
   after the restart (`Architecture.md:372`: "failure ----> persist failed state/error").
6. `Architecture.md:197` says "5 requests per 60 seconds per client host." The script
   sets the expiry only when it creates the key, so up to ten fit into 60 seconds across an
   expiry. `BurstBounded` shows that it is never more.
7. Of two registrations of one email that pass the lookup (`auth.py:35`) together the
   loser's unique violation at 53 is not caught: 500 and not 409. The rows are right
   (`EmailsAreUnique`). A 500 may also follow the commit, when `db.refresh` fails
   (`auth.py:65`, `manager.py:85`, `176`): then the rows are stored, both of them.
8. The schema admits names of 255 characters (`schemas/auth.py:5`), the column 100: 500.
9. The downgrade of `60c606468c13` runs the upgrade's UPDATE (lines 369-383), which joins
   on columns it has just added as NULL. It restores nothing and is refused as soon as there
   is one transaction. `MoneyIsKept` and `TransfersMapped` show that nothing is lost by that.
10. `ck_accounts_single_owner` (`entities.py:142-149`) is created by no migration, and
   `alembic check`, which `Architecture.md:530` relies on, does not compare check constraints.
11. The decision is taken before the rounding: 69.996 is stored as 70.00 with REVIEW, where
   `README.md:59` has "score >= 70   -> BLOCK". `StoredScoreFitsDecision` shows that the
   thresholds are the only place.
12. A response that was on its way when the user signed out (`frontend/app.py:322`), and
   changed the session, sets the old cookie again, with its token.
13. The transaction form sends `merchant_id` (`frontend/app.py:401-421`), the field of the
   payment model that the migration replaced; the endpoint requires `receiver_account_id`,
   so every submission is answered 422 and there is never a request to replay.
14. `README.md:229` gives a revision as `alembic current` that is three behind the head; the
   dashboard's script fetches `/dashboard/refresh` with GET and the route takes POST
   (`static/js/app.js`, `app.py:347`); a registration that timed out is reported as failed
   although the account may exist, which the next attempt then says; the cash endpoint strips
   an idempotency key and the transfer endpoint does not.
15. Totals are float64 although every amount is a Decimal (`transaction_analytics.py:55-62`):
   9007199254740993.00 and 1.00, which fit `Numeric(18, 2)`, do not add up over two ranges.
16. `api_client.py:81` tries any 422 as a form, which the endpoint does not take: a login
   with a password over 128 characters (`schemas/auth.py:12`) costs two attempts.

## What is proved

All theorems hold for any number of accounts, keys, requests and processes and
any bounds, from the named assumptions of `Store`: the three kinds of process are
disjoint, initial balances fit the column, `MaxAttempts` is positive, requests
have a key, a positive amount and a known kind, and `NoRow` is not a row.

* `TransactionPlatformProofs`, sessions and rows: the invariant `Inv` is `TypeOK`, `SessionsConsistent`,
  `ClaimsAreExclusive` and `RowsAgree`. The last two are not inductive alone:
  that a committed balance is never negative depends on the balance check made
  when the session loaded the row (`HandlerInv`: from `insert` on the transfer is
  `Affordable`); that an inserted row overwrites none depends on the index wait
  (`FreeKey`); that a settlement starts from a number depends on the loads having
  happened (`WorkerInv`). There is one lemma per action. `TypeCorrect`,
  `RowsAlwaysAgree`, `SessionsStayConsistent` and `ClaimsStayExclusive` follow. Its
  second part, on requests: no step changes a committed request, the two commits find
  no row under their key, and a worker changes only rows of a job that is PENDING. From
  this `ExactlyOnceHolds` and `DecisionsAreFinal`.
* `TransactionPlatformProofs`, locking: each step is made by one process that keeps a discipline (it
  gains a lock only when no conflicting one is held, writes only balances it has
  locked, and in the services holds the committed balance of what it locks), and the
  discipline preserves `LocksExclude` and `LockedReadIsFresh`. `CashAuditIsTrue` is the
  action property that follows. `WorkersStayFree`: a worker that waits and blocks another
  worker holds a lower account than it wants, so along a chain of waiting workers the
  accounts wanted rise; the accounts are finitely many, the sets of accounts above
  shrink, and no chain is a cycle.
* `TransactionPlatformProofs`, the refinement: `StateOf` maps a transaction and its job to the
  state of a transfer; `CommitTransfer` maps to `Reserve`, `CommitCash` to `Operate`
  (both because their balance is fresh), `Settle` to `Complete` or `Refund` unless
  its balance is stale, `HoldForReview` and the last failed attempt to `Keep`, and
  everything else to no step. `OnlyStaleSettles` holds for the whole platform,
  `ServicesAreLedger` when there are no workers.
* `TransactionPlatformProofs`, money: an account's rows explain a balance up to a
  difference (`Gap`), and every step of the ledger changes the balance by what it adds to
  the sum over the account's rows. A reservation and a cash operation add one row each,
  the end of a transfer changes one; what a row has moved is a function of the request
  and the state the refinement gives it (`MovedBy`), so five lemmas, one per ledger
  step, serve all actions of the platform. `LedgerExplainsBalance` is not inductive
  alone: the sums mean something only while there are finitely many rows
  (`FinitelyMany`, itself an invariant, for clients may choose among infinitely many
  keys), and a stale settlement, which `OnlyStaleSettles` isolates, breaks it: the run
  `lost_update` shows one. So `OnlyStaleSettlesUnbalance` says of the whole platform that
  no other step does, `FreshSettlementsBalance` that the balances are explained in every
  behaviour without one, and `ServicesExplainBalance` that they always are when there is
  no worker. `FreshSettlementsConserve` and `ServicesConserveMoney` say of `MoneyConserved`
  what the last two say of `LedgerExplainsBalance`, with the sum of all balances in the place of one.
* `Sums`: `SumFunction` of the community modules is defined by a recursive function that takes
  one element after the other. That its equation has a solution (`SumsExist`), that its
  value does not depend on the set it was defined over (`SumsAgree`) nor on the order
  (`SumWithout`), and what one more or one changed element does, are proved by taking a
  smallest set for which the claim is false: the order of the subsets of a finite set is
  well-founded, and a set that is smaller by one element gives the contradiction.
* `AnalyticsProofs`: the rows are typed, finitely many, told apart by their keys, and their
  status is what their decision makes it (`Inv`). Then the rows of a status are those of the
  decisions that lead to it, which are disjoint (`ReportsAlwaysAgree`). Of the floats,
  `CentsAreNearest` says that an error below half a cent leaves the nearest cents only, from
  which `TotalIsExact` and `AverageIsNearest`; `PartsAreExact`, that a part of transactions
  that are exact is exact. Adjoining ranges split the rows of the whole
  (`RangesAlwaysAddUp`); and a decision replaces a row by one with its amount and time, which
  is not in the table already because its key is unique (`ClosedPeriodsStay`).
* `RateLimiterProofs`: behind the count an attempt was given stand that many attempts of
  its key, made before it (`Counted`). This holds whatever Redis loses, and gives
  `RefusalIsDeserved` and `WaitSuffices`. `BurstsAreBounded` also needs that two keys of one
  host are more than a window apart (`Spaced`) and that a count is given once for a key
  (`Numbered`), both true of a host whose key Redis has not lost; then a span meets at most two keys.
* `IdentityProofs`: `EmailsAreUnique` is not inductive alone: a process that has inserted must
  find no committed row with its email and no other that has inserted it, which the
  index wait and its failure give. The same invariant carries who called a manager
  endpoint, and what a process that has not answered yet may have stored. `AnswersStayTrue`
  says of a 500 that the row is there as asked for with its account, or not at all.
* `MigrationProofs`: for any number of users, merchants and transactions. Besides the
  properties the invariant says of a merchant's account that whatever is in it came from
  cash or from a transfer to it (`Explained`). This is why a downgrade that deletes the
  accounts of merchants, and is refused for cash and for restored transactions without
  a merchant, deletes no money.
* `RiskEngineProofs`: the score is bounded, and linear arithmetic over its four parts gives
  `BlocksHaveReasons`, `LargeOnesAreHeld` and `StoredScoresFit`; that `Others` only loses
  transfers as time passes gives `WaitingIsSafe`; and of two results the later one was made with the other's
  transfer committed, which gives `NoBurstSlipsPast`.
* `ConsoleProofs`: every session there is, in the cookie, with a request or on its way back,
  is good by itself (one person, true messages), and stays so when more emails are
  registered; so it does not matter which the browser keeps. `RefusalsCostOne` rests on
  the fallback being reached only after a 422.

Besides `Store`'s, the assumptions are those named in the modules: the constants are
numbers of their range, users and merchants are different, `Normal` is idempotent,
NULL is none of the values.

Proved and not run: `SessionsConsistent`, `MoneyConserved`, `LargeTransfersAreHeld`, and the type
invariants of `Identity`, `TransferMigration`, `Console`, `LoginRateLimiter` and the
reports. No run checks them, because the theorems hold for every instance.

Only model-checked: the liveness properties `EveryRequestAnswered`, `EveryJobFinishes`,
`BlockEnds` and `EveryProcessAnswers` (fairness and ENABLED are out of the prover's reach).
Every other property of a passing run is stated by a theorem.

## Not modelled

* `version` and `updated_at` of accounts are written and never read.
* The order in which PostgreSQL serves the waiters of one row; any of them may get it.
* Ties of `available_at`, broken by `created_at`: each timestamp taken is distinct.
* `PROCESSING` is never committed: it is set and replaced in one transaction.
* A `LookupError` of the worker: accounts and owners are never deleted.
* Read-only endpoints (`GET /account/me`, the manager's listings, `know_manager_id`), the
  metrics middleware, configuration: no state that another part reads.
* Hashing and JWT signatures: a password and a token are what they stand for.
* Rows without a status in the reports, which the table does not allow.
* The console's checks of empty form fields, its metrics queries and page script; several
  console processes with different keys (the repository starts one).
* A migration beside a running writer, and Alembic's own bookkeeping beyond `rev`.
* The response bodies. `manager_create_merchant` answers with the merchant and its account,
  which the request itself has created.
* Test code and the load generator.

## What is left

The parts are complete as far as they have state. What could be added is composition, for
instance the console with the transfer service once its form is valid and a timed-out
request can be sent twice.
