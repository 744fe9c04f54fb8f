-------------------------- MODULE TransferMigration --------------------------
(***************************************************************************)
(* The chain of Alembic revisions, 3eea4bdb0a8a (1) to e69f7e117ac8 (8),   *)
(* over the tables they keep, with the rows that the application of each   *)
(* revision may have left in them.  Revision 7, 60c606468c13, turns        *)
(* payments of a user to a merchant into transfers between accounts, and   *)
(* its downgrade turns them back or refuses.  A migration is one database  *)
(* transaction (migrations/env.py): a refused one changes nothing, so only *)
(* the ones that go through are steps.  `alembic upgrade head` makes       *)
(* several of these steps, or none of them.  The schema is the set of the  *)
(* names the migrations create; the columns created with a table and never *)
(* dropped by name are in the table's.                                     *)
(***************************************************************************)
EXTENDS Integers

CONSTANTS
  Users, Merchants,
  Keys,        \* what identifies a transaction
  Amounts,     \* the amounts of transactions and cash operations
  MaxBalance,  \* bound of the model on a balance that cash may bring about
  None         \* NULL, and a column that does not exist

ASSUME MigrationAssumption ==
  /\ Amounts \subseteq Nat /\ MaxBalance \in Nat
  /\ Users \cap Merchants = {}
  /\ None \notin Users \cup Merchants \cup (Users \cup Merchants) \X {1, 2}
  /\ None # "P2M"

Head == 8

VARIABLES
  rev,         \* the revision in alembic_version
  schema,      \* the names of tables, columns, constraints and indexes
  users, merchants,
  accounts,    \* [id, user, merchant, balance]
  txns,        \* [key, user, merchant, type, sender, receiver, amount]
  jobs,        \* the transactions that have a pending risk job
  cash,        \* the accounts with a cash operation: one each, a bound
  origin       \* history: whom a legacy payment was from and to

rows == <<users, merchants, accounts, txns, jobs, cash>>
vars == <<rev, schema, rows, origin>>

\* The two accounts a user may have before revision 2; a merchant's is its first.
AccountId(owner, n) == <<owner, n>>

Init ==
  /\ rev = 0 /\ schema = {}
  /\ users = {} /\ merchants = {} /\ accounts = {} /\ txns = {} /\ jobs = {} /\ cash = {}
  /\ origin = [k \in Keys |-> None]

-----------------------------------------------------------------------------
(* What each upgrade() and each downgrade() does to the schema. *)

InitialNames ==
  {"merchants", "ix_merchants_email", "users", "ix_users_email",
   "accounts", "accounts.user_id not null", "ix_accounts_user_id",
   "transactions", "transactions.user_id", "transactions.merchant_id",
   "transactions_user_id_fkey", "transactions_merchant_id_fkey",
   "ix_transactions_idempotency_key", "ix_transactions_merchant_id",
   "ix_transactions_status", "ix_transactions_user_id"}

StrongNames ==
  {"accounts.version", "accounts.updated_at", "unique ix_accounts_user_id",
   "ck_accounts_balance_non_negative", "ck_transactions_amount_positive"}

RiskNames ==
  {"risk_jobs", "ix_risk_jobs_available_at", "ix_risk_jobs_status",
   "ix_risk_jobs_transaction_id", "transactions.risk_score",
   "transactions.risk_decision", "transactions.risk_processed_at",
   "ck_transactions_risk_score_range"}

CashNames ==
  {"cash_operations", "ix_cash_operations_account_id",
   "ix_cash_operations_manager_id", "ix_cash_operations_operation_type"}

LegacyNames ==
  {"accounts.user_id not null", "transactions.user_id", "transactions.merchant_id",
   "transactions_user_id_fkey", "transactions_merchant_id_fkey",
   "ix_transactions_user_id", "ix_transactions_merchant_id"}

TransferNames ==
  {"accounts.merchant_id", "accounts_merchant_id_fkey", "ix_accounts_merchant_id",
   "transactions.transaction_type", "transactions.sender_account_id",
   "transactions.receiver_account_id", "transactions_sender_account_id_fkey",
   "transactions_receiver_account_id_fkey", "ix_transactions_transaction_type",
   "ix_transactions_sender_account_id", "ix_transactions_receiver_account_id",
   "ck_transactions_type", "ck_transactions_distinct_accounts"}

Change(adds, drops) == [adds |-> adds, drops |-> drops]

UpgradeTo ==
  << Change(InitialNames, {}),
     Change(StrongNames, {"ix_accounts_user_id"}),
     Change({"users.password_hash", "users.role"}, {}),
     Change(RiskNames, {}),
     Change({}, {"ix_transactions_idempotency_key"}),
     Change(CashNames, {}),
     Change(TransferNames, LegacyNames),
     Change({"ix_transactions_created_at"}, {}) >>

\* Mutant: the downgrade of revision 7 leaves an index behind.
DowngradeForgetsIndex ==
  << Change({}, InitialNames),
     Change({"ix_accounts_user_id"}, StrongNames),
     Change({}, {"users.password_hash", "users.role"}),
     Change({}, RiskNames),
     Change({"ix_transactions_idempotency_key"}, {}),
     Change({}, CashNames),
     Change(LegacyNames, TransferNames \ {"ix_accounts_merchant_id"}),
     Change({}, {"ix_transactions_created_at"}) >>

DowngradeFrom ==
  << Change({}, InitialNames),
     Change({"ix_accounts_user_id"}, StrongNames),
     Change({}, {"users.password_hash", "users.role"}),
     Change({}, RiskNames),
     Change({"ix_transactions_idempotency_key"}, {}),
     Change({}, CashNames),
     Change(LegacyNames, TransferNames),
     Change({}, {"ix_transactions_created_at"}) >>

\* A name can be created once and dropped while it exists.
Possible(c) == c.drops \subseteq schema /\ c.adds \cap schema = {}

After(s, c) == (s \ c.drops) \cup c.adds

Apply(c) == schema' = After(schema, c)

-----------------------------------------------------------------------------
(* Revision 7. *)

\* Mutant: an account for the merchants that have been paid only.
MerchantAccountsOfPaid ==
  {[id |-> AccountId(m, 1), user |-> None, merchant |-> m, balance |-> 0] :
     m \in {t.merchant : t \in txns}}

\* One account for every merchant, with nothing in it.
MerchantAccounts ==
  {[id |-> AccountId(m, 1), user |-> None, merchant |-> m, balance |-> 0] : m \in merchants}

\* Mutant: the two ends of a payment exchanged.
BackfillSwapped(t, accts) ==
  LET senders == {a \in accts : t.merchant # None /\ a.merchant = t.merchant}
      receivers == {a \in accts : t.user # None /\ a.user = t.user}
  IN  IF senders = {} \/ receivers = {} THEN t
      ELSE [t EXCEPT !.type = "P2M", !.sender = (CHOOSE a \in senders : TRUE).id,
                     !.receiver = (CHOOSE a \in receivers : TRUE).id]

\* The UPDATE of both directions: it reads user_id and merchant_id and writes
\* the account columns, and leaves a row it cannot join as it is.
Backfill(t, accts) ==
  LET senders == {a \in accts : t.user # None /\ a.user = t.user}
      receivers == {a \in accts : t.merchant # None /\ a.merchant = t.merchant}
  IN  IF senders = {} \/ receivers = {} THEN t
      ELSE [t EXCEPT !.type = "P2M", !.sender = (CHOOSE a \in senders : TRUE).id,
                     !.receiver = (CHOOSE a \in receivers : TRUE).id]

AllAccounts == accounts \cup MerchantAccounts

\* Mutant: the backfill before the merchants' accounts.
BackfilledTooEarly == {Backfill(t, accounts) : t \in txns}

Backfilled == {Backfill(t, AllAccounts) : t \in txns}

\* The verification of the backfill, and the constraints that follow it.
TransfersComplete ==
  \A t \in Backfilled :
    /\ t.sender # None /\ t.receiver # None /\ t.type # None
    /\ \E a, b \in AllAccounts : a.id = t.sender /\ b.id = t.receiver
    /\ t.sender # t.receiver

\* The downgrade restores the legacy columns as NULL, runs the UPDATE, and
\* wants every row to have got its legacy columns back.
Restored ==
  {Backfill([t EXCEPT !.user = None, !.merchant = None], accounts) : t \in txns}

MerchantCash == {a \in accounts : a.merchant # None /\ a.id \in cash}

PaymentsPossible ==
  /\ \A t \in txns : t.type = "P2M"
  /\ \A t \in Restored : t.user # None /\ t.merchant # None
  /\ MerchantCash = {}

-----------------------------------------------------------------------------
(* The steps. *)

\* What the data must be like for the migration to revision r to go through.
UpgradeOk(r) ==
  /\ Possible(UpgradeTo[r])
  /\ r = 2 => /\ \A a, b \in accounts : a.user = b.user => a = b
              /\ \A a \in accounts : a.balance >= 0
              /\ \A t \in txns : t.amount > 0
  /\ r = 7 => TransfersComplete

Upgrade ==
  /\ rev < Head
  /\ UpgradeOk(rev + 1)
  /\ rev' = rev + 1
  /\ Apply(UpgradeTo[rev + 1])
  /\ IF rev + 1 = 7
     THEN /\ accounts' = AllAccounts
          /\ txns' = {[t EXCEPT !.user = None, !.merchant = None] : t \in Backfilled}
     ELSE UNCHANGED <<accounts, txns>>
  /\ UNCHANGED <<users, merchants, jobs, cash, origin>>

\* Mutant: the cash operations of merchants are not looked for.
DowngradeOkUnchecked(r) ==
  /\ Possible(DowngradeFrom[r])
  /\ r = 7 => \A t \in txns : t.type = "P2M"

DowngradeOk(r) ==
  /\ Possible(DowngradeFrom[r])
  /\ r = 7 => PaymentsPossible

Downgrade ==
  /\ rev > 0
  /\ DowngradeOk(rev)
  /\ rev' = rev - 1
  /\ Apply(DowngradeFrom[rev])
  /\ users' = IF rev = 1 THEN {} ELSE users
  /\ merchants' = IF rev = 1 THEN {} ELSE merchants
  /\ accounts' = IF rev = 1 THEN {}
                 ELSE IF rev = 7 THEN {a \in accounts : a.merchant = None} ELSE accounts
  /\ txns' = IF rev = 1 THEN {}
             ELSE IF rev = 7 THEN {[t EXCEPT !.type = None, !.sender = None,
                                             !.receiver = None] : t \in Restored}
             ELSE txns
  /\ jobs' = IF rev = 4 THEN {} ELSE jobs
  /\ cash' = IF rev = 6 THEN {} ELSE cash
  /\ origin' = IF rev = 1 THEN [k \in Keys |-> None] ELSE origin

\* An application writes rows.
Write == UNCHANGED <<rev, schema>>

Account(owner, n, user, merchant) ==
  [id |-> AccountId(owner, n), user |-> user, merchant |-> merchant, balance |-> 0]

\* A user with its account; a legacy user may have none.
AddUser(u) ==
  /\ rev > 0 /\ u \notin users
  /\ users' = users \cup {u}
  /\ \/ accounts' = accounts \cup {Account(u, 1, u, None)}
     \/ rev < 7 /\ UNCHANGED accounts
  /\ UNCHANGED <<merchants, txns, jobs, cash, origin>> /\ Write

\* Before revision 2 nothing keeps a user from a second account.
OpenSecondAccount(u) ==
  /\ rev = 1 /\ u \in users
  /\ \A a \in accounts : a.id # AccountId(u, 2)
  /\ accounts' = accounts \cup {Account(u, 2, u, None)}
  /\ UNCHANGED <<users, merchants, txns, jobs, cash, origin>> /\ Write

AddMerchant(m) ==
  /\ rev > 0 /\ m \notin merchants
  /\ merchants' = merchants \cup {m}
  /\ accounts' = IF rev < 7 THEN accounts ELSE accounts \cup {Account(m, 1, None, m)}
  /\ UNCHANGED <<users, txns, jobs, cash, origin>> /\ Write

\* A payment of the legacy model; it wrote no balance that the migrations read.
Pay(k, u, m, n) ==
  /\ rev \in 1 .. 6 /\ u \in users /\ m \in merchants
  /\ \A t \in txns : t.key # k
  /\ rev > 1 => n > 0
  /\ txns' = txns \cup {[key |-> k, user |-> u, merchant |-> m, type |-> None,
                         sender |-> None, receiver |-> None, amount |-> n]}
  /\ jobs' = IF rev < 4 THEN jobs ELSE jobs \cup {k}
  /\ origin' = [origin EXCEPT ![k] = [user |-> u, merchant |-> m]]
  /\ UNCHANGED <<users, merchants, accounts, cash>> /\ Write

Credit(a, n) ==
  {IF b.id = a THEN [b EXCEPT !.balance = @ + n] ELSE b : b \in accounts}

\* A transfer between any two accounts, reserved at the sender.
Transfer(k, a, b, n) ==
  /\ rev >= 7 /\ a # b /\ n \in 1 .. a.balance
  /\ \A t \in txns : t.key # k
  /\ txns' = txns \cup
       {[key |-> k, user |-> None, merchant |-> None,
         type |-> IF a.user # None THEN IF b.user # None THEN "P2P" ELSE "P2M"
                  ELSE IF b.user # None THEN "M2P" ELSE "M2M",
         sender |-> a.id, receiver |-> b.id, amount |-> n]}
  /\ accounts' = Credit(a.id, -n)
  /\ jobs' = jobs \cup {k}
  /\ UNCHANGED <<users, merchants, cash, origin>> /\ Write

Settle(t) ==
  /\ rev >= 7 /\ t.key \in jobs
  /\ accounts' = Credit(t.receiver, t.amount)
  /\ jobs' = jobs \ {t.key}
  /\ UNCHANGED <<users, merchants, txns, cash, origin>> /\ Write

CashCredit(a, n) ==
  /\ rev >= 6 /\ a.id \notin cash /\ n > 0 /\ a.balance + n <= MaxBalance
  /\ accounts' = Credit(a.id, n)
  /\ cash' = cash \cup {a.id}
  /\ UNCHANGED <<users, merchants, txns, jobs, origin>> /\ Write

Next ==
  \/ Upgrade \/ Downgrade
  \/ \E u \in Users : AddUser(u) \/ OpenSecondAccount(u)
  \/ \E m \in Merchants : AddMerchant(m)
  \/ \E k \in Keys, n \in Amounts :
       \/ \E u \in Users, m \in Merchants : Pay(k, u, m, n)
       \/ \E a, b \in accounts : Transfer(k, a, b, n)
  \/ \E t \in txns : Settle(t)
  \/ \E a \in accounts, n \in Amounts : CashCredit(a, n)

Spec == Init /\ [][Next]_vars

-----------------------------------------------------------------------------
AccountIds == (Users \cup Merchants) \X {1, 2}

TypeOK ==
  /\ rev \in 0 .. Head
  /\ users \subseteq Users /\ merchants \subseteq Merchants
  /\ accounts \subseteq [id : AccountIds, user : Users \cup {None},
                        merchant : Merchants \cup {None}, balance : Nat]
  /\ txns \subseteq [key : Keys, user : Users \cup {None}, merchant : Merchants \cup {None},
                    type : {"P2P", "P2M", "M2P", "M2M", None}, sender : AccountIds \cup {None},
                    receiver : AccountIds \cup {None}, amount : Amounts]
  /\ jobs \subseteq Keys /\ cash \subseteq AccountIds

\* What the migrations up to a revision make of an empty database.
Schema1 == After({}, UpgradeTo[1])
Schema2 == After(Schema1, UpgradeTo[2])
Schema3 == After(Schema2, UpgradeTo[3])
Schema4 == After(Schema3, UpgradeTo[4])
Schema5 == After(Schema4, UpgradeTo[5])
Schema6 == After(Schema5, UpgradeTo[6])
Schema7 == After(Schema6, UpgradeTo[7])
Schema8 == After(Schema7, UpgradeTo[8])

SchemaOf(r) ==
  IF r = 0 THEN {}
  ELSE <<Schema1, Schema2, Schema3, Schema4, Schema5, Schema6, Schema7, Schema8>>[r]

\* Whatever way up and down led to a revision, its schema is the same: each
\* downgrade takes back what its upgrade did (migrations/versions).
SchemaFollowsRevision == schema = SchemaOf(rev)

\* An account has one owner, which exists; a user has at most one account from
\* revision 2 on, and a merchant exactly one from revision 7 on, however often
\* it was reached (60c606468c13, lines 22-102 and 535-542).
OneAccountEach ==
  /\ \A a \in accounts :
       \/ a.user \in users /\ a.merchant = None
       \/ a.user = None /\ a.merchant \in merchants /\ rev >= 7
  /\ rev >= 2 => \A a, b \in accounts : a.user # None /\ a.user = b.user => a = b
  /\ rev >= 7 => \A m \in merchants : \E a \in accounts :
       \A b \in accounts : b.merchant = m <=> b = a

TypeFits(t, a, b) ==
  t.type = IF a.user # None THEN IF b.user # None THEN "P2P" ELSE "P2M"
           ELSE IF b.user # None THEN "M2P" ELSE "M2M"

\* Every transaction names whom it is from and to in the model of the revision:
\* a payment still its user and merchant after the backfill, through their
\* accounts; a transfer two accounts that its type fits (60c606468c13,
\* lines 147-213).
TransfersMapped ==
  \A t \in txns :
    IF rev < 7 THEN origin[t.key] = [user |-> t.user, merchant |-> t.merchant]
    ELSE \E a, b \in accounts :
           /\ a.id = t.sender /\ b.id = t.receiver /\ a # b /\ TypeFits(t, a, b)
           /\ origin[t.key] # None =>
                origin[t.key] = [user |-> a.user, merchant |-> b.merchant]

\* A migration makes no money and destroys none, and loses no transaction:
\* the accounts it adds or removes are empty, the others stay as they are
\* (60c606468c13, lines 52-56 and 503-542).
KeepsMoney ==
  rev' \notin {0, rev} =>
    /\ \A a \in accounts \ accounts' : a.balance = 0 /\ a.merchant # None
    /\ \A a \in accounts' \ accounts : a.balance = 0 /\ a.merchant # None
    /\ {<<t.key, t.amount>> : t \in txns} = {<<t.key, t.amount>> : t \in txns'}
MoneyIsKept == [][KeepsMoney]_vars

\* What the data of a revision must be like for the way to the head.
Clean ==
  /\ \A a, b \in accounts : a.user = b.user /\ a.user # None => a = b
  /\ \A t \in txns : t.amount > 0
  /\ \A t \in txns : t.user = None \/ \E a \in accounts : a.user = t.user

\* `alembic upgrade head` stops at no revision when every user has one account
\* or no payment: the backfill is complete and meets the constraints that
\* follow it (60c606468c13, lines 163-295; Dockerfile:13).
UpgradeGoesThrough == Clean /\ rev < Head => UpgradeOk(rev + 1)
==============================================================================
