-------------------------- MODULE TransactionPlatform --------------------------
(***************************************************************************)
(* The transaction platform: transfer requests, cash operations and risk   *)
(* workers running against one database, with killed processes, deadlock   *)
(* victims and restarts.                                                   *)
(***************************************************************************)
EXTENDS TransferService, CashService, RiskWorker, Functions

Init == StoreInit

Next ==
  \/ \E h \in Handlers : HandlerStep(h)
  \/ \E c \in Tellers : TellerStep(c)
  \/ \E w \in Workers : WorkerStep(w)
  \/ \E k \in Keys : BecomeDue(k)
  \/ \E p \in Procs : Kill(p)
  \/ \E p \in Procs : DeadlockVictim(p)

Spec == Init /\ [][Next]_vars

(***************************************************************************)
(* Fairness.  The server runs every request it has accepted, run_worker is *)
(* an endless loop in a container that is restarted, PostgreSQL queues the *)
(* waiters of a row (a free lock is not refused for ever: strong fairness) *)
(* and breaks every deadlock, and time passes.  A client need not send a   *)
(* request, a process need not be killed.                                  *)
(***************************************************************************)
Fairness ==
  /\ \A h \in Handlers : SF_vars(pc[h] # "new" /\ HandlerStep(h))
  /\ \A c \in Tellers : SF_vars(pc[c] # "new" /\ TellerStep(c))
  /\ \A w \in Workers : SF_vars(WorkerStep(w))
  /\ \A k \in Keys : WF_vars(BecomeDue(k))
  /\ WF_vars(\E p \in Procs : DeadlockVictim(p))

FairSpec == Spec /\ Fairness

(***************************************************************************)
(* Type correctness.                                                       *)
(***************************************************************************)
HandlerLabels == {"new", "lockSender", "validate", "insert",
                  "reference", "commit"} \cup Answers
TellerLabels == {"new", "lockAccount", "apply"} \cup Answers
WorkerLabels == {"idle", "load", "score", "lockFirst",
                 "lockSecond", "settle", "down"}

TablesOK ==
  /\ balance \in [Accounts -> Balances]
  /\ txn \in [Keys -> TxnRows \cup {NoRow}]
  /\ job \in [Keys -> JobRows \cup {NoRow}]
  /\ cash \in [CashKeys -> CashRows \cup {NoRow}]
  /\ clock \in Nat

LabelsOK ==
  /\ pc \in [Procs -> HandlerLabels \cup TellerLabels \cup WorkerLabels]
  /\ \A h \in Handlers : pc[h] \in HandlerLabels
  /\ \A c \in Tellers : pc[c] \in TellerLabels
  /\ \A w \in Workers : pc[w] \in WorkerLabels

SessionsOK ==
  /\ request \in [Procs -> Requests \cup CashRequests \cup {NoRow}]
  /\ loaded \in [Procs -> [Accounts -> Balances \cup {Unloaded}]]
  /\ claim \in [Procs -> Keys \cup {NoRow}]
  /\ verdict \in [Procs -> {"ALLOW", "BLOCK", "NONE"}]
  /\ stamp \in [Procs -> Nat]

\* Every table and session variable holds a value the columns, the CHECK
\* constraints and the code's labels allow (entities.py).
TypeOK == TablesOK /\ LabelsOK /\ SessionsOK

(***************************************************************************)
(* Locking and freshness.                                                  *)
(***************************************************************************)
\* No two processes hold FOR UPDATE on one account, and none holds it while
\* another holds FOR KEY SHARE.
LocksExclude ==
  \A p, q \in Procs, a \in Accounts :
    p # q /\ HoldsUpdate(p, a) => ~HoldsUpdate(q, a) /\ ~HoldsKeyShare(q, a)

\* A handler past its lock, and a teller past its lock, decide and write
\* from the committed balance: the SELECT ... FOR UPDATE of
\* transaction_service.py:154-165 and cash_service.py:46-51 is their first
\* load of the row, and nobody changes the row while they hold it.
LockedReadIsFresh ==
  \A p \in Handlers \cup Tellers, a \in Accounts :
    HoldsUpdate(p, a) => loaded[p][a] = balance[a]

\* FOR UPDATE SKIP LOCKED: two workers never hold one job, a held job is
\* still PENDING, and so is its transaction.
ClaimsAreExclusive ==
  /\ \A v, w \in Workers : v # w /\ claim[v] = claim[w] => claim[v] = NoRow
  /\ \A w \in Workers : claim[w] # NoRow =>
       /\ txn[claim[w]] # NoRow /\ job[claim[w]] # NoRow
       /\ job[claim[w]].status = "PENDING"
       /\ txn[claim[w]].decision = "NONE"

\* _lock_transfer_accounts: whatever the workers lock, they never form a
\* cycle among themselves.
WorkersNeverDeadlock == \A S \in SUBSET Workers : ~AllBlocked(S)

(***************************************************************************)
(* What the rows say together.                                             *)
(***************************************************************************)
\* A request answered 201 has its transaction in the table for good, equal
\* to the request, and one request at most per key was the one that created
\* it; cash operations alike.  Retries, duplicates and lost answers of the
\* same key never make a second one (Architecture.md, section 8).
ExactlyOnce ==
  /\ \A h \in Handlers : pc[h] \in {"created", "replayed"} =>
       /\ txn[request[h].key] # NoRow
       /\ Matches(txn[request[h].key], request[h])
  /\ \A c \in Tellers : pc[c] \in {"created", "replayed"} =>
       /\ cash[request[c].key] # NoRow
       /\ cash[request[c].key].req = request[c]
  /\ \A g, h \in Handlers :
       g # h /\ pc[g] = "created" /\ pc[h] = "created" =>
         request[g].key # request[h].key
  /\ \A b, c \in Tellers :
       b # c /\ pc[b] = "created" /\ pc[c] = "created" =>
         request[b].key # request[c].key

\* A transaction, its decision and its job agree in every committed state:
\* an undecided one has attempts left or a FAILED job that used them all,
\* and a decided one was settled the way the decision says.
RowsAgree ==
  \A k \in Keys :
    /\ txn[k] = NoRow <=> job[k] = NoRow
    /\ txn[k] # NoRow =>
         LET t == txn[k]
             outcome == <<job[k].status, t.decision, t.status>> IN
         \/ /\ outcome = <<"PENDING", "NONE", "PENDING">>
            /\ job[k].attempts < MaxAttempts
         \/ /\ outcome = <<"FAILED", "NONE", "PENDING">>
            /\ job[k].attempts = MaxAttempts
         \/ outcome \in {<<"COMPLETED", "ALLOW", "COMPLETED">>,
                         <<"COMPLETED", "REVIEW", "PENDING">>,
                         <<"COMPLETED", "BLOCK", "FAILED">>}

\* A decision is final: once a transaction has one, or its job is over,
\* neither row changes again, whichever workers run, retry or crash.
SettledOnce ==
  [][\A k \in Keys : txn[k] # NoRow =>
       /\ txn'[k] # NoRow /\ txn'[k].req = txn[k].req
       /\ job[k].status # "PENDING" => txn'[k] = txn[k] /\ job'[k] = job[k]]_vars

(***************************************************************************)
(* Money.  What the rows of transactions and cash_operations say the       *)
(* balance of an account is: reservations and completed transfers out,     *)
(* completed transfers in, cash.                                           *)
(***************************************************************************)
TransferEntries == {k \in Keys : txn[k] # NoRow}
CashEntries == {q \in CashKeys : cash[q] # NoRow}

\* What a transfer has done to the balance of an account so far.
Moved(k, a) ==
  LET r == txn[k].req IN
  (IF r.sender = a /\ txn[k].status # "FAILED" THEN -r.amount ELSE 0)
    + (IF r.receiver = a /\ txn[k].status = "COMPLETED" THEN r.amount ELSE 0)

Operated(q, a) ==
  IF cash[q].req.account = a THEN cash[q].after - cash[q].before ELSE 0

Explained(a) ==
  InitialBalance[a]
    + SumFunction([k \in TransferEntries |-> Moved(k, a)])
    + SumFunction([q \in CashEntries |-> Operated(q, a)])

\* Every balance is what the account's rows add up to: no update of
\* accounts.balance is lost and none is made twice.
LedgerExplainsBalance == \A a \in Accounts : balance[a] = Explained(a)

\* Money moves between the accounts, a transfer that is still PENDING and the
\* cash desk: what the accounts and the reservations hold together is what
\* the accounts opened with and what cash brought.
Reserved(k) == IF txn[k].status = "PENDING" THEN txn[k].req.amount ELSE 0

NetCash(q) == cash[q].after - cash[q].before

MoneyConserved ==
  SumFunction(balance) + SumFunction([k \in TransferEntries |-> Reserved(k)])
    = SumFunction(InitialBalance) + SumFunction([q \in CashEntries |-> NetCash(q)])

\* A cash operation's balance_before and balance_after are the committed
\* balances around it, not what some other session was about to write.
CashAuditMatchesBalance ==
  [][\A q \in CashKeys : cash'[q] # cash[q] =>
       /\ cash[q] = NoRow
       /\ cash'[q].before = balance[cash'[q].req.account]
       /\ cash'[q].after = balance'[cash'[q].req.account]]_vars

(***************************************************************************)
(* Progress, under FairSpec.                                               *)
(***************************************************************************)
\* Every request is answered: the lock waits of the two services end.
EveryRequestAnswered ==
  \A p \in Handlers \cup Tellers : pc[p] # "new" ~> pc[p] \in Answers

\* Every risk job is decided or given up, through retries, deadlock aborts
\* and the other workers.
EveryJobFinishes ==
  \A k \in Keys :
    job[k] # NoRow ~> job[k] # NoRow /\ job[k].status # "PENDING"

(***************************************************************************)
(* The inductive invariant of the proofs: what a process that has reached  *)
(* a statement knows.                                                      *)
(***************************************************************************)
Locked == {"validate", "insert", "reference", "commit"}
Working == {"load", "score", "lockFirst", "lockSecond", "settle"}

\* A handler that waits for its first lock has loaded nothing; one that
\* holds it has a balance in its session, and past step 7 a sufficient one;
\* one that has inserted its key is the only one and finds no committed row.
HandlerInv ==
  \A h \in Handlers :
    /\ pc[h] \in {"new", "lockSender"} => loaded[h] = NothingLoaded
    /\ pc[h] \in {"lockSender"} \cup Locked =>
         request[h] \in Requests /\ request[h].sender \in Accounts
    /\ pc[h] \in Locked => loaded[h][request[h].sender] \in Balances
    /\ pc[h] \in {"insert", "reference", "commit"} => Affordable(h)
    /\ pc[h] \in {"reference", "commit"} =>
         /\ txn[request[h].key] = NoRow
         /\ FreeKey(h, request[h].key)

TellerInv ==
  \A c \in Tellers :
    /\ pc[c] \in {"new", "lockAccount"} => loaded[c] = NothingLoaded
    /\ pc[c] \in {"lockAccount", "apply"} => request[c] \in CashRequests
    /\ pc[c] = "apply" =>
         /\ request[c].account \in Accounts
         /\ loaded[c][request[c].account] \in Balances

WorkerInv ==
  \A w \in Workers :
    /\ pc[w] \in Working <=> claim[w] # NoRow
    /\ pc[w] \in {"score", "lockFirst", "lockSecond", "settle"} =>
         /\ loaded[w][Sender(w)] \in Balances
         /\ loaded[w][Receiver(w)] \in Balances
    /\ pc[w] \in {"lockFirst", "lockSecond", "settle"} =>
         verdict[w] \in {"ALLOW", "BLOCK"}

\* The foreign keys of transactions, and ck_transactions_distinct_accounts.
RowsRefer ==
  \A k \in Keys : txn[k] # NoRow =>
    /\ txn[k].req.sender \in Accounts /\ txn[k].req.receiver \in Accounts
    /\ txn[k].req.sender # txn[k].req.receiver

\* Everything the code relies on between two statements of a session.
SessionsConsistent ==
  /\ HandlerInv
  /\ TellerInv
  /\ WorkerInv
  /\ RowsRefer

(***************************************************************************)
(* What the code's documents say and the code does not do.                 *)
(***************************************************************************)
\* risk_worker.py:76-77: locking in a deterministic order "prevents
\* opposite-direction transfers from acquiring the two account locks in
\* different orders", so a settlement is never part of a deadlock.
SettlementNeverDeadlocks ==
  \A S \in SUBSET Waiting : LockCycle(S) => S \cap Workers = {}

\* tests/concurrency/test_transaction_concurrency.py:42: concurrent requests
\* with one key and one body are all answered 201.
DuplicateIsReplayed ==
  [][\A h \in Handlers :
       pc[h] = "validate" /\ pc'[h] = "insufficient" =>
         txn[request[h].key] = NoRow \/ txn[request[h].key].req # request[h]]_vars
==============================================================================
