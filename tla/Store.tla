-------------------------------- MODULE Store --------------------------------
(***************************************************************************)
(* The PostgreSQL database of the platform and the database sessions open  *)
(* on it: the rows of accounts, transactions, risk_jobs and                *)
(* cash_operations, the row locks and unique-index entries an open         *)
(* transaction holds, and what rollback and deadlock detection do.  The    *)
(* services that run on it are in TransferService, CashService and         *)
(* RiskWorker.                                                             *)
(*                                                                         *)
(* PostgreSQL runs READ COMMITTED: a SELECT sees the committed rows, a     *)
(* SELECT ... FOR UPDATE waits for the row and then sees its committed     *)
(* version, and every lock lasts to the end of the transaction.  The locks *)
(* a process holds are therefore a function of the statement it has        *)
(* reached: no variable stores them.                                       *)
(***************************************************************************)
EXTENDS Integers, FiniteSets

CONSTANTS
  Accounts,        \* account ids; UUID order is the order of the naturals
  Keys,            \* Idempotency-Key values sent to the transfer endpoints
  CashKeys,        \* Idempotency-Key values sent to the cash endpoint
  Requests,        \* transfer requests clients may send
  CashRequests,    \* cash requests managers may send
  Handlers,        \* transfer requests in service, one process each
  Tellers,         \* cash requests in service, one process each
  Workers,         \* risk worker processes
  Killable,        \* the processes that may be killed or lose the database
  Owner,           \* what owns an account, "user" or "merchant"
  Currency,        \* the currency of an account
  InitialBalance,
  MaxBalance,      \* the largest value of the balance column, Numeric(18, 2)
  MaxAttempts,     \* attempts after which a risk job is given up
  NoRow            \* no such row, or nothing claimed

Procs == Handlers \cup Tellers \cup Workers
Balances == 0 .. MaxBalance
TransferTypes == {"P2P", "P2M", "M2M", "M2P"}
Decisions == {"ALLOW", "REVIEW", "BLOCK"}

ASSUME ProcsDisjoint ==
  /\ Handlers \cap Tellers = {}
  /\ Handlers \cap Workers = {}
  /\ Tellers \cap Workers = {}
  /\ Killable \subseteq Procs

ASSUME AccountsAssumption ==
  /\ Accounts \subseteq Nat /\ IsFiniteSet(Accounts)
  /\ MaxBalance \in Nat
  /\ InitialBalance \in [Accounts -> Balances]
  /\ Owner \in [Accounts -> {"user", "merchant"}]

\* process_next_risk_job refuses max_attempts < 1.
ASSUME AttemptsAssumption == MaxAttempts \in Nat \ {0}

\* TransactionCreate: amount is gt=0; the sender is the account of the
\* authenticated user, or the one a manager names, and need not exist.
ASSUME RequestsAssumption ==
  /\ \A r \in Requests :
       /\ r.key \in Keys
       /\ r.amount \in Nat \ {0}
       /\ r.type \in TransferTypes
  /\ \A r \in CashRequests :
       /\ r.key \in CashKeys
       /\ r.amount \in Nat \ {0}
       /\ r.operation \in {"CREDIT", "DEBIT"}

VARIABLES
  balance,   \* accounts.balance
  txn,       \* transactions, by idempotency_key
  job,       \* risk_jobs, by the key of their transaction
  cash,      \* cash_operations, by idempotency_key
  clock,     \* how many timestamps have been taken; orders available_at
  request,   \* the request a handler or a teller serves
  pc,        \* the statement a process executes next, or its answer
  loaded,    \* the account rows in a session's identity map
  claim,     \* the risk job a worker has locked
  verdict,   \* the decision a worker is about to settle
  stamp      \* `now` of a handler that has reserved the funds

tables == <<balance, txn, job, cash>>
vars == <<balance, txn, job, cash, clock, request,
          pc, loaded, claim, verdict, stamp>>

TxnRows == [req : Requests,
            status : {"PENDING", "COMPLETED", "FAILED"},
            decision : Decisions \cup {"NONE"}]
\* PROCESSING is written only in the worker's session and replaced before
\* its one flush, so no committed row ever carries it.
JobRows == [status : {"PENDING", "COMPLETED", "FAILED"},
            attempts : 0 .. MaxAttempts,
            due : BOOLEAN,             \* available_at <= now
            at : Nat]                  \* available_at, as a rank
CashRows == [req : CashRequests, before : Balances, after : Balances]

ASSUME NoRowAssumption ==
  NoRow \notin TxnRows \cup JobRows \cup CashRows \cup Keys
                 \cup Requests \cup CashRequests

(***************************************************************************)
(* Sessions.  SessionLocal has autoflush and expire_on_commit off, so an   *)
(* Account object keeps the balance it was first loaded with until the     *)
(* session is closed, whatever is selected later.                          *)
(***************************************************************************)
Unloaded == -1
NothingLoaded == [a \in Accounts |-> Unloaded]

EndSession(p, label) ==
  /\ pc' = [pc EXCEPT ![p] = label]
  /\ loaded' = [loaded EXCEPT ![p] = NothingLoaded]
  /\ claim' = [claim EXCEPT ![p] = NoRow]
  /\ verdict' = [verdict EXCEPT ![p] = "NONE"]
  /\ stamp' = [stamp EXCEPT ![p] = 0]

Sender(w) == txn[claim[w]].req.sender
Receiver(w) == txn[claim[w]].req.receiver

\* Mutant: the worker locks the sender first, whatever the ids.
SenderAlwaysFirst(w) == TRUE

\* ORDER BY accounts.id: the lower id is locked first.
SenderFirst(w) == Sender(w) < Receiver(w)
LowerAccount(w) == IF SenderFirst(w) THEN Sender(w) ELSE Receiver(w)
HigherAccount(w) == IF SenderFirst(w) THEN Receiver(w) ELSE Sender(w)

(***************************************************************************)
(* Locks.  FOR UPDATE on an account conflicts with FOR UPDATE and with the *)
(* FOR KEY SHARE that the foreign keys of an inserted transaction take on  *)
(* both its accounts (its sender is already locked by the inserter).  An   *)
(* inserted but uncommitted key makes other inserters of it wait.          *)
(***************************************************************************)
HoldsUpdate(p, a) ==
  \/ /\ pc[p] \in {"validate", "insert", "reference", "commit"}
     /\ a = request[p].sender
  \/ /\ pc[p] = "apply"
     /\ a = request[p].account
  \/ /\ pc[p] = "lockSecond"
     /\ a = LowerAccount(p)
  \/ /\ pc[p] = "settle"
     /\ a \in {Sender(p), Receiver(p)}

HoldsKeyShare(p, a) == pc[p] = "commit" /\ a = request[p].receiver

HoldsKey(p, k) == pc[p] \in {"reference", "commit"} /\ k = request[p].key

WantsUpdate(p, a) ==
  \/ pc[p] = "lockSender" /\ a = request[p].sender
  \/ pc[p] = "lockAccount" /\ a = request[p].account
  \/ pc[p] = "lockFirst" /\ a = LowerAccount(p)
  \/ pc[p] = "lockSecond" /\ a = HigherAccount(p)

WantsKeyShare(p, a) == pc[p] = "reference" /\ a = request[p].receiver

WantsKey(p, k) == pc[p] = "insert" /\ k = request[p].key

FreeForUpdate(p, a) ==
  \A q \in Procs \ {p} : ~HoldsUpdate(q, a) /\ ~HoldsKeyShare(q, a)

FreeForKeyShare(p, a) == \A q \in Procs \ {p} : ~HoldsUpdate(q, a)

FreeKey(p, k) == \A q \in Procs \ {p} : ~HoldsKey(q, k)

\* SELECT account FOR UPDATE: the committed row enters the identity map
\* unless the session already has the object.
SelectForUpdate(p, a) ==
  /\ FreeForUpdate(p, a)
  /\ loaded' = [loaded EXCEPT ![p][a] = IF @ = Unloaded THEN balance[a] ELSE @]

(***************************************************************************)
(* Deadlock detection.  q blocks p when p waits for a lock q holds; a      *)
(* cycle is a least set of processes each blocked by another of the set.   *)
(***************************************************************************)
BlockedBy(p, q) ==
  /\ p # q
  /\ \/ \E a \in Accounts : /\ WantsUpdate(p, a)
                            /\ HoldsUpdate(q, a) \/ HoldsKeyShare(q, a)
     \/ \E a \in Accounts : WantsKeyShare(p, a) /\ HoldsUpdate(q, a)
     \/ \E k \in Keys : WantsKey(p, k) /\ HoldsKey(q, k)

Waiting == {p \in Procs : \E q \in Procs : BlockedBy(p, q)}

AllBlocked(S) == S # {} /\ \A p \in S : \E q \in S : BlockedBy(p, q)

LockCycle(S) == AllBlocked(S) /\ \A T \in SUBSET S : AllBlocked(T) => T = S

(***************************************************************************)
(* A transaction that is rolled back leaves no trace in the tables.  The   *)
(* request it served answers 500 (or its connection drops); an exception   *)
(* in a worker leaves run_worker's loop and ends the process.              *)
(***************************************************************************)
Answers == {"created", "replayed", "conflict", "insufficient",
            "notFound", "invalid", "error"}
AtRest == Answers \cup {"new", "idle", "down"}

\* Mutant: the failed session is never closed and keeps its locks.
RollBackLeaksSession(p) == UNCHANGED vars

RollBack(p) ==
  /\ EndSession(p, IF p \in Workers THEN "down" ELSE "error")
  /\ UNCHANGED <<tables, clock, request>>

Kill(p) ==
  /\ p \in Killable
  /\ pc[p] \notin AtRest
  /\ RollBack(p)

DeadlockVictim(p) ==
  /\ \E S \in SUBSET Waiting : p \in S /\ LockCycle(S)
  /\ RollBack(p)

StoreInit ==
  /\ balance = InitialBalance
  /\ txn = [k \in Keys |-> NoRow]
  /\ job = [k \in Keys |-> NoRow]
  /\ cash = [k \in CashKeys |-> NoRow]
  /\ clock = 0
  /\ request = [p \in Procs |-> NoRow]
  /\ pc = [p \in Procs |-> IF p \in Workers THEN "idle" ELSE "new"]
  /\ loaded = [p \in Procs |-> NothingLoaded]
  /\ claim = [p \in Procs |-> NoRow]
  /\ verdict = [p \in Procs |-> "NONE"]
  /\ stamp = [p \in Procs |-> 0]
==============================================================================
