----------------------------- MODULE CashService -----------------------------
(***************************************************************************)
(* perform_cash_operation (app/services/cash_service.py): a manager        *)
(* credits or debits one account, once per idempotency key.                *)
(***************************************************************************)
EXTENDS Store

\* The lookup by key that opens the operation.
LookupOperation(c, r) ==
  LET existing == cash[r.key] IN
  /\ pc[c] = "new"
  /\ request' = [request EXCEPT ![c] = r]
  /\ \/ /\ existing # NoRow
        /\ EndSession(c, IF existing.req = r THEN "replayed" ELSE "conflict")
     \/ /\ existing = NoRow
        /\ pc' = [pc EXCEPT ![c] = "lockAccount"]
        /\ UNCHANGED <<loaded, claim, verdict, stamp>>
  /\ UNCHANGED <<tables, clock>>

\* Mutant: a SELECT without FOR UPDATE.
LoadAccountUnlocked(c) ==
  LET a == request[c].account IN
  /\ pc[c] = "lockAccount"
  /\ a \in Accounts
  /\ loaded' = [loaded EXCEPT ![c][a] = balance[a]]
  /\ pc' = [pc EXCEPT ![c] = "apply"]
  /\ UNCHANGED <<tables, clock, request, claim, verdict, stamp>>

LockAccount(c) ==
  /\ pc[c] = "lockAccount"
  /\ request[c].account \in Accounts
  /\ SelectForUpdate(c, request[c].account)
  /\ pc' = [pc EXCEPT ![c] = "apply"]
  /\ UNCHANGED <<tables, clock, request, claim, verdict, stamp>>

\* No such account: the SELECT returns no row.
AccountMissing(c) ==
  /\ pc[c] = "lockAccount"
  /\ request[c].account \notin Accounts
  /\ EndSession(c, "notFound")
  /\ UNCHANGED <<tables, clock, request>>

NewBalance(c) ==
  LET r == request[c] IN
  loaded[c][r.account] + (IF r.operation = "DEBIT" THEN -r.amount ELSE r.amount)

RefuseCash(c) ==
  LET r == request[c] IN
  /\ pc[c] = "apply"
  /\ \/ Currency[r.account] # r.currency /\ EndSession(c, "invalid")
     \/ /\ Currency[r.account] = r.currency
        /\ NewBalance(c) < 0
        /\ EndSession(c, "insufficient")
  /\ UNCHANGED <<tables, clock, request>>

\* Mutant: balance_before is read after the balance was changed.
CommitCashLateBefore(c) ==
  LET r == request[c] IN
  /\ pc[c] = "apply"
  /\ Currency[r.account] = r.currency
  /\ NewBalance(c) \in Balances
  /\ cash[r.key] = NoRow
  /\ balance' = [balance EXCEPT ![r.account] = NewBalance(c)]
  /\ cash' = [cash EXCEPT ![r.key] =
                [req |-> r, before |-> NewBalance(c), after |-> NewBalance(c)]]
  /\ EndSession(c, "created")
  /\ UNCHANGED <<txn, job, clock, request>>

\* Mutant: idempotency_key has no unique index.
CommitCashWithoutIndex(c) ==
  LET r == request[c] IN
  /\ pc[c] = "apply"
  /\ Currency[r.account] = r.currency
  /\ NewBalance(c) \in Balances
  /\ balance' = [balance EXCEPT ![r.account] = NewBalance(c)]
  /\ cash' = [cash EXCEPT ![r.key] =
                [req |-> r, before |-> loaded[c][r.account],
                 after |-> NewBalance(c)]]
  /\ EndSession(c, "created")
  /\ UNCHANGED <<txn, job, clock, request>>

\* The balance and the audit row are committed together.
CommitCash(c) ==
  LET r == request[c] IN
  /\ pc[c] = "apply"
  /\ Currency[r.account] = r.currency
  /\ NewBalance(c) \in Balances
  /\ cash[r.key] = NoRow
  /\ balance' = [balance EXCEPT ![r.account] = NewBalance(c)]
  /\ cash' = [cash EXCEPT ![r.key] =
                [req |-> r, before |-> loaded[c][r.account],
                 after |-> NewBalance(c)]]
  /\ EndSession(c, "created")
  /\ UNCHANGED <<txn, job, clock, request>>

\* The flush raises: Numeric(18, 2) overflows, or the key was committed
\* after the lookup and uq_cash_operations_idempotency_key rejects the row.
CashFlushFails(c) ==
  LET r == request[c] IN
  /\ pc[c] = "apply"
  /\ Currency[r.account] = r.currency
  /\ \/ NewBalance(c) > MaxBalance
     \/ NewBalance(c) \in Balances /\ cash[r.key] # NoRow
  /\ RollBack(c)

TellerStep(c) ==
  \/ \E r \in CashRequests : LookupOperation(c, r)
  \/ LockAccount(c)
  \/ AccountMissing(c)
  \/ RefuseCash(c)
  \/ CommitCash(c)
  \/ CashFlushFails(c)
==============================================================================
