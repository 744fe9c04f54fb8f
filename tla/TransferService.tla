--------------------------- MODULE TransferService ---------------------------
(***************************************************************************)
(* create_transaction (app/services/transaction_service.py): one database  *)
(* transaction that reserves the sender's funds and inserts a PENDING      *)
(* transaction and its risk job.  The participant endpoint and the         *)
(* manager's endpoint both call it.  An action is the code between two     *)
(* points where another session can be seen: the first SELECT, the wait    *)
(* for the sender's row, what is decided under that lock, the wait for the *)
(* unique index, the wait for the receiver's row, and the commit.          *)
(***************************************************************************)
EXTENDS Store

\* _matches_existing_request compares every field of the request.
Matches(row, r) == row.req = r

ValidTransferType(r) ==
  <<r.type, Owner[r.sender], Owner[r.receiver]>> \in
    {<<"P2P", "user", "user">>, <<"P2M", "user", "merchant">>,
     <<"M2M", "merchant", "merchant">>, <<"M2P", "merchant", "user">>}

\* Steps 4 and 5: the receiver's facts; they never change.
Acceptable(r) ==
  /\ r.receiver \in Accounts
  /\ r.receiver # r.sender
  /\ ValidTransferType(r)
  /\ Currency[r.sender] = r.currency
  /\ Currency[r.receiver] = r.currency

\* An answer that changes no row.
Answer(h, label) ==
  /\ EndSession(h, label)
  /\ UNCHANGED <<tables, clock>>

AnswerExisting(h, r) ==
  /\ txn[r.key] # NoRow
  /\ Answer(h, IF Matches(txn[r.key], r) THEN "replayed" ELSE "conflict")

Proceed(h, label) ==
  /\ pc' = [pc EXCEPT ![h] = label]
  /\ UNCHANGED <<tables, clock, request, claim, verdict>>

\* Mutant: step 2 loads the sender's row and not its id alone.
LookupLoadsSender(h, r) ==
  /\ pc[h] = "new"
  /\ request' = [request EXCEPT ![h] = r]
  /\ \/ AnswerExisting(h, r)
     \/ /\ txn[r.key] = NoRow
        /\ r.sender \notin Accounts
        /\ Answer(h, "notFound")
     \/ /\ txn[r.key] = NoRow
        /\ r.sender \in Accounts
        /\ pc' = [pc EXCEPT ![h] = "lockSender"]
        /\ loaded' = [loaded EXCEPT ![h][r.sender] = balance[r.sender]]
        /\ UNCHANGED <<tables, clock, claim, verdict, stamp>>

\* Steps 1 and 2: the initial idempotency lookup and the sender's id.
Lookup(h, r) ==
  /\ pc[h] = "new"
  /\ request' = [request EXCEPT ![h] = r]
  /\ \/ AnswerExisting(h, r)
     \/ /\ txn[r.key] = NoRow
        /\ r.sender \notin Accounts
        /\ Answer(h, "notFound")
     \/ /\ txn[r.key] = NoRow
        /\ r.sender \in Accounts
        /\ pc' = [pc EXCEPT ![h] = "lockSender"]
        /\ UNCHANGED <<tables, clock, loaded, claim, verdict, stamp>>

\* Step 3: wait for the sender's row.
LockSender(h) ==
  /\ pc[h] = "lockSender"
  /\ SelectForUpdate(h, request[h].sender)
  /\ Proceed(h, "validate")
  /\ UNCHANGED stamp

\* Steps 4 to 6 refuse the transfer.
Refuse(h) ==
  LET r == request[h] IN
  /\ pc[h] = "validate"
  /\ \/ r.receiver \notin Accounts /\ Answer(h, "notFound")
     \/ r.receiver \in Accounts /\ ~Acceptable(r) /\ Answer(h, "invalid")
     \/ /\ Acceptable(r)
        /\ loaded[h][r.sender] < r.amount
        /\ Answer(h, "insufficient")
  /\ UNCHANGED request

\* The transfer passed steps 4 to 6.
Affordable(h) ==
  Acceptable(request[h]) /\ loaded[h][request[h].sender] >= request[h].amount

\* Step 7: the key was committed while this request waited for the lock.
Recheck(h) ==
  /\ pc[h] = "validate"
  /\ Affordable(h)
  /\ AnswerExisting(h, request[h])
  /\ UNCHANGED request

\* Step 8: the debit is made in the session; `now` becomes available_at.
Reserve(h) ==
  /\ pc[h] = "validate"
  /\ Affordable(h)
  /\ txn[request[h].key] = NoRow
  /\ clock' = clock + 1
  /\ stamp' = [stamp EXCEPT ![h] = clock + 1]
  /\ pc' = [pc EXCEPT ![h] = "insert"]
  /\ UNCHANGED <<tables, request, loaded, claim, verdict>>

\* Mutant: idempotency_key has no unique index.
InsertWithoutIndex(h) ==
  /\ pc[h] = "insert"
  /\ Proceed(h, "reference")
  /\ UNCHANGED <<loaded, stamp>>

\* Step 9, the flush: uq_transactions_idempotency_key lets one inserter in.
InsertTransaction(h) ==
  /\ pc[h] = "insert"
  /\ FreeKey(h, request[h].key)
  /\ txn[request[h].key] = NoRow
  /\ Proceed(h, "reference")
  /\ UNCHANGED <<loaded, stamp>>

\* IntegrityError: no handler of the endpoints catches it.
UniqueViolation(h) ==
  /\ pc[h] = "insert"
  /\ FreeKey(h, request[h].key)
  /\ txn[request[h].key] # NoRow
  /\ RollBack(h)

\* The foreign key on receiver_account_id locks the receiver FOR KEY SHARE.
ReferenceReceiver(h) ==
  /\ pc[h] = "reference"
  /\ FreeForKeyShare(h, request[h].receiver)
  /\ Proceed(h, "commit")
  /\ UNCHANGED <<loaded, stamp>>

\* Step 10 and the commit: the debit, the transaction and its job together.
CommitTransfer(h) ==
  LET r == request[h] IN
  /\ pc[h] = "commit"
  /\ balance' = [balance EXCEPT ![r.sender] = loaded[h][r.sender] - r.amount]
  /\ txn' = [txn EXCEPT ![r.key] =
               [req |-> r, status |-> "PENDING", decision |-> "NONE"]]
  /\ job' = [job EXCEPT ![r.key] =
               [status |-> "PENDING", attempts |-> 0,
                due |-> TRUE, at |-> stamp[h]]]
  /\ EndSession(h, "created")
  /\ UNCHANGED <<cash, clock, request>>

HandlerStep(h) ==
  \/ \E r \in Requests : Lookup(h, r)
  \/ LockSender(h)
  \/ Refuse(h)
  \/ Recheck(h)
  \/ Reserve(h)
  \/ InsertTransaction(h)
  \/ UniqueViolation(h)
  \/ ReferenceReceiver(h)
  \/ CommitTransfer(h)
==============================================================================
