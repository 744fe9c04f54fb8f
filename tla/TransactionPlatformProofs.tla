----------------------- MODULE TransactionPlatformProofs -----------------------
(***************************************************************************)
(* Proofs about TransactionPlatform and PlatformLedger, for every set of   *)
(* accounts, keys, requests, handlers, tellers and workers.                *)
(***************************************************************************)
EXTENDS PlatformLedger, Sums, FiniteSetTheorems, WellFoundedInduction, TLAPS

\* The inductive invariant: types, what a session knows at each statement,
\* the agreement of the rows and the exclusiveness of claims need each other.
Inv ==
  /\ TypeOK
  /\ SessionsConsistent
  /\ RowsAgree
  /\ ClaimsAreExclusive

(***************************************************************************)
(* Processes and sessions.                                                 *)
(***************************************************************************)
\* A process is a handler, a teller or a worker, and only one of them.
LEMMA Roles ==
  /\ \A h \in Handlers : h \in Procs /\ h \notin Tellers /\ h \notin Workers
  /\ \A c \in Tellers : c \in Procs /\ c \notin Handlers /\ c \notin Workers
  /\ \A w \in Workers : w \in Procs /\ w \notin Handlers /\ w \notin Tellers
  /\ \A p \in Procs : p \in Handlers \/ p \in Tellers \/ p \in Workers
  BY ProcsDisjoint DEF Procs

\* Ending a session keeps the session variables well typed.
LEMMA EndSessionOK ==
  ASSUME SessionsOK, NEW p \in Procs, NEW label, EndSession(p, label),
         request' \in [Procs -> Requests \cup CashRequests \cup {NoRow}]
  PROVE  SessionsOK'
  <1>1. NothingLoaded \in [Accounts -> Balances \cup {Unloaded}]
    BY DEF NothingLoaded
  <1>2. QED
    BY <1>1 DEF SessionsOK, EndSession

\* Updating a job keeps it a row of risk_jobs.
LEMMA JobRowUpdated ==
  ASSUME NEW row \in JobRows, NEW s \in {"PENDING", "COMPLETED", "FAILED"},
         NEW n \in 0 .. MaxAttempts, NEW d \in BOOLEAN
  PROVE  /\ [row EXCEPT !.status = s, !.attempts = n] \in JobRows
         /\ [row EXCEPT !.status = s, !.attempts = n, !.due = d] \in JobRows
  BY DEF JobRows

\* A row selected FOR UPDATE is in the identity map afterwards, committed
\* balance or earlier copy, and no other entry of any session changes.
LEMMA SelectForUpdateOK ==
  ASSUME TablesOK, SessionsOK, NEW p \in Procs, NEW a \in Accounts,
         SelectForUpdate(p, a)
  PROVE  /\ loaded' \in [Procs -> [Accounts -> Balances \cup {Unloaded}]]
         /\ loaded'[p][a] =
              IF loaded[p][a] = Unloaded THEN balance[a] ELSE loaded[p][a]
         /\ loaded'[p][a] \in Balances
         /\ \A b \in Accounts \ {a} : loaded'[p][b] = loaded[p][b]
         /\ \A q \in Procs \ {p} : loaded'[q] = loaded[q]
  <1>1. balance[a] \in Balances /\ loaded[p][a] \in Balances \cup {Unloaded}
    BY DEF TablesOK, SessionsOK
  <1>2. QED
    BY <1>1 DEF SessionsOK, SelectForUpdate

\* A handler or a teller that ends its session without touching a row.
LEMMA AnswerInv ==
  ASSUME Inv, NEW p \in Handlers \cup Tellers, NEW label \in Answers,
         EndSession(p, label), UNCHANGED <<tables, clock>>,
         request' \in [Procs -> Requests \cup CashRequests \cup {NoRow}],
         \A q \in Procs \ {p} : request'[q] = request[q]
  PROVE  Inv'
  <1> USE Roles DEF Inv, SessionsConsistent, TypeOK, tables
  <1>1. TypeOK'
    <2>1. SessionsOK'
      BY EndSessionOK
    <2>2. LabelsOK'
      BY DEF LabelsOK, HandlerLabels, TellerLabels, EndSession
    <2>3. QED
      BY <2>1, <2>2 DEF TablesOK
  <1>2. HandlerInv'
    BY DEF HandlerInv, LabelsOK, SessionsOK, Locked, Affordable, FreeKey,
           HoldsKey, Answers, EndSession
  <1>3. TellerInv'
    BY DEF TellerInv, LabelsOK, SessionsOK, Answers, EndSession
  <1>4. WorkerInv' /\ RowsRefer'
    BY DEF WorkerInv, LabelsOK, SessionsOK, RowsRefer, Sender, Receiver,
           EndSession
  <1>5. RowsAgree' /\ ClaimsAreExclusive'
    BY DEF RowsAgree, SessionsOK, ClaimsAreExclusive, EndSession
  <1>6. QED
    BY <1>1, <1>2, <1>3, <1>4, <1>5

(***************************************************************************)
(* The initial state.                                                      *)
(***************************************************************************)
LEMMA InitInv == Init => Inv
  <1> SUFFICES ASSUME Init PROVE Inv
    OBVIOUS
  <1> USE Roles DEF Init, StoreInit
  <1>1. TypeOK
    <2>1. TablesOK
      BY AccountsAssumption DEF TablesOK
    <2>2. LabelsOK
      BY DEF LabelsOK, HandlerLabels, TellerLabels, WorkerLabels
    <2>3. SessionsOK
      BY DEF SessionsOK, NothingLoaded
    <2>4. QED
      BY <2>1, <2>2, <2>3 DEF TypeOK
  <1>2. SessionsConsistent
    BY DEF SessionsConsistent, HandlerInv, TellerInv, WorkerInv, RowsRefer,
           Working, Locked
  <1>3. RowsAgree /\ ClaimsAreExclusive
    BY DEF RowsAgree, ClaimsAreExclusive
  <1>4. QED
    BY <1>1, <1>2, <1>3 DEF Inv

(***************************************************************************)
(* The steps of a transfer request.                                        *)
(***************************************************************************)
LEMMA LookupInv ==
  ASSUME Inv, NEW h \in Handlers, NEW r \in Requests, Lookup(h, r)
  PROVE  Inv'
  <1> USE Roles
  <1>1. /\ request' \in [Procs -> Requests \cup CashRequests \cup {NoRow}]
        /\ \A q \in Procs \ {h} : request'[q] = request[q]
    BY DEF Inv, TypeOK, SessionsOK, Lookup
  <1>2. CASE AnswerExisting(h, r)
    BY <1>1, <1>2, AnswerInv DEF AnswerExisting, Answer, Answers
  <1>3. CASE Answer(h, "notFound")
    BY <1>1, <1>3, AnswerInv DEF Answer, Answers
  <1>4. CASE /\ r.sender \in Accounts
             /\ pc' = [pc EXCEPT ![h] = "lockSender"]
             /\ UNCHANGED <<tables, clock, loaded, claim, verdict, stamp>>
    <2> USE <1>1, <1>4 DEF Inv, SessionsConsistent, TypeOK, tables, Lookup
    <2>1. TypeOK'
      BY DEF TablesOK, LabelsOK, SessionsOK, HandlerLabels
    <2>2. HandlerInv'
      BY DEF HandlerInv, LabelsOK, SessionsOK, Locked, Affordable, FreeKey,
             HoldsKey
    <2>3. TellerInv'
      BY DEF TellerInv, LabelsOK, SessionsOK
    <2>4. WorkerInv' /\ RowsRefer'
      BY DEF WorkerInv, LabelsOK, SessionsOK, RowsRefer, Sender, Receiver
    <2>5. RowsAgree' /\ ClaimsAreExclusive'
      BY DEF RowsAgree, ClaimsAreExclusive
    <2>6. QED
      BY <2>1, <2>2, <2>3, <2>4, <2>5
  <1>5. QED
    BY <1>2, <1>3, <1>4 DEF Lookup

LEMMA LockSenderInv ==
  ASSUME Inv, NEW h \in Handlers, LockSender(h)
  PROVE  Inv'
  <1> USE Roles DEF Inv, SessionsConsistent, TypeOK, tables, LockSender, Proceed
  <1> DEFINE s == request[h].sender
  <1>1. s \in Accounts /\ request[h] \in Requests /\ loaded[h] = NothingLoaded
    BY DEF HandlerInv
  <1>2. /\ loaded' \in [Procs -> [Accounts -> Balances \cup {Unloaded}]]
        /\ loaded'[h][s] \in Balances
        /\ \A q \in Procs \ {h} : loaded'[q] = loaded[q]
    BY <1>1, SelectForUpdateOK
  <1>3. TypeOK'
    BY <1>2 DEF TablesOK, LabelsOK, SessionsOK, HandlerLabels
  <1>4. HandlerInv'
    BY <1>1, <1>2 DEF HandlerInv, LabelsOK, SessionsOK, Locked, Affordable,
                      FreeKey, HoldsKey
  <1>5. TellerInv'
    BY <1>2 DEF TellerInv, LabelsOK, SessionsOK
  <1>6. WorkerInv' /\ RowsRefer'
    BY <1>2 DEF WorkerInv, LabelsOK, SessionsOK, RowsRefer, Sender, Receiver
  <1>7. RowsAgree' /\ ClaimsAreExclusive'
    BY DEF RowsAgree, ClaimsAreExclusive
  <1>8. QED
    BY <1>3, <1>4, <1>5, <1>6, <1>7

LEMMA RefuseInv ==
  ASSUME Inv, NEW h \in Handlers, Refuse(h)
  PROVE  Inv'
  <1>1. PICK label \in Answers : Answer(h, label)
    BY DEF Refuse, Answers
  <1>2. QED
    BY <1>1, AnswerInv DEF Refuse, Answer, Inv, TypeOK, SessionsOK

LEMMA RecheckInv ==
  ASSUME Inv, NEW h \in Handlers, Recheck(h)
  PROVE  Inv'
  <1>1. PICK label \in Answers : Answer(h, label)
    BY DEF Recheck, AnswerExisting, Answers
  <1>2. QED
    BY <1>1, AnswerInv DEF Recheck, Answer, Inv, TypeOK, SessionsOK

LEMMA ReserveInv ==
  ASSUME Inv, NEW h \in Handlers, Reserve(h)
  PROVE  Inv'
  <1> USE Roles DEF Inv, SessionsConsistent, TypeOK, tables, Reserve
  <1>1. TypeOK'
    BY DEF TablesOK, LabelsOK, SessionsOK, HandlerLabels
  <1>2. HandlerInv'
    BY DEF HandlerInv, LabelsOK, SessionsOK, Locked, Affordable, FreeKey,
           HoldsKey
  <1>3. TellerInv'
    BY DEF TellerInv, LabelsOK, SessionsOK
  <1>4. WorkerInv' /\ RowsRefer'
    BY DEF WorkerInv, LabelsOK, SessionsOK, RowsRefer, Sender, Receiver
  <1>5. RowsAgree' /\ ClaimsAreExclusive'
    BY DEF RowsAgree, ClaimsAreExclusive
  <1>6. QED
    BY <1>1, <1>2, <1>3, <1>4, <1>5

\* The inserted key is free and has no row, so nobody else may hold it.
LEMMA InsertTransactionInv ==
  ASSUME Inv, NEW h \in Handlers, InsertTransaction(h)
  PROVE  Inv'
  <1> USE Roles DEF Inv, SessionsConsistent, TypeOK, tables,
                    InsertTransaction, Proceed
  <1>1. TypeOK'
    BY DEF TablesOK, LabelsOK, SessionsOK, HandlerLabels
  <1>2. HandlerInv'
    BY DEF HandlerInv, LabelsOK, SessionsOK, Locked, Affordable, FreeKey,
           HoldsKey
  <1>3. TellerInv'
    BY DEF TellerInv, LabelsOK, SessionsOK
  <1>4. WorkerInv' /\ RowsRefer'
    BY DEF WorkerInv, LabelsOK, SessionsOK, RowsRefer, Sender, Receiver
  <1>5. RowsAgree' /\ ClaimsAreExclusive'
    BY DEF RowsAgree, ClaimsAreExclusive
  <1>6. QED
    BY <1>1, <1>2, <1>3, <1>4, <1>5

LEMMA ReferenceReceiverInv ==
  ASSUME Inv, NEW h \in Handlers, ReferenceReceiver(h)
  PROVE  Inv'
  <1> USE Roles DEF Inv, SessionsConsistent, TypeOK, tables,
                    ReferenceReceiver, Proceed
  <1>1. TypeOK'
    BY DEF TablesOK, LabelsOK, SessionsOK, HandlerLabels
  <1>2. HandlerInv'
    BY DEF HandlerInv, LabelsOK, SessionsOK, Locked, Affordable, FreeKey,
           HoldsKey
  <1>3. TellerInv'
    BY DEF TellerInv, LabelsOK, SessionsOK
  <1>4. WorkerInv' /\ RowsRefer'
    BY DEF WorkerInv, LabelsOK, SessionsOK, RowsRefer, Sender, Receiver
  <1>5. RowsAgree' /\ ClaimsAreExclusive'
    BY DEF RowsAgree, ClaimsAreExclusive
  <1>6. QED
    BY <1>1, <1>2, <1>3, <1>4, <1>5

\* The new row replaces none, so no claimed or inserted key is affected.
LEMMA CommitTransferInv ==
  ASSUME Inv, NEW h \in Handlers, CommitTransfer(h)
  PROVE  Inv'
  <1> USE Roles DEF Inv, SessionsConsistent, TypeOK, tables, CommitTransfer
  <1> DEFINE r == request[h]
             t == [req |-> r, status |-> "PENDING", decision |-> "NONE"]
             j == [status |-> "PENDING", attempts |-> 0,
                   due |-> TRUE, at |-> stamp[h]]
  <1>1. /\ r \in Requests /\ r.key \in Keys /\ r.amount \in Nat \ {0}
        /\ r.sender \in Accounts /\ r.receiver \in Accounts /\ r.sender # r.receiver
        /\ loaded[h][r.sender] - r.amount \in Balances
        /\ txn[r.key] = NoRow
        /\ FreeKey(h, r.key)
    BY RequestsAssumption, AccountsAssumption
    DEF HandlerInv, Locked, Affordable, Acceptable, Balances
  <1>2. t \in TxnRows /\ j \in JobRows /\ t # NoRow /\ j # NoRow
    <2>1. t \in TxnRows
      BY <1>1 DEF TxnRows
    <2>2. j \in JobRows
      BY AttemptsAssumption DEF JobRows, SessionsOK
    <2>3. QED
      BY <2>1, <2>2, NoRowAssumption
  <1>3. /\ txn' = [txn EXCEPT ![r.key] = t]
        /\ job' = [job EXCEPT ![r.key] = j]
        /\ EndSession(h, "created")
        /\ UNCHANGED <<cash, clock, request>>
    OBVIOUS
  <1> HIDE DEF t, j
  <1>4. TypeOK'
    <2>1. TablesOK'
      BY <1>1, <1>2, <1>3 DEF TablesOK
    <2>2. LabelsOK'
      BY <1>3 DEF LabelsOK, EndSession, HandlerLabels, Answers
    <2>3. SessionsOK'
      BY <1>3, EndSessionOK DEF SessionsOK
    <2>4. QED
      BY <2>1, <2>2, <2>3
  <1>5. HandlerInv'
    BY <1>1, <1>3, RequestsAssumption
    DEF HandlerInv, TablesOK, LabelsOK, SessionsOK, Locked, Affordable,
        FreeKey, HoldsKey, EndSession
  <1>6. TellerInv'
    BY <1>3 DEF TellerInv, LabelsOK, SessionsOK, EndSession
  <1>7. \A w \in Workers : claim[w] # r.key
    BY <1>1, NoRowAssumption DEF ClaimsAreExclusive
  <1>8. WorkerInv'
    BY <1>3, <1>7 DEF WorkerInv, LabelsOK, SessionsOK, TablesOK, Sender,
                      Receiver, Working, EndSession
  <1>9. RowsRefer'
    BY <1>1, <1>3 DEF RowsRefer, TablesOK, t
  <1>10. RowsAgree'
    <2> SUFFICES ASSUME NEW k \in Keys, k = r.key
                 PROVE  /\ job'[k] # NoRow /\ txn'[k] # NoRow
                        /\ job'[k].status = "PENDING"
                        /\ txn'[k].decision = "NONE"
                        /\ txn'[k].status = "PENDING"
                        /\ job'[k].attempts < MaxAttempts
      BY <1>3 DEF RowsAgree, TablesOK
    <2>1. QED
      BY <1>2, <1>3, AttemptsAssumption DEF TablesOK, t, j
  <1>11. ClaimsAreExclusive'
    BY <1>3, <1>7 DEF ClaimsAreExclusive, SessionsOK, TablesOK, EndSession
  <1>12. QED
    BY <1>4, <1>5, <1>6, <1>8, <1>9, <1>10, <1>11

(***************************************************************************)
(* The steps of a cash operation.                                          *)
(***************************************************************************)
LEMMA LookupOperationInv ==
  ASSUME Inv, NEW c \in Tellers, NEW r \in CashRequests, LookupOperation(c, r)
  PROVE  Inv'
  <1> USE Roles
  <1>1. /\ request' \in [Procs -> Requests \cup CashRequests \cup {NoRow}]
        /\ request'[c] = r
        /\ \A q \in Procs \ {c} : request'[q] = request[q]
    BY DEF Inv, TypeOK, SessionsOK, LookupOperation
  <1>2. CASE pc' = [pc EXCEPT ![c] = "lockAccount"]
             /\ UNCHANGED <<loaded, claim, verdict, stamp>>
    <2> USE <1>1, <1>2 DEF Inv, SessionsConsistent, TypeOK, tables,
                           LookupOperation
    <2>1. TypeOK'
      BY DEF TablesOK, LabelsOK, SessionsOK, TellerLabels
    <2>2. HandlerInv'
      BY DEF HandlerInv, LabelsOK, SessionsOK, Locked, Affordable, FreeKey,
             HoldsKey
    <2>3. TellerInv'
      BY DEF TellerInv, LabelsOK, SessionsOK
    <2>4. WorkerInv' /\ RowsRefer'
      BY DEF WorkerInv, LabelsOK, SessionsOK, RowsRefer, Sender, Receiver
    <2>5. RowsAgree' /\ ClaimsAreExclusive'
      BY DEF RowsAgree, ClaimsAreExclusive
    <2>6. QED
      BY <2>1, <2>2, <2>3, <2>4, <2>5
  <1>3. CASE \E label \in {"replayed", "conflict"} : EndSession(c, label)
    BY <1>1, <1>3, AnswerInv DEF LookupOperation, Answers
  <1>4. QED
    BY <1>2, <1>3 DEF LookupOperation

LEMMA LockAccountInv ==
  ASSUME Inv, NEW c \in Tellers, LockAccount(c)
  PROVE  Inv'
  <1> USE Roles DEF Inv, SessionsConsistent, TypeOK, tables, LockAccount
  <1> DEFINE a == request[c].account
  <1>1. a \in Accounts /\ request[c] \in CashRequests
    BY DEF TellerInv
  <1>2. /\ loaded' \in [Procs -> [Accounts -> Balances \cup {Unloaded}]]
        /\ loaded'[c][a] \in Balances
        /\ \A q \in Procs \ {c} : loaded'[q] = loaded[q]
    BY <1>1, SelectForUpdateOK
  <1>3. TypeOK'
    BY <1>2 DEF TablesOK, LabelsOK, SessionsOK, TellerLabels
  <1>4. HandlerInv'
    BY <1>2 DEF HandlerInv, LabelsOK, SessionsOK, Locked, Affordable,
                FreeKey, HoldsKey
  <1>5. TellerInv'
    BY <1>1, <1>2 DEF TellerInv, LabelsOK, SessionsOK
  <1>6. WorkerInv' /\ RowsRefer'
    BY <1>2 DEF WorkerInv, LabelsOK, SessionsOK, RowsRefer, Sender, Receiver
  <1>7. RowsAgree' /\ ClaimsAreExclusive'
    BY DEF RowsAgree, ClaimsAreExclusive
  <1>8. QED
    BY <1>3, <1>4, <1>5, <1>6, <1>7

LEMMA AccountMissingInv ==
  ASSUME Inv, NEW c \in Tellers, AccountMissing(c)
  PROVE  Inv'
  BY AnswerInv DEF AccountMissing, Answers, Inv, TypeOK, SessionsOK

LEMMA RefuseCashInv ==
  ASSUME Inv, NEW c \in Tellers, RefuseCash(c)
  PROVE  Inv'
  <1>1. PICK label \in Answers : EndSession(c, label)
    BY DEF RefuseCash, Answers
  <1>2. QED
    BY <1>1, AnswerInv DEF RefuseCash, Inv, TypeOK, SessionsOK

LEMMA CommitCashInv ==
  ASSUME Inv, NEW c \in Tellers, CommitCash(c)
  PROVE  Inv'
  <1> USE Roles DEF Inv, SessionsConsistent, TypeOK, tables, CommitCash
  <1> DEFINE r == request[c]
             o == [req |-> r, before |-> loaded[c][r.account],
                   after |-> NewBalance(c)]
  <1>1. /\ r \in CashRequests /\ r.key \in CashKeys /\ r.account \in Accounts
        /\ o \in CashRows
    BY RequestsAssumption DEF TellerInv, CashRows
  <1>2. TypeOK'
    <2>1. TablesOK'
      BY <1>1 DEF TablesOK
    <2>2. LabelsOK'
      BY DEF LabelsOK, EndSession, TellerLabels, Answers
    <2>3. SessionsOK'
      BY EndSessionOK DEF SessionsOK
    <2>4. QED
      BY <2>1, <2>2, <2>3
  <1>3. HandlerInv'
    BY DEF HandlerInv, LabelsOK, SessionsOK, Locked, Affordable, FreeKey,
           HoldsKey, EndSession
  <1>4. TellerInv'
    BY DEF TellerInv, LabelsOK, SessionsOK, EndSession
  <1>5. WorkerInv' /\ RowsRefer'
    BY DEF WorkerInv, LabelsOK, SessionsOK, RowsRefer, Sender, Receiver,
           EndSession
  <1>6. RowsAgree' /\ ClaimsAreExclusive'
    BY DEF RowsAgree, ClaimsAreExclusive, SessionsOK, EndSession
  <1>7. QED
    BY <1>2, <1>3, <1>4, <1>5, <1>6

(***************************************************************************)
(* The steps of a worker.                                                  *)
(***************************************************************************)
\* What a worker that has claimed a job knows about its rows.
LEMMA ClaimedRows ==
  ASSUME Inv, NEW w \in Workers, pc[w] \in Working
  PROVE  /\ claim[w] \in Keys
         /\ txn[claim[w]] \in TxnRows
         /\ txn[claim[w]].status = "PENDING"
         /\ txn[claim[w]].decision = "NONE"
         /\ job[claim[w]] \in JobRows
         /\ job[claim[w]].status = "PENDING"
         /\ job[claim[w]].attempts < MaxAttempts
         /\ Sender(w) \in Accounts
         /\ Receiver(w) \in Accounts
         /\ \A v \in Workers \ {w} : claim[v] # claim[w]
  <1> USE Roles DEF Inv, TypeOK, SessionsConsistent
  <1>1. claim[w] # NoRow /\ claim[w] \in Keys
    BY DEF WorkerInv, SessionsOK
  <1>2. /\ txn[claim[w]] # NoRow /\ job[claim[w]] # NoRow
        /\ job[claim[w]].status = "PENDING"
    BY <1>1 DEF ClaimsAreExclusive
  <1>3. txn[claim[w]] \in TxnRows /\ job[claim[w]] \in JobRows
    BY <1>1, <1>2 DEF TablesOK
  <1>4. /\ txn[claim[w]].status = "PENDING" /\ txn[claim[w]].decision = "NONE"
        /\ job[claim[w]].attempts < MaxAttempts
    BY <1>1, <1>2 DEF RowsAgree
  <1>5. Sender(w) \in Accounts /\ Receiver(w) \in Accounts
    BY <1>1, <1>2 DEF RowsRefer, Sender, Receiver
  <1>6. \A v \in Workers \ {w} : claim[v] # claim[w]
    BY <1>1 DEF ClaimsAreExclusive
  <1>7. QED
    BY <1>1, <1>2, <1>3, <1>4, <1>5, <1>6

LEMMA ClaimInv ==
  ASSUME Inv, NEW w \in Workers, NEW k \in Keys, Claim(w, k)
  PROVE  Inv'
  <1> USE Roles, NoRowAssumption
      DEF Inv, SessionsConsistent, TypeOK, tables, Claim, Claimable
  <1>1. TypeOK'
    BY DEF TablesOK, LabelsOK, SessionsOK, WorkerLabels
  <1>2. HandlerInv'
    BY DEF HandlerInv, LabelsOK, SessionsOK, Locked, Affordable, FreeKey,
           HoldsKey
  <1>3. TellerInv'
    BY DEF TellerInv, LabelsOK, SessionsOK
  <1>4. WorkerInv' /\ RowsRefer'
    BY DEF WorkerInv, LabelsOK, SessionsOK, RowsRefer, Sender, Receiver, Working
  <1>5. RowsAgree'
    BY DEF RowsAgree
  <1>6. ClaimsAreExclusive'
    BY DEF RowsAgree, ClaimsAreExclusive, SessionsOK
  <1>7. QED
    BY <1>1, <1>2, <1>3, <1>4, <1>5, <1>6

LEMMA LoadAccountsInv ==
  ASSUME Inv, NEW w \in Workers, LoadAccounts(w)
  PROVE  Inv'
  <1> USE Roles DEF Inv, SessionsConsistent, TypeOK, tables, LoadAccounts
  <1>1. Sender(w) \in Accounts /\ Receiver(w) \in Accounts
    BY ClaimedRows DEF Working
  <1>2. TypeOK'
    BY DEF TablesOK, LabelsOK, SessionsOK, WorkerLabels
  <1>3. HandlerInv'
    BY DEF HandlerInv, LabelsOK, SessionsOK, Locked, Affordable, FreeKey,
           HoldsKey
  <1>4. TellerInv'
    BY DEF TellerInv, LabelsOK, SessionsOK
  <1>5. WorkerInv' /\ RowsRefer'
    BY <1>1 DEF WorkerInv, TablesOK, LabelsOK, SessionsOK, RowsRefer, Sender,
                Receiver, Working
  <1>6. RowsAgree' /\ ClaimsAreExclusive'
    BY DEF RowsAgree, ClaimsAreExclusive
  <1>7. QED
    BY <1>2, <1>3, <1>4, <1>5, <1>6

\* A failed attempt leaves the job PENDING only when attempts remain.
LEMMA ScoreFailsInv ==
  ASSUME Inv, NEW w \in Workers, ScoreFails(w)
  PROVE  Inv'
  <1> USE Roles DEF Inv, SessionsConsistent, TypeOK, tables
  <1> DEFINE k == claim[w]
             n == job[k].attempts + 1
             j == [job[k] EXCEPT
                     !.status = IF n >= MaxAttempts THEN "FAILED" ELSE "PENDING",
                     !.attempts = n, !.due = n >= MaxAttempts]
  <1>1. /\ k \in Keys /\ job[k] \in JobRows /\ job[k].attempts < MaxAttempts
        /\ txn[k] # NoRow
        /\ txn[k].status = "PENDING" /\ txn[k].decision = "NONE"
        /\ \A v \in Workers \ {w} : claim[v] # k
    BY ClaimedRows, NoRowAssumption DEF Working, ScoreFails
  <1>2. /\ job' = [job EXCEPT ![k] = j]
        /\ EndSession(w, "idle")
        /\ UNCHANGED <<balance, txn, cash, clock, request>>
    BY <1>1 DEF ScoreFails, TablesOK
  <1>3. /\ j \in JobRows /\ j # NoRow /\ j.attempts = n
        /\ \/ j.status = "FAILED" /\ n = MaxAttempts
           \/ j.status = "PENDING" /\ n < MaxAttempts
    <2>1. n \in 0 .. MaxAttempts
      BY <1>1, AttemptsAssumption DEF JobRows
    <2>2. j \in JobRows
      <3> HIDE DEF n, k
      <3>1. (IF n >= MaxAttempts THEN "FAILED" ELSE "PENDING")
              \in {"PENDING", "COMPLETED", "FAILED"}
        OBVIOUS
      <3>2. (n >= MaxAttempts) \in BOOLEAN
        OBVIOUS
      <3> QED
        BY ONLY <1>1, <2>1, <3>1, <3>2, JobRowUpdated
    <2>3. /\ j.attempts = n
          /\ j.status = IF n >= MaxAttempts THEN "FAILED" ELSE "PENDING"
      BY <1>1 DEF JobRows
    <2>4. QED
      BY <2>1, <2>2, <2>3, AttemptsAssumption, NoRowAssumption
  <1> HIDE DEF j, n
  <1>4. TypeOK'
    <2>1. TablesOK'
      BY <1>1, <1>2, <1>3 DEF TablesOK
    <2>2. LabelsOK'
      BY <1>2 DEF LabelsOK, EndSession, WorkerLabels
    <2>3. SessionsOK'
      BY <1>2, EndSessionOK DEF SessionsOK
    <2>4. QED
      BY <2>1, <2>2, <2>3
  <1>5. HandlerInv'
    BY <1>2 DEF HandlerInv, LabelsOK, SessionsOK, Locked, Affordable,
                FreeKey, HoldsKey, EndSession
  <1>6. TellerInv'
    BY <1>2 DEF TellerInv, LabelsOK, SessionsOK, EndSession
  <1>7. WorkerInv' /\ RowsRefer'
    BY <1>2 DEF WorkerInv, LabelsOK, SessionsOK, RowsRefer, Sender, Receiver,
                Working, EndSession
  <1>8. RowsAgree'
    BY <1>1, <1>2, <1>3 DEF RowsAgree, TablesOK
  <1>9. ClaimsAreExclusive'
    BY <1>1, <1>2 DEF ClaimsAreExclusive, SessionsOK, TablesOK, EndSession
  <1>10. QED
    BY <1>4, <1>5, <1>6, <1>7, <1>8, <1>9

LEMMA DecideInv ==
  ASSUME Inv, NEW w \in Workers, NEW d \in {"ALLOW", "BLOCK"}, Decide(w, d)
  PROVE  Inv'
  <1> USE Roles DEF Inv, SessionsConsistent, TypeOK, tables, Decide
  <1>1. TypeOK'
    BY DEF TablesOK, LabelsOK, SessionsOK, WorkerLabels
  <1>2. HandlerInv'
    BY DEF HandlerInv, LabelsOK, SessionsOK, Locked, Affordable, FreeKey,
           HoldsKey
  <1>3. TellerInv'
    BY DEF TellerInv, LabelsOK, SessionsOK
  <1>4. WorkerInv' /\ RowsRefer'
    BY DEF WorkerInv, LabelsOK, SessionsOK, RowsRefer, Sender, Receiver, Working
  <1>5. RowsAgree' /\ ClaimsAreExclusive'
    BY DEF RowsAgree, ClaimsAreExclusive
  <1>6. QED
    BY <1>1, <1>2, <1>3, <1>4, <1>5

\* The commit of a decision: the row and its job change together, the
\* claim is given up, and no other worker has it.
LEMMA FinishInv ==
  ASSUME Inv, NEW w \in Workers, pc[w] \in Working,
         NEW decision, NEW status, Finish(w, decision, status),
         <<decision, status>> \in {<<"ALLOW", "COMPLETED">>,
                                  <<"REVIEW", "PENDING">>, <<"BLOCK", "FAILED">>},
         balance' \in [Accounts -> Balances]
  PROVE  Inv'
  <1> USE Roles DEF Inv, SessionsConsistent, TypeOK, tables
  <1> DEFINE k == claim[w]
             t == [txn[k] EXCEPT !.status = status, !.decision = decision]
             j == [job[k] EXCEPT !.status = "COMPLETED",
                                 !.attempts = job[k].attempts + 1]
  <1>1. /\ k \in Keys /\ txn[k] \in TxnRows /\ job[k] \in JobRows
        /\ txn[k] # NoRow /\ job[k].attempts < MaxAttempts
        /\ \A v \in Workers \ {w} : claim[v] # k
    BY ClaimedRows, NoRowAssumption
  <1>2. /\ txn' = [txn EXCEPT ![k] = t]
        /\ job' = [job EXCEPT ![k] = j]
        /\ EndSession(w, "idle")
        /\ UNCHANGED <<cash, clock, request>>
    BY <1>1 DEF Finish, TablesOK
  <1>3. /\ t \in TxnRows /\ t # NoRow /\ t.req = txn[k].req
        /\ t.status = status /\ t.decision = decision
    BY <1>1, NoRowAssumption DEF TxnRows, Decisions
  <1>4. j \in JobRows /\ j # NoRow /\ j.status = "COMPLETED"
    <2>1. job[k].attempts + 1 \in 0 .. MaxAttempts
      BY <1>1, AttemptsAssumption DEF JobRows
    <2>2. j \in JobRows
      BY <1>1, <2>1, JobRowUpdated
    <2>3. j.status = "COMPLETED"
      BY <1>1 DEF JobRows
    <2>4. QED
      BY <2>2, <2>3, NoRowAssumption
  <1> HIDE DEF t, j
  <1>5. TypeOK'
    <2>1. TablesOK'
      BY <1>1, <1>2, <1>3, <1>4 DEF TablesOK
    <2>2. LabelsOK'
      BY <1>2 DEF LabelsOK, EndSession, WorkerLabels
    <2>3. SessionsOK'
      BY <1>2, EndSessionOK DEF SessionsOK
    <2>4. QED
      BY <2>1, <2>2, <2>3
  <1>6. HandlerInv'
    BY <1>1, <1>2, RequestsAssumption
    DEF HandlerInv, TablesOK, LabelsOK, SessionsOK, Locked, Affordable,
        FreeKey, HoldsKey, EndSession
  <1>7. TellerInv'
    BY <1>2 DEF TellerInv, LabelsOK, SessionsOK, EndSession
  <1>8. WorkerInv'
    BY <1>1, <1>2 DEF WorkerInv, TablesOK, LabelsOK, SessionsOK, Sender,
                      Receiver, Working, EndSession
  <1>9. RowsRefer'
    BY <1>1, <1>2, <1>3 DEF RowsRefer, TablesOK
  <1>10. RowsAgree'
    BY <1>1, <1>2, <1>3, <1>4 DEF RowsAgree, TablesOK
  <1>11. ClaimsAreExclusive'
    BY <1>1, <1>2 DEF ClaimsAreExclusive, SessionsOK, TablesOK, EndSession
  <1>12. QED
    BY <1>5, <1>6, <1>7, <1>8, <1>9, <1>10, <1>11

LEMMA HoldForReviewInv ==
  ASSUME Inv, NEW w \in Workers, HoldForReview(w)
  PROVE  Inv'
  BY FinishInv DEF HoldForReview, Working, Inv, TypeOK, TablesOK

LEMMA SettleInv ==
  ASSUME Inv, NEW w \in Workers, Settle(w)
  PROVE  Inv'
  <1> USE Roles DEF Inv, SessionsConsistent, TypeOK, Settle
  <1>1. /\ Sender(w) \in Accounts /\ Receiver(w) \in Accounts
        /\ claim[w] \in Keys /\ txn[claim[w]] \in TxnRows
    BY ClaimedRows DEF Working
  <1>2. Credited(w) \in Accounts /\ loaded[w][Credited(w)] \in Balances
    BY <1>1 DEF WorkerInv, Credited
  <1>3. txn[claim[w]].req.amount \in Nat
    BY <1>1, RequestsAssumption DEF TxnRows
  <1>4. Settlement(w) \in Balances
    BY <1>2, <1>3, AccountsAssumption DEF Settlement, Balances
  <1>5. balance' \in [Accounts -> Balances]
    BY <1>2, <1>4 DEF TablesOK
  <1>6. verdict[w] \in {"ALLOW", "BLOCK"}
    BY DEF WorkerInv
  <1>7. QED
    BY <1>5, <1>6, FinishInv DEF Working

\* The row lock returns the object the session loaded before, so a worker
\* still holds some balance of each party when it settles.
LEMMA LockPartyInv ==
  ASSUME Inv, NEW w \in Workers, NEW a, NEW next,
         \/ pc[w] = "lockFirst" /\ a = LowerAccount(w) /\ next = "lockSecond"
         \/ pc[w] = "lockSecond" /\ a = HigherAccount(w) /\ next = "settle",
         SelectForUpdate(w, a), pc' = [pc EXCEPT ![w] = next],
         UNCHANGED <<tables, clock, request, claim, verdict, stamp>>
  PROVE  Inv'
  <1> USE Roles DEF Inv, SessionsConsistent, TypeOK, tables
  <1>1. Sender(w) \in Accounts /\ Receiver(w) \in Accounts
    BY ClaimedRows DEF Working
  <1>2. a \in Accounts
    BY <1>1 DEF LowerAccount, HigherAccount, SenderFirst
  <1>3. /\ loaded[w][Sender(w)] \in Balances
        /\ loaded[w][Receiver(w)] \in Balances
    BY DEF WorkerInv
  <1>4. /\ loaded' \in [Procs -> [Accounts -> Balances \cup {Unloaded}]]
        /\ loaded'[w][a] \in Balances
        /\ \A b \in Accounts \ {a} : loaded'[w][b] = loaded[w][b]
        /\ \A q \in Procs \ {w} : loaded'[q] = loaded[q]
    BY <1>2, SelectForUpdateOK
  <1>5. TypeOK'
    BY <1>4 DEF TablesOK, LabelsOK, SessionsOK, WorkerLabels
  <1>6. HandlerInv'
    BY <1>4 DEF HandlerInv, LabelsOK, SessionsOK, Locked, Affordable,
                FreeKey, HoldsKey
  <1>7. TellerInv'
    BY <1>4 DEF TellerInv, LabelsOK, SessionsOK
  <1>8. WorkerInv'
    <2>1. /\ loaded'[w][Sender(w)] \in Balances
          /\ loaded'[w][Receiver(w)] \in Balances
      BY <1>1, <1>3, <1>4
    <2>2. QED
      BY <1>4, <2>1 DEF WorkerInv, LabelsOK, SessionsOK, Sender, Receiver,
                        Working
  <1>9. RowsRefer' /\ RowsAgree' /\ ClaimsAreExclusive'
    BY DEF RowsRefer, RowsAgree, ClaimsAreExclusive
  <1>10. QED
    BY <1>5, <1>6, <1>7, <1>8, <1>9

LEMMA RestartInv ==
  ASSUME Inv, NEW w \in Workers, Restart(w)
  PROVE  Inv'
  <1> USE Roles DEF Inv, SessionsConsistent, TypeOK, tables, Restart
  <1>1. TypeOK'
    BY DEF TablesOK, LabelsOK, SessionsOK, WorkerLabels
  <1>2. HandlerInv'
    BY DEF HandlerInv, LabelsOK, SessionsOK, Locked, Affordable, FreeKey,
           HoldsKey
  <1>3. TellerInv'
    BY DEF TellerInv, LabelsOK, SessionsOK
  <1>4. WorkerInv' /\ RowsRefer'
    BY DEF WorkerInv, LabelsOK, SessionsOK, RowsRefer, Sender, Receiver, Working
  <1>5. RowsAgree' /\ ClaimsAreExclusive'
    BY DEF RowsAgree, ClaimsAreExclusive
  <1>6. QED
    BY <1>1, <1>2, <1>3, <1>4, <1>5

\* The retry delay passes: only the job's queue position changes.
LEMMA BecomeDueInv ==
  ASSUME Inv, NEW k \in Keys, BecomeDue(k)
  PROVE  Inv'
  <1> USE Roles DEF Inv, SessionsConsistent, TypeOK, tables
  <1> DEFINE j == [job[k] EXCEPT !.due = TRUE, !.at = clock + 1]
  <1>1. job[k] \in JobRows /\ clock + 1 \in Nat
    BY DEF BecomeDue, TablesOK
  <1>2. /\ job' = [job EXCEPT ![k] = j]
        /\ UNCHANGED <<balance, txn, cash, request, pc, loaded, claim,
                        verdict, stamp>>
    BY DEF BecomeDue, TablesOK
  <1>3. j \in JobRows /\ j.status = job[k].status /\ j.attempts = job[k].attempts
    BY <1>1 DEF JobRows
  <1>4. j # NoRow /\ job[k] # NoRow
    BY <1>1, <1>3, NoRowAssumption
  <1> HIDE DEF j
  <1>5. TypeOK'
    BY <1>1, <1>2, <1>3 DEF BecomeDue, TablesOK, LabelsOK, SessionsOK
  <1>6. HandlerInv' /\ TellerInv'
    BY <1>2 DEF HandlerInv, TellerInv, Affordable, FreeKey, HoldsKey
  <1>7. WorkerInv' /\ RowsRefer'
    BY <1>2 DEF WorkerInv, RowsRefer, Sender, Receiver
  <1>8. RowsAgree'
    BY <1>2, <1>3, <1>4 DEF RowsAgree, TablesOK
  <1>9. ClaimsAreExclusive'
    BY <1>2, <1>3, <1>4 DEF ClaimsAreExclusive, TablesOK
  <1>10. QED
    BY <1>5, <1>6, <1>7, <1>8, <1>9

(***************************************************************************)
(* Rollback: kills, deadlock victims, and exceptions at the flush.         *)
(***************************************************************************)
LEMMA RollBackInv ==
  ASSUME Inv, NEW p \in Procs, RollBack(p)
  PROVE  Inv'
  <1> USE Roles
  <1>1. CASE p \in Handlers \cup Tellers
    BY <1>1, AnswerInv DEF RollBack, Answers, tables, Inv, TypeOK, SessionsOK
  <1>2. CASE p \in Workers
    <2> USE <1>2 DEF Inv, SessionsConsistent, TypeOK, tables, RollBack
    <2>1. TypeOK'
      <3>1. SessionsOK'
        BY EndSessionOK DEF SessionsOK
      <3>2. LabelsOK'
        BY DEF LabelsOK, WorkerLabels, EndSession
      <3>3. QED
        BY <3>1, <3>2 DEF TablesOK
    <2>2. HandlerInv'
      BY DEF HandlerInv, LabelsOK, SessionsOK, Locked, Affordable, FreeKey,
             HoldsKey, EndSession
    <2>3. TellerInv'
      BY DEF TellerInv, LabelsOK, SessionsOK, EndSession
    <2>4. WorkerInv' /\ RowsRefer'
      BY DEF WorkerInv, LabelsOK, SessionsOK, RowsRefer, Sender, Receiver,
             Working, EndSession
    <2>5. RowsAgree' /\ ClaimsAreExclusive'
      BY DEF RowsAgree, SessionsOK, ClaimsAreExclusive, EndSession
    <2>6. QED
      BY <2>1, <2>2, <2>3, <2>4, <2>5
  <1>3. QED
    BY <1>1, <1>2

(***************************************************************************)
(* The invariant holds in every reachable state.                           *)
(***************************************************************************)
LEMMA NextInv == Inv /\ [Next]_vars => Inv'
  <1> SUFFICES ASSUME Inv, [Next]_vars PROVE Inv'
    OBVIOUS
  <1> USE Roles
  <1>1. ASSUME NEW h \in Handlers, HandlerStep(h) PROVE Inv'
    BY <1>1, LookupInv, LockSenderInv, RefuseInv, RecheckInv, ReserveInv,
       InsertTransactionInv, ReferenceReceiverInv, CommitTransferInv,
       RollBackInv
    DEF HandlerStep, UniqueViolation
  <1>2. ASSUME NEW c \in Tellers, TellerStep(c) PROVE Inv'
    BY <1>2, LookupOperationInv, LockAccountInv, AccountMissingInv,
       RefuseCashInv, CommitCashInv, RollBackInv
    DEF TellerStep, CashFlushFails
  <1>3. ASSUME NEW w \in Workers, LockLower(w) \/ LockHigher(w) PROVE Inv'
    BY <1>3, LockPartyInv DEF LockLower, LockHigher
  <1>4. ASSUME NEW w \in Workers, WorkerStep(w) PROVE Inv'
    BY <1>3, <1>4, ClaimInv, LoadAccountsInv, ScoreFailsInv, DecideInv,
       HoldForReviewInv, SettleInv, RestartInv, RollBackInv
    DEF WorkerStep, SettleOverflows
  <1>5. ASSUME NEW p \in Procs, Kill(p) \/ DeadlockVictim(p) PROVE Inv'
    BY <1>5, RollBackInv DEF Kill, DeadlockVictim
  <1>6. CASE UNCHANGED vars
    BY <1>6 DEF vars, Inv, TypeOK, TablesOK, LabelsOK, SessionsOK,
       SessionsConsistent, HandlerInv, TellerInv, WorkerInv, RowsRefer,
       RowsAgree, ClaimsAreExclusive, Affordable, FreeKey, HoldsKey, Sender,
       Receiver
  <1>7. QED
    BY <1>1, <1>2, <1>4, <1>5, <1>6, BecomeDueInv DEF Next

THEOREM InvariantHolds == Spec => []Inv
  BY InitInv, NextInv, PTL DEF Spec

\* Type correctness: balances stay within their column and above zero, and
\* a job never counts more than MaxAttempts attempts.
THEOREM TypeCorrect == Spec => []TypeOK
  <1>1. Inv => TypeOK
    BY DEF Inv
  <1>2. QED
    BY <1>1, InvariantHolds, PTL

\* In every committed state a transaction, its decision and its job agree.
THEOREM RowsAlwaysAgree == Spec => []RowsAgree
  <1>1. Inv => RowsAgree
    BY DEF Inv
  <1>2. QED
    BY <1>1, InvariantHolds, PTL

\* What the code relies on between two statements of a session holds.
THEOREM SessionsStayConsistent == Spec => []SessionsConsistent
  <1>1. Inv => SessionsConsistent
    BY DEF Inv
  <1>2. QED
    BY <1>1, InvariantHolds, PTL

\* Two workers never process one job.
THEOREM ClaimsStayExclusive == Spec => []ClaimsAreExclusive
  <1>1. Inv => ClaimsAreExclusive
    BY DEF Inv
  <1>2. QED
    BY <1>1, InvariantHolds, PTL

-----------------------------------------------------------------------------
(***************************************************************************)
(* A key makes one transaction, whoever asks and however often, and a      *)
(* decision is final.  The argument: no step changes the request of a      *)
(* committed row, only CommitTransfer and CommitCash write a new one, and  *)
(* they find none under their key; a worker changes rows only while it     *)
(* holds their job, which is then PENDING.                                 *)
(***************************************************************************)

\* What every step does to the rows.
RowsStay ==
  /\ \A k \in Keys : txn[k] # NoRow =>
       /\ txn'[k] # NoRow
       /\ txn'[k].req = txn[k].req
       /\ job[k].status # "PENDING" => txn'[k] = txn[k] /\ job'[k] = job[k]
  /\ \A q \in CashKeys : cash[q] # NoRow => cash'[q] = cash[q]

\* p takes a step to label; an answer 201 it gives is backed by a row,
\* which is new if p created it.
Serves(p, label) ==
  /\ \A q \in Procs \ {p} : pc'[q] = pc[q] /\ request'[q] = request[q]
  /\ pc'[p] = label
  /\ p \in Handlers /\ label \in {"created", "replayed"} =>
       /\ request'[p] \in Requests
       /\ txn'[request'[p].key] # NoRow
       /\ txn'[request'[p].key].req = request'[p]
       /\ label = "created" => txn[request'[p].key] = NoRow
  /\ p \in Tellers /\ label \in {"created", "replayed"} =>
       /\ request'[p] \in CashRequests
       /\ cash'[request'[p].key] # NoRow
       /\ cash'[request'[p].key].req = request'[p]
       /\ label = "created" => cash[request'[p].key] = NoRow

\* ExactlyOnce, and that an answer 201 is given to a request of its kind.
OnceInv ==
  /\ ExactlyOnce
  /\ \A h \in Handlers : pc[h] \in {"created", "replayed"} =>
       request[h] \in Requests
  /\ \A c \in Tellers : pc[c] \in {"created", "replayed"} =>
       request[c] \in CashRequests

LEMMA ServesSuffices ==
  ASSUME OnceInv, RowsStay, NEW p \in Procs, NEW label, Serves(p, label)
  PROVE  OnceInv'
  <1> USE Roles, RequestsAssumption
      DEF OnceInv, ExactlyOnce, RowsStay, Serves, Matches
  <1>1. ASSUME NEW h \in Handlers, pc'[h] \in {"created", "replayed"}
        PROVE  /\ request'[h] \in Requests
               /\ txn'[request'[h].key] # NoRow
               /\ txn'[request'[h].key].req = request'[h]
    BY <1>1
  <1>2. ASSUME NEW c \in Tellers, pc'[c] \in {"created", "replayed"}
        PROVE  /\ request'[c] \in CashRequests
               /\ cash'[request'[c].key] # NoRow
               /\ cash'[request'[c].key].req = request'[c]
    BY <1>2
  <1>3. ASSUME NEW g \in Handlers, NEW h \in Handlers, g # h,
               pc'[g] = "created", pc'[h] = "created"
        PROVE  request'[g].key # request'[h].key
    BY <1>3
  <1>4. ASSUME NEW b \in Tellers, NEW c \in Tellers, b # c,
               pc'[b] = "created", pc'[c] = "created"
        PROVE  request'[b].key # request'[c].key
    BY <1>4
  <1>5. QED
    BY <1>1, <1>2, <1>3, <1>4

LEMMA HandlerRows ==
  ASSUME Inv, NEW h \in Handlers, HandlerStep(h)
  PROVE  RowsStay /\ \E label : Serves(h, label)
  <1> USE Roles DEF Inv, TypeOK, tables
  <1>1. ASSUME NEW r \in Requests, Lookup(h, r)
        PROVE  RowsStay /\ \E label : Serves(h, label)
    <2>1. RowsStay
      BY <1>1 DEF Lookup, AnswerExisting, Answer, RowsStay
    <2>2. /\ request'[h] = r
          /\ \A q \in Procs \ {h} : request'[q] = request[q]
      BY <1>1 DEF Lookup, SessionsOK
    <2>3. CASE txn[r.key] # NoRow /\ AnswerExisting(h, r)
      <3>1. PICK label \in {"replayed", "conflict"} :
              /\ Answer(h, label)
              /\ label = "replayed" => txn[r.key].req = r
        BY <2>3 DEF AnswerExisting, Matches
      <3>2. Serves(h, label)
        BY <2>2, <2>3, <3>1 DEF Answer, EndSession, Serves, LabelsOK
      <3>3. QED
        BY <2>1, <3>2
    <2>4. CASE Answer(h, "notFound")
      <3>1. Serves(h, "notFound")
        BY <2>2, <2>4 DEF Answer, EndSession, Serves, LabelsOK
      <3>2. QED
        BY <2>1, <3>1
    <2>5. CASE pc' = [pc EXCEPT ![h] = "lockSender"]
      <3>1. Serves(h, "lockSender")
        BY <2>2, <2>5 DEF Serves, LabelsOK
      <3>2. QED
        BY <2>1, <3>1
    <2>6. QED
      BY <1>1, <2>3, <2>4, <2>5 DEF Lookup, AnswerExisting
  <1>2. CASE LockSender(h) \/ Reserve(h) \/ InsertTransaction(h)
               \/ ReferenceReceiver(h)
    <2>1. /\ UNCHANGED <<txn, job, cash, request>>
          /\ \E label \in {"validate", "insert", "reference", "commit"} :
               pc' = [pc EXCEPT ![h] = label]
      BY <1>2 DEF LockSender, Reserve, InsertTransaction, ReferenceReceiver,
                  Proceed
    <2>2. PICK label \in {"validate", "insert", "reference", "commit"} :
            pc' = [pc EXCEPT ![h] = label]
      BY <2>1
    <2>3. Serves(h, label)
      BY <2>1, <2>2 DEF Serves, LabelsOK
    <2>4. QED
      BY <2>1, <2>3 DEF RowsStay
  <1>3. CASE Refuse(h) \/ UniqueViolation(h)
    <2>1. /\ UNCHANGED <<txn, job, cash, request>>
          /\ \E label \in {"notFound", "invalid", "insufficient", "error"} :
               pc' = [pc EXCEPT ![h] = label]
      BY <1>3 DEF Refuse, UniqueViolation, Answer, RollBack, EndSession
    <2>2. PICK label \in {"notFound", "invalid", "insufficient", "error"} :
            pc' = [pc EXCEPT ![h] = label]
      BY <2>1
    <2>3. Serves(h, label)
      BY <2>1, <2>2 DEF Serves, LabelsOK
    <2>4. QED
      BY <2>1, <2>3 DEF RowsStay
  <1>4. CASE Recheck(h)
    <2> DEFINE r == request[h]
    <2>1. r \in Requests
      BY <1>4 DEF Recheck, SessionsConsistent, HandlerInv, Locked
    <2>2. PICK label \in {"replayed", "conflict"} :
            /\ Answer(h, label)
            /\ label = "replayed" => txn[r.key].req = r
      BY <1>4 DEF Recheck, AnswerExisting, Matches
    <2>3. Serves(h, label)
      BY <1>4, <2>1, <2>2
      DEF Recheck, AnswerExisting, Answer, EndSession, Serves, LabelsOK
    <2>4. QED
      BY <2>2, <2>3 DEF Answer, RowsStay
  <1>5. CASE CommitTransfer(h)
    <2> DEFINE r == request[h]
    <2>1. r \in Requests /\ r.key \in Keys /\ txn[r.key] = NoRow
      BY <1>5, RequestsAssumption
      DEF CommitTransfer, SessionsConsistent, HandlerInv, Locked
    <2>2. /\ txn'[r.key] = [req |-> r, status |-> "PENDING", decision |-> "NONE"]
          /\ \A k \in Keys : k # r.key => txn'[k] = txn[k] /\ job'[k] = job[k]
      BY <1>5, <2>1 DEF CommitTransfer, TablesOK
    <2>3. [req |-> r, status |-> "PENDING", decision |-> "NONE"] # NoRow
      BY <2>1, NoRowAssumption DEF TxnRows
    <2>4. RowsStay
      BY <1>5, <2>1, <2>2 DEF RowsStay, CommitTransfer
    <2>5. Serves(h, "created")
      BY <1>5, <2>1, <2>2, <2>3
      DEF CommitTransfer, EndSession, Serves, LabelsOK
    <2>6. QED
      BY <2>4, <2>5
  <1>6. QED
    BY <1>1, <1>2, <1>3, <1>4, <1>5 DEF HandlerStep

LEMMA TellerRows ==
  ASSUME Inv, NEW c \in Tellers, TellerStep(c)
  PROVE  RowsStay /\ \E label : Serves(c, label)
  <1> USE Roles DEF Inv, TypeOK, tables
  <1>1. ASSUME NEW r \in CashRequests, LookupOperation(c, r)
        PROVE  RowsStay /\ \E label : Serves(c, label)
    <2>1. RowsStay
      BY <1>1 DEF LookupOperation, RowsStay
    <2>2. /\ request'[c] = r
          /\ \A q \in Procs \ {c} : request'[q] = request[q]
          /\ UNCHANGED cash
      BY <1>1 DEF LookupOperation, SessionsOK
    <2>3. PICK label \in {"replayed", "conflict", "lockAccount"} :
            /\ pc' = [pc EXCEPT ![c] = label]
            /\ label = "replayed" => cash[r.key] # NoRow /\ cash[r.key].req = r
      BY <1>1 DEF LookupOperation, EndSession
    <2>4. Serves(c, label)
      BY <2>2, <2>3 DEF Serves, LabelsOK
    <2>5. QED
      BY <2>1, <2>4
  <1>2. CASE LockAccount(c) \/ AccountMissing(c) \/ RefuseCash(c)
               \/ CashFlushFails(c)
    <2>1. /\ UNCHANGED <<txn, job, cash, request>>
          /\ \E label \in {"apply", "notFound", "invalid", "insufficient",
                           "error"} : pc' = [pc EXCEPT ![c] = label]
      BY <1>2 DEF LockAccount, AccountMissing, RefuseCash, CashFlushFails,
                  RollBack, EndSession
    <2>2. PICK label \in {"apply", "notFound", "invalid", "insufficient",
                          "error"} : pc' = [pc EXCEPT ![c] = label]
      BY <2>1
    <2>3. Serves(c, label)
      BY <2>1, <2>2 DEF Serves, LabelsOK
    <2>4. QED
      BY <2>1, <2>3 DEF RowsStay
  <1>3. CASE CommitCash(c)
    <2> DEFINE r == request[c]
               o == [req |-> r, before |-> loaded[c][r.account],
                     after |-> NewBalance(c)]
    <2>1. /\ r \in CashRequests /\ r.key \in CashKeys /\ cash[r.key] = NoRow
          /\ loaded[c][r.account] \in Balances
      BY <1>3, RequestsAssumption
      DEF CommitCash, SessionsConsistent, TellerInv
    <2>2. /\ cash'[r.key] = o
          /\ \A q \in CashKeys : q # r.key => cash'[q] = cash[q]
      BY <1>3, <2>1 DEF CommitCash, TablesOK
    <2>3. o # NoRow
      <3>1. o \in CashRows
        BY <1>3, <2>1 DEF CommitCash, CashRows
      <3>2. QED
        BY <3>1, NoRowAssumption
    <2>4. RowsStay
      BY <1>3, <2>1, <2>2 DEF RowsStay, CommitCash
    <2>5. Serves(c, "created")
      BY <1>3, <2>1, <2>2, <2>3 DEF CommitCash, EndSession, Serves, LabelsOK
    <2>6. QED
      BY <2>4, <2>5
  <1>4. QED
    BY <1>1, <1>2, <1>3 DEF TellerStep

LEMMA WorkerRows ==
  ASSUME Inv, NEW w \in Workers, WorkerStep(w)
  PROVE  RowsStay /\ \E label : Serves(w, label)
  <1> USE Roles DEF Inv, TypeOK, tables
  <1> DEFINE Labels == {"idle", "load", "score", "lockFirst", "lockSecond",
                        "settle", "down"}
  <1>1. /\ UNCHANGED <<cash, request>>
        /\ \E label \in Labels : pc' = [pc EXCEPT ![w] = label]
    BY DEF WorkerStep, Claim, LoadAccounts, ScoreFails, Decide, HoldForReview,
           LockLower, LockHigher, Settle, SettleOverflows, Restart, Finish,
           RollBack, EndSession
  <1>2. \E label : Serves(w, label)
    <2>1. PICK label \in Labels : pc' = [pc EXCEPT ![w] = label]
      BY <1>1
    <2>2. Serves(w, label)
      BY <1>1, <2>1 DEF Serves, LabelsOK
    <2>3. QED
      BY <2>2
  <1>3. CASE UNCHANGED <<txn, job>>
    BY <1>1, <1>2, <1>3 DEF RowsStay
  <1>4. CASE ScoreFails(w) \/ HoldForReview(w) \/ Settle(w)
    <2> DEFINE k == claim[w]
    <2>1. /\ k \in Keys /\ txn[k] \in TxnRows /\ job[k] \in JobRows
          /\ job[k].status = "PENDING"
      BY <1>4, ClaimedRows DEF ScoreFails, HoldForReview, Settle, Working
    <2>2. \A j \in Keys : j # k => txn'[j] = txn[j] /\ job'[j] = job[j]
      BY <1>4, <2>1 DEF ScoreFails, HoldForReview, Settle, Finish, TablesOK
    <2>3. txn'[k] # NoRow
      <3>1. CASE ScoreFails(w)
        BY <2>1, <3>1, NoRowAssumption DEF ScoreFails
      <3>2. CASE HoldForReview(w) \/ Settle(w)
        <4>1. \E t \in {"PENDING", "COMPLETED", "FAILED"}, d \in Decisions :
                txn' = [txn EXCEPT ![k].status = t, ![k].decision = d]
          BY <1>4, <3>2, <2>1
          DEF HoldForReview, Settle, Finish, Decisions, SessionsConsistent,
              WorkerInv
        <4>2. txn'[k] \in TxnRows
          <5>1. PICK t \in {"PENDING", "COMPLETED", "FAILED"}, d \in Decisions :
                  txn' = [txn EXCEPT ![k].status = t, ![k].decision = d]
            BY <4>1
          <5>2. txn'[k] = [txn[k] EXCEPT !.status = t, !.decision = d]
            BY <2>1, <5>1 DEF TablesOK
          <5>3. QED
            BY <2>1, <5>2 DEF TxnRows
        <4>3. QED
          BY <4>2, NoRowAssumption
      <3>3. QED
        BY <1>4, <3>1, <3>2
    <2>4. txn'[k].req = txn[k].req
      BY <1>4, <2>1 DEF ScoreFails, HoldForReview, Settle, Finish, TablesOK,
                        TxnRows
    <2>5. QED
      BY <1>1, <1>2, <2>1, <2>2, <2>3, <2>4 DEF RowsStay
  <1>5. QED
    BY <1>2, <1>3, <1>4 DEF WorkerStep, Claim, LoadAccounts, Decide, LockLower,
                            LockHigher, SettleOverflows, Restart, RollBack

LEMMA NextRows ==
  ASSUME Inv, [Next]_vars
  PROVE  RowsStay /\ (OnceInv => OnceInv')
  <1> USE Roles
  <1>1. ASSUME NEW p \in Procs, NEW label, RowsStay, Serves(p, label)
        PROVE  RowsStay /\ (OnceInv => OnceInv')
    BY <1>1, ServesSuffices
  <1>2. ASSUME NEW p \in Procs, RollBack(p)
        PROVE  RowsStay /\ \E label : Serves(p, label)
    <2> DEFINE label == IF p \in Workers THEN "down" ELSE "error"
    <2>1. Serves(p, label)
      BY <1>2 DEF RollBack, EndSession, Serves, Inv, TypeOK, LabelsOK
    <2>2. RowsStay
      BY <1>2 DEF RollBack, RowsStay, tables
    <2>3. QED
      BY <2>1, <2>2
  <1>3. ASSUME NEW k \in Keys, BecomeDue(k)
        PROVE  RowsStay /\ (OnceInv => OnceInv')
    <2>1. RowsStay
      BY <1>3 DEF BecomeDue, RowsStay, Inv, TypeOK, TablesOK
    <2>2. OnceInv => OnceInv'
      BY <1>3 DEF BecomeDue, OnceInv, ExactlyOnce, Matches
    <2>3. QED
      BY <2>1, <2>2
  <1>4. CASE UNCHANGED vars
    BY <1>4 DEF vars, RowsStay, OnceInv, ExactlyOnce, Matches
  <1>5. QED
    BY <1>1, <1>2, <1>3, <1>4, HandlerRows, TellerRows, WorkerRows
    DEF Next, Kill, DeadlockVictim

(***************************************************************************)
(* The theorems.                                                           *)
(***************************************************************************)
\* A request answered 201 has its transaction, and one request per key
\* created it.
THEOREM ExactlyOnceHolds == Spec => []ExactlyOnce
  <1>1. Init => OnceInv
    BY Roles DEF Init, StoreInit, OnceInv, ExactlyOnce
  <1>2. Inv /\ OnceInv /\ [Next]_vars => OnceInv'
    BY NextRows
  <1>3. OnceInv => ExactlyOnce
    BY DEF OnceInv
  <1>4. QED
    BY <1>1, <1>2, <1>3, InvariantHolds, PTL DEF Spec

\* A decision, and a job that is over, never change again.
THEOREM DecisionsAreFinal == Spec => SettledOnce
  <1>1. Inv /\ [Next]_vars =>
          [\A k \in Keys : txn[k] # NoRow =>
             /\ txn'[k] # NoRow /\ txn'[k].req = txn[k].req
             /\ job[k].status # "PENDING" =>
                  txn'[k] = txn[k] /\ job'[k] = job[k]]_vars
    BY NextRows DEF RowsStay
  <1>2. QED
    BY <1>1, InvariantHolds, PTL DEF Spec, SettledOnce

-------------------------------------------------------------------------------
(***************************************************************************)
(* Row locks exclude each other, and what a handler or a teller decides    *)
(* and writes under its lock is computed from the committed balance.  The  *)
(* argument: every step is made by one process p that keeps the locking    *)
(* discipline below, and the discipline preserves both properties.         *)
(***************************************************************************)

LockInv == LocksExclude /\ LockedReadIsFresh

\* What one process does to the sessions, and that rows keep their request.
OthersKeep(p) ==
  /\ \A q \in Procs \ {p} : /\ pc'[q] = pc[q]
                            /\ request'[q] = request[q]
                            /\ claim'[q] = claim[q]
                            /\ loaded'[q] = loaded[q]
  /\ \A k \in Keys : txn[k] # NoRow => txn'[k].req = txn[k].req

\* p gains a lock only when nobody holds a conflicting one, writes only
\* balances it has locked, and in the two services has the committed
\* balance of every account it holds.
Discipline(p) ==
  /\ OthersKeep(p)
  /\ \A a \in Accounts :
       /\ HoldsUpdate(p, a)' => HoldsUpdate(p, a) \/ FreeForUpdate(p, a)
       /\ HoldsKeyShare(p, a)' => HoldsKeyShare(p, a) \/ FreeForKeyShare(p, a)
       /\ balance'[a] # balance[a] => HoldsUpdate(p, a)
       /\ p \in Handlers \cup Tellers /\ HoldsUpdate(p, a)' =>
            loaded'[p][a] = balance'[a]

\* A process that takes no step keeps its locks.
LEMMA OthersHold ==
  ASSUME Inv, NEW p \in Procs, OthersKeep(p), NEW q \in Procs \ {p},
         NEW a \in Accounts
  PROVE  /\ HoldsUpdate(q, a)' <=> HoldsUpdate(q, a)
         /\ HoldsKeyShare(q, a)' <=> HoldsKeyShare(q, a)
  <1> USE Roles DEF Inv, TypeOK, OthersKeep
  <1>1. CASE q \in Workers /\ pc[q] \in Working
    <2>1. claim[q] \in Keys /\ txn[claim[q]] # NoRow
      BY <1>1, ClaimedRows, NoRowAssumption
    <2>2. Sender(q)' = Sender(q) /\ Receiver(q)' = Receiver(q)
      BY <2>1 DEF Sender, Receiver
    <2>3. QED
      BY <2>2 DEF HoldsUpdate, HoldsKeyShare, LowerAccount, SenderFirst
  <1>2. CASE ~(q \in Workers /\ pc[q] \in Working)
    <2>1. pc[q] \notin {"lockSecond", "settle"}
      BY <1>2 DEF LabelsOK, HandlerLabels, TellerLabels, Working, Answers
    <2>2. QED
      BY <2>1 DEF HoldsUpdate, HoldsKeyShare
  <1>3. QED
    BY <1>1, <1>2

LEMMA DisciplineSuffices ==
  ASSUME Inv, LockInv, NEW p \in Procs, Discipline(p)
  PROVE  LockInv'
  <1> USE Roles DEF LockInv, Discipline
  <1>1. LocksExclude'
    <2> SUFFICES ASSUME NEW q \in Procs, NEW r \in Procs, NEW a \in Accounts,
                        q # r, HoldsUpdate(q, a)'
                 PROVE  ~HoldsUpdate(r, a)' /\ ~HoldsKeyShare(r, a)'
      BY DEF LocksExclude
    <2>1. CASE q = p
      BY <2>1, OthersHold DEF LocksExclude, FreeForUpdate
    <2>2. CASE r = p
      BY <2>2, OthersHold DEF LocksExclude, FreeForUpdate, FreeForKeyShare
    <2>3. CASE q # p /\ r # p
      BY <2>3, OthersHold DEF LocksExclude
    <2>4. QED
      BY <2>1, <2>2, <2>3
  <1>2. LockedReadIsFresh'
    <2> SUFFICES ASSUME NEW q \in Handlers \cup Tellers, NEW a \in Accounts,
                        HoldsUpdate(q, a)', q # p
                 PROVE  loaded'[q][a] = balance'[a]
      BY DEF LockedReadIsFresh
    <2>1. HoldsUpdate(q, a)
      BY OthersHold
    <2>2. balance'[a] = balance[a]
      BY <2>1 DEF LocksExclude
    <2>3. QED
      BY <2>1, <2>2 DEF LockedReadIsFresh, OthersKeep
  <1>3. QED
    BY <1>1, <1>2

(***************************************************************************)
(* Each step keeps the discipline.                                         *)
(***************************************************************************)
\* A session that ends, whatever it wrote to accounts it had locked.
LEMMA EndDiscipline ==
  ASSUME Inv, NEW p \in Procs, NEW label \in AtRest, EndSession(p, label),
         \A q \in Procs \ {p} : request'[q] = request[q],
         \A k \in Keys : txn[k] # NoRow => txn'[k].req = txn[k].req,
         \A a \in Accounts : balance'[a] # balance[a] => HoldsUpdate(p, a)
  PROVE  Discipline(p)
  <1>1. pc'[p] = label
    BY DEF EndSession, Inv, TypeOK, LabelsOK
  <1>2. \A a : ~HoldsUpdate(p, a)' /\ ~HoldsKeyShare(p, a)'
    BY <1>1 DEF HoldsUpdate, HoldsKeyShare, AtRest, Answers
  <1>3. OthersKeep(p)
    BY DEF OthersKeep, EndSession, Inv, TypeOK, LabelsOK, SessionsOK
  <1>4. QED
    BY <1>2, <1>3 DEF Discipline

LEMMA HandlerDiscipline ==
  ASSUME Inv, LockInv, NEW h \in Handlers, HandlerStep(h)
  PROVE  Discipline(h)
  <1> USE Roles DEF Inv, TypeOK, tables
  <1>1. ASSUME NEW r \in Requests, Lookup(h, r) PROVE Discipline(h)
    <2>1. CASE \E label \in Answers : Answer(h, label)
      BY <1>1, <2>1, EndDiscipline DEF Lookup, Answer, AtRest, SessionsOK
    <2>2. CASE /\ pc' = [pc EXCEPT ![h] = "lockSender"]
               /\ UNCHANGED <<tables, clock, loaded, claim, verdict, stamp>>
      BY <1>1, <2>2 DEF Lookup, Discipline, OthersKeep, HoldsUpdate,
                        HoldsKeyShare, LabelsOK, SessionsOK
    <2>3. QED
      BY <1>1, <2>1, <2>2 DEF Lookup, AnswerExisting, Answers
  <1>2. CASE LockSender(h)
    <2> DEFINE s == request[h].sender
    <2>1. s \in Accounts /\ loaded[h] = NothingLoaded
      BY <1>2 DEF LockSender, SessionsConsistent, HandlerInv
    <2>2. SelectForUpdate(h, s)
      BY <1>2 DEF LockSender
    <2>3. loaded'[h][s] = balance[s]
      <3>1. loaded[h][s] = Unloaded
        BY <2>1 DEF NothingLoaded
      <3>2. loaded' = [loaded EXCEPT ![h][s] = balance[s]]
        BY <2>2, <3>1 DEF SelectForUpdate
      <3>3. QED
        BY <2>1, <3>2 DEF SessionsOK
    <2>4. FreeForUpdate(h, s)
      BY <2>2 DEF SelectForUpdate
    <2>5. OthersKeep(h)
      BY <1>2 DEF LockSender, Proceed, SelectForUpdate, OthersKeep, LabelsOK,
                  SessionsOK
    <2>6. QED
      BY <1>2, <2>3, <2>4, <2>5 DEF LockSender, Proceed, Discipline, HoldsUpdate,
                              HoldsKeyShare, LabelsOK
  <1>3. CASE Refuse(h) \/ Recheck(h)
    <2>1. \E label \in Answers : Answer(h, label)
      BY <1>3 DEF Refuse, Recheck, AnswerExisting, Answers
    <2>2. QED
      BY <1>3, <2>1, EndDiscipline DEF Refuse, Recheck, Answer, AtRest
  <1>4. CASE Reserve(h) \/ InsertTransaction(h) \/ ReferenceReceiver(h)
    <2>1. /\ UNCHANGED <<balance, txn, request, loaded, claim>>
          /\ \E label \in {"insert", "reference", "commit"} :
               pc' = [pc EXCEPT ![h] = label]
          /\ pc[h] \in {"validate", "insert", "reference"}
      BY <1>4 DEF Reserve, InsertTransaction, ReferenceReceiver, Proceed
    <2>2. OthersKeep(h)
      BY <2>1 DEF OthersKeep, LabelsOK
    <2>3. \A a : HoldsUpdate(h, a)' => HoldsUpdate(h, a)
      BY <2>1 DEF HoldsUpdate, LabelsOK
    <2>4. \A a : HoldsKeyShare(h, a)' => FreeForKeyShare(h, a)
      BY <1>4 DEF Reserve, InsertTransaction, ReferenceReceiver, Proceed,
                  HoldsKeyShare, LabelsOK
    <2>5. QED
      BY <2>1, <2>2, <2>3, <2>4 DEF Discipline, LockInv, LockedReadIsFresh
  <1>5. CASE UniqueViolation(h)
    BY <1>5, EndDiscipline DEF UniqueViolation, RollBack, AtRest, Answers
  <1>6. CASE CommitTransfer(h)
    <2> DEFINE r == request[h]
    <2>1. HoldsUpdate(h, r.sender)
      BY <1>6 DEF CommitTransfer, HoldsUpdate
    <2>2. r.key \in Keys /\ txn[r.key] = NoRow
      BY <1>6, RequestsAssumption
      DEF CommitTransfer, SessionsConsistent, HandlerInv, Locked
    <2>3. \A k \in Keys : txn[k] # NoRow => txn'[k].req = txn[k].req
      BY <1>6, <2>2 DEF CommitTransfer, TablesOK
    <2>4. \A a \in Accounts : balance'[a] # balance[a] => HoldsUpdate(h, a)
      BY <1>6, <2>1 DEF CommitTransfer, TablesOK
    <2>5. QED
      BY <1>6, <2>3, <2>4, EndDiscipline DEF CommitTransfer, AtRest, Answers
  <1>7. QED
    BY <1>1, <1>2, <1>3, <1>4, <1>5, <1>6 DEF HandlerStep

LEMMA TellerDiscipline ==
  ASSUME Inv, LockInv, NEW c \in Tellers, TellerStep(c)
  PROVE  Discipline(c)
  <1> USE Roles DEF Inv, TypeOK, tables
  <1>1. ASSUME NEW r \in CashRequests, LookupOperation(c, r)
        PROVE  Discipline(c)
    <2>1. CASE \E label \in Answers : EndSession(c, label)
      BY <1>1, <2>1, EndDiscipline DEF LookupOperation, AtRest, SessionsOK
    <2>2. CASE pc' = [pc EXCEPT ![c] = "lockAccount"]
               /\ UNCHANGED <<loaded, claim, verdict, stamp>>
      BY <1>1, <2>2 DEF LookupOperation, Discipline, OthersKeep, HoldsUpdate,
                        HoldsKeyShare, LabelsOK, SessionsOK
    <2>3. QED
      BY <1>1, <2>1, <2>2 DEF LookupOperation, Answers
  <1>2. CASE LockAccount(c)
    <2> DEFINE s == request[c].account
    <2>1. s \in Accounts /\ loaded[c] = NothingLoaded
      BY <1>2 DEF LockAccount, SessionsConsistent, TellerInv
    <2>2. SelectForUpdate(c, s)
      BY <1>2 DEF LockAccount
    <2>3. loaded'[c][s] = balance[s]
      <3>1. loaded[c][s] = Unloaded
        BY <2>1 DEF NothingLoaded
      <3>2. loaded' = [loaded EXCEPT ![c][s] = balance[s]]
        BY <2>2, <3>1 DEF SelectForUpdate
      <3>3. QED
        BY <2>1, <3>2 DEF SessionsOK
    <2>4. FreeForUpdate(c, s)
      BY <2>2 DEF SelectForUpdate
    <2>5. OthersKeep(c)
      BY <1>2 DEF LockAccount, SelectForUpdate, OthersKeep, LabelsOK,
                  SessionsOK
    <2>6. QED
      BY <1>2, <2>3, <2>4, <2>5 DEF LockAccount, Discipline, HoldsUpdate,
                              HoldsKeyShare, LabelsOK
  <1>3. CASE AccountMissing(c) \/ RefuseCash(c) \/ CashFlushFails(c)
    <2>1. \E label \in Answers : EndSession(c, label)
      BY <1>3 DEF AccountMissing, RefuseCash, CashFlushFails, RollBack, Answers
    <2>2. QED
      BY <1>3, <2>1, EndDiscipline
      DEF AccountMissing, RefuseCash, CashFlushFails, RollBack, AtRest
  <1>4. CASE CommitCash(c)
    <2>1. \A a \in Accounts : balance'[a] # balance[a] => HoldsUpdate(c, a)
      BY <1>4 DEF CommitCash, HoldsUpdate, TablesOK
    <2>2. QED
      BY <1>4, <2>1, EndDiscipline DEF CommitCash, AtRest, Answers
  <1>5. QED
    BY <1>1, <1>2, <1>3, <1>4 DEF TellerStep

LEMMA WorkerDiscipline ==
  ASSUME Inv, NEW w \in Workers, WorkerStep(w)
  PROVE  Discipline(w)
  <1> USE Roles DEF Inv, TypeOK, tables
  <1>1. CASE \/ \E k \in Keys : Claim(w, k)
             \/ LoadAccounts(w)
             \/ \E d \in {"ALLOW", "BLOCK"} : Decide(w, d)
             \/ Restart(w)
    <2>1. /\ UNCHANGED <<balance, txn, request>>
          /\ \E label \in {"load", "score", "lockFirst", "idle"} :
               pc' = [pc EXCEPT ![w] = label]
      BY <1>1 DEF Claim, LoadAccounts, Decide, Restart
    <2>2. OthersKeep(w)
      BY <1>1, <2>1 DEF Claim, LoadAccounts, Decide, Restart, OthersKeep,
                        LabelsOK, SessionsOK
    <2>3. \A a : ~HoldsUpdate(w, a)' /\ ~HoldsKeyShare(w, a)'
      BY <2>1 DEF HoldsUpdate, HoldsKeyShare, LabelsOK
    <2>4. QED
      BY <2>1, <2>2, <2>3 DEF Discipline
  <1>2. CASE LockLower(w) \/ LockHigher(w)
    <2>1. /\ UNCHANGED <<balance, txn, request, claim>>
          /\ \E a : SelectForUpdate(w, a)
          /\ \/ /\ pc' = [pc EXCEPT ![w] = "lockSecond"]
                /\ FreeForUpdate(w, LowerAccount(w))
             \/ /\ pc[w] = "lockSecond"
                /\ pc' = [pc EXCEPT ![w] = "settle"]
                /\ FreeForUpdate(w, HigherAccount(w))
      BY <1>2 DEF LockLower, LockHigher, SelectForUpdate
    <2>2. OthersKeep(w)
      BY <2>1 DEF OthersKeep, SelectForUpdate, LabelsOK, SessionsOK
    <2>3. Sender(w)' = Sender(w) /\ Receiver(w)' = Receiver(w)
      BY <2>1 DEF Sender, Receiver
    <2>4. \A a : HoldsUpdate(w, a)' => HoldsUpdate(w, a) \/ FreeForUpdate(w, a)
      BY <2>1, <2>3 DEF HoldsUpdate, LowerAccount, HigherAccount, SenderFirst,
                        LabelsOK
    <2>5. \A a : ~HoldsKeyShare(w, a)'
      BY <2>1 DEF HoldsKeyShare, LabelsOK
    <2>6. QED
      BY <2>1, <2>2, <2>4, <2>5 DEF Discipline
  <1>3. CASE ScoreFails(w) \/ SettleOverflows(w)
    <2>1. \E label \in AtRest : EndSession(w, label)
      BY <1>3 DEF ScoreFails, SettleOverflows, RollBack, AtRest
    <2>2. QED
      BY <1>3, <2>1, EndDiscipline DEF ScoreFails, SettleOverflows, RollBack
  <1>4. CASE HoldForReview(w) \/ Settle(w)
    <2>1. claim[w] \in Keys /\ txn[claim[w]] \in TxnRows
      BY <1>4, ClaimedRows DEF HoldForReview, Settle, Working
    <2>2. /\ EndSession(w, "idle") /\ request' = request
          /\ \E t, d : txn' = [txn EXCEPT ![claim[w]].status = t,
                                          ![claim[w]].decision = d]
      BY <1>4 DEF HoldForReview, Settle, Finish
    <2>3. \A k \in Keys : txn[k] # NoRow => txn'[k].req = txn[k].req
      BY <2>1, <2>2 DEF TablesOK, TxnRows
    <2>4. \A a \in Accounts : balance'[a] # balance[a] => HoldsUpdate(w, a)
      BY <1>4 DEF HoldForReview, Settle, Credited, HoldsUpdate, TablesOK
    <2>5. QED
      BY <2>2, <2>3, <2>4, EndDiscipline DEF AtRest
  <1>5. QED
    BY <1>1, <1>2, <1>3, <1>4 DEF WorkerStep

(***************************************************************************)
(* The theorems.                                                           *)
(***************************************************************************)
LEMMA InitLockInv == Init => LockInv
  BY Roles DEF Init, StoreInit, LockInv, LocksExclude, LockedReadIsFresh,
               HoldsUpdate, HoldsKeyShare

LEMMA NextLockInv == Inv /\ LockInv /\ [Next]_vars => LockInv'
  <1> SUFFICES ASSUME Inv, LockInv, [Next]_vars PROVE LockInv'
    OBVIOUS
  <1>1. CASE \E p \in Procs : Discipline(p)
    BY <1>1, DisciplineSuffices
  <1>2. ASSUME NEW p \in Procs, RollBack(p) PROVE Discipline(p)
    BY <1>2, EndDiscipline DEF RollBack, AtRest, Answers, tables
  <1>3. CASE \/ \E k \in Keys : BecomeDue(k)
             \/ UNCHANGED vars
    <2>1. UNCHANGED <<balance, txn, request, pc, loaded, claim>>
      BY <1>3 DEF BecomeDue, vars
    <2>2. QED
      BY <2>1 DEF LockInv, LocksExclude, LockedReadIsFresh, HoldsUpdate,
                  HoldsKeyShare, LowerAccount, SenderFirst, Sender, Receiver
  <1>4. QED
    BY <1>1, <1>2, <1>3, Roles, HandlerDiscipline, TellerDiscipline,
       WorkerDiscipline
    DEF Next, Kill, DeadlockVictim

LEMMA LockInvHolds == Spec => []LockInv
  BY InitLockInv, NextLockInv, InvariantHolds, PTL DEF Spec

\* No account is locked by two processes at once.
THEOREM LocksAlwaysExclude == Spec => []LocksExclude
  <1>1. LockInv => LocksExclude
    BY DEF LockInv
  <1>2. QED
    BY <1>1, LockInvHolds, PTL

\* The two services never decide or write from a stale balance, whatever
\* the workers and the other services do.
THEOREM LockedReadsAreFresh == Spec => []LockedReadIsFresh
  <1>1. LockInv => LockedReadIsFresh
    BY DEF LockInv
  <1>2. QED
    BY <1>1, LockInvHolds, PTL

\* A cash operation's audit row holds the committed balances around it.
THEOREM CashAuditIsTrue == Spec => CashAuditMatchesBalance
  <1> DEFINE Audit == \A q \in CashKeys : cash'[q] # cash[q] =>
               /\ cash[q] = NoRow
               /\ cash'[q].before = balance[cash'[q].req.account]
               /\ cash'[q].after = balance'[cash'[q].req.account]
  <1>1. Inv /\ LockInv /\ [Next]_vars => [Audit]_vars
    <2> SUFFICES ASSUME Inv, LockInv, Next PROVE Audit
      OBVIOUS
    <2>1. ASSUME NEW c \in Tellers, CommitCash(c) PROVE Audit
      <3> DEFINE r == request[c]
      <3>1. r \in CashRequests /\ r.account \in Accounts /\ r.key \in CashKeys
        BY <2>1, RequestsAssumption
        DEF CommitCash, Inv, SessionsConsistent, TellerInv
      <3>2. loaded[c][r.account] = balance[r.account]
        BY <2>1, <3>1
        DEF CommitCash, LockInv, LockedReadIsFresh, HoldsUpdate
      <3>3. /\ cash[r.key] = NoRow
            /\ \A q \in CashKeys : cash'[q] # cash[q] => q = r.key
            /\ cash'[r.key] = [req |-> r, before |-> loaded[c][r.account],
                               after |-> NewBalance(c)]
            /\ balance'[r.account] = NewBalance(c)
        BY <2>1, <3>1 DEF CommitCash, Inv, TypeOK, TablesOK
      <3>4. QED
        BY <3>1, <3>2, <3>3
    <2>2. CASE cash' = cash
      BY <2>2
    <2>3. QED
      BY <2>1, <2>2
      DEF Next, HandlerStep, Lookup, AnswerExisting, Answer, LockSender, Refuse,
          Recheck, Reserve, InsertTransaction, UniqueViolation,
          ReferenceReceiver, CommitTransfer, Proceed, TellerStep,
          LookupOperation, LockAccount, AccountMissing, RefuseCash,
          CashFlushFails, WorkerStep, Claim, LoadAccounts, ScoreFails, Decide,
          HoldForReview, LockLower, LockHigher, Settle, SettleOverflows,
          Finish, Restart, BecomeDue, Kill, DeadlockVictim, RollBack, tables
  <1>2. QED
    BY <1>1, InvariantHolds, LockInvHolds, PTL
    DEF Spec, CashAuditMatchesBalance

(***************************************************************************)
(* Workers do not wait for each other in a cycle: a worker that holds one  *)
(* account and waits for another waits for a higher one, so the accounts   *)
(* waited for would rise for ever.                                         *)
(***************************************************************************)
Wanted(w) == IF pc[w] = "lockFirst" THEN LowerAccount(w) ELSE HigherAccount(w)

LEMMA WaitingWorker ==
  ASSUME Inv, NEW w \in Workers, NEW q \in Workers, BlockedBy(w, q)
  PROVE  /\ pc[w] \in {"lockFirst", "lockSecond"}
         /\ \A a \in Accounts : WantsUpdate(w, a) => a = Wanted(w)
         /\ \E a \in Accounts : WantsUpdate(w, a) /\ HoldsUpdate(q, a)
  <1>1. pc[w] \in WorkerLabels /\ pc[q] \in WorkerLabels
    BY DEF Inv, TypeOK, LabelsOK
  <1>2. /\ ~HoldsKeyShare(q, request[q].receiver)
        /\ \A a : ~HoldsKeyShare(q, a) /\ ~WantsKeyShare(w, a) /\ ~WantsKey(w, a)
    BY <1>1 DEF WorkerLabels, HoldsKeyShare, WantsKeyShare, WantsKey
  <1>3. PICK a \in Accounts : WantsUpdate(w, a) /\ HoldsUpdate(q, a)
    BY <1>2 DEF BlockedBy
  <1>4. pc[w] \in {"lockFirst", "lockSecond"}
    BY <1>1, <1>3 DEF WorkerLabels, WantsUpdate
  <1>5. \A b \in Accounts : WantsUpdate(w, b) => b = Wanted(w)
    BY <1>4 DEF WantsUpdate, Wanted
  <1>6. QED
    BY <1>3, <1>4, <1>5

LEMMA WantedRises ==
  ASSUME Inv, NEW w \in Workers, NEW q \in Workers, BlockedBy(w, q),
         pc[q] \in {"lockFirst", "lockSecond"}
  PROVE  /\ Wanted(w) \in Accounts /\ Wanted(q) \in Accounts
         /\ Wanted(w) < Wanted(q)
  <1>1. PICK a \in Accounts : WantsUpdate(w, a) /\ HoldsUpdate(q, a) /\ a = Wanted(w)
    BY WaitingWorker
  <1>2. pc[q] = "lockSecond" /\ a = LowerAccount(q)
    BY <1>1 DEF HoldsUpdate
  <1>3. /\ Sender(q) \in Accounts /\ Receiver(q) \in Accounts
        /\ claim[q] \in Keys /\ txn[claim[q]] \in TxnRows
    BY <1>2, ClaimedRows DEF Working
  <1>4. Sender(q) # Receiver(q)
    BY <1>3, NoRowAssumption DEF Inv, SessionsConsistent, RowsRefer, Sender, Receiver
  <1>5. Wanted(q) = HigherAccount(q)
    BY <1>2 DEF Wanted
  <1>6. LowerAccount(q) < HigherAccount(q) /\ HigherAccount(q) \in Accounts
    <2>1. Sender(q) \in Nat /\ Receiver(q) \in Nat
      BY <1>3, AccountsAssumption
    <2> HIDE DEF Sender, Receiver
    <2>2. CASE SenderFirst(q)
      BY <1>3, <2>2 DEF LowerAccount, HigherAccount, SenderFirst
    <2>3. CASE ~SenderFirst(q)
      BY <1>3, <1>4, <2>1, <2>3 DEF LowerAccount, HigherAccount, SenderFirst
    <2>4. QED
      BY <2>2, <2>3
  <1>7. QED
    BY <1>1, <1>2, <1>5, <1>6

LEMMA AccountsAbove ==
  ASSUME NEW S \in SUBSET Nat, NEW a \in S, NEW b \in S, a < b
  PROVE  <<{c \in S : c > b}, {c \in S : c > a}>> \in StrictSubsetOrdering(S)
  <1> DEFINE A == {c \in S : c > a}
             B == {c \in S : c > b}
  <1>1. B \subseteq A
    <2> SUFFICES ASSUME NEW c \in S, c > b PROVE c > a
      OBVIOUS
    <2>1. QED
      OBVIOUS
  <1>2. b \in A /\ b \notin B
    OBVIOUS
  <1>3. A \in SUBSET S /\ B \in SUBSET S /\ B # A
    BY <1>2
  <1> HIDE DEF A, B
  <1>4. <<B, A>> \in StrictSubsetOrdering(S)
    BY <1>1, <1>3 DEF StrictSubsetOrdering
  <1>5. QED
    BY <1>4 DEF A, B

LEMMA NoCycleOfWorkers ==
  ASSUME Inv, NEW S \in SUBSET Workers
  PROVE  ~AllBlocked(S)
  <1> SUFFICES ASSUME AllBlocked(S) PROVE FALSE
    OBVIOUS
  <1> DEFINE Above(w) == {a \in Accounts : a > Wanted(w)}
             T == {Above(w) : w \in S}
             R == StrictSubsetOrdering(Accounts)
  <1>1. \A w \in S : \E q \in S : <<Above(q), Above(w)>> \in R
    <2> SUFFICES ASSUME NEW w \in S PROVE \E q \in S : <<Above(q), Above(w)>> \in R
      OBVIOUS
    <2>1. PICK q \in S : BlockedBy(w, q)
      BY DEF AllBlocked
    <2>2. PICK r \in S : BlockedBy(q, r)
      BY DEF AllBlocked
    <2>3. pc[q] \in {"lockFirst", "lockSecond"}
      BY <2>2, WaitingWorker
    <2>4. /\ Wanted(w) \in Accounts /\ Wanted(q) \in Accounts
          /\ Wanted(w) < Wanted(q)
      BY <2>1, <2>3, WantedRises
    <2>5. QED
      BY <2>4, AccountsAbove, AccountsAssumption
  <1>2. IsWellFoundedOn(R, SUBSET Accounts)
    BY FS_StrictSubsetOrderingWellFounded, FS_FiniteSubsetsOfFinite, AccountsAssumption
  <1>3. T \subseteq SUBSET Accounts /\ T # {}
    BY DEF AllBlocked
  <1> HIDE DEF R
  <1>4. PICK x \in T : \A y \in T : <<y, x>> \notin R
    BY <1>2, <1>3, WFMin
  <1>5. QED
    BY <1>1, <1>4

\* The ordered account locks keep the workers from blocking one another.
THEOREM WorkersStayFree == Spec => []WorkersNeverDeadlock
  <1>1. Inv => WorkersNeverDeadlock
    BY NoCycleOfWorkers DEF WorkersNeverDeadlock
  <1>2. QED
    BY <1>1, InvariantHolds, PTL

-------------------------------------------------------------------------------
(***************************************************************************)
(* Every step of the platform is a step of the ledger, or changes nothing  *)
(* the ledger sees, or is a settlement from a stale balance.  A service    *)
(* writes the balance it loaded under its lock, which LockedReadIsFresh    *)
(* says is the committed one; a worker writes the balance it loaded, which *)
(* is the committed one unless the settlement is stale.                    *)
(***************************************************************************)

\* A transfer without a row is absent, and one with a PENDING job reserved.
LEMMA StatesOfRows ==
  ASSUME Inv, NEW k \in Keys
  PROVE  /\ txn[k] = NoRow => StateOf(k) = "absent" /\ AskedOf(k) = NoRow
         /\ txn[k] # NoRow /\ job[k].status = "PENDING" =>
              StateOf(k) = "reserved" /\ AskedOf(k) = txn[k].req
  <1> USE DEF Inv, RowsAgree, StateOf, AskedOf, Outcome
  <1>1. CASE txn[k] = NoRow
    BY <1>1
  <1>2. CASE txn[k] # NoRow /\ job[k].status = "PENDING"
    BY <1>2
  <1>3. QED
    BY <1>1, <1>2

\* A step that leaves the rows of transfers to their old state.
LEMMA SameRows ==
  ASSUME UNCHANGED <<balance, cash>>,
         \A k \in Keys : AskedOf(k)' = AskedOf(k) /\ StateOf(k)' = StateOf(k)
  PROVE  UNCHANGED L!ledger
  BY DEF L!ledger

LEMMA SameRow ==
  ASSUME NEW k \in Keys, txn'[k] = txn[k], job'[k] = job[k]
  PROVE  AskedOf(k)' = AskedOf(k) /\ StateOf(k)' = StateOf(k)
  BY DEF AskedOf, StateOf

\* A step that leaves all rows, or reschedules a job, is invisible.
LEMMA Invisible ==
  ASSUME UNCHANGED <<balance, txn, cash>>,
         \A k \in Keys : txn[k] # NoRow => job'[k].status = job[k].status
  PROVE  UNCHANGED L!ledger
  <1>1. \A k \in Keys : AskedOf(k)' = AskedOf(k)
    BY DEF AskedOf
  <1>2. ASSUME NEW k \in Keys PROVE StateOf(k)' = StateOf(k)
    <2>1. CASE txn[k] = NoRow
      BY <2>1 DEF StateOf
    <2>2. CASE txn[k] # NoRow
      BY <2>2 DEF StateOf
    <2>3. QED
      BY <2>1, <2>2
  <1>3. QED
    BY <1>1, <1>2, SameRows

LEMMA CommitTransferReserves ==
  ASSUME Inv, Inv', LockInv, NEW h \in Handlers, CommitTransfer(h)
  PROVE  \E r \in Requests : L!Reserve(r)
  <1> USE Roles
  <1> PICK r : r = request[h]
    OBVIOUS
  <1>1. /\ r \in Requests /\ r.key \in Keys /\ r.amount \in Nat
        /\ r.sender \in Accounts /\ txn[r.key] = NoRow /\ Affordable(h)
    BY RequestsAssumption
    DEF CommitTransfer, Inv, SessionsConsistent, HandlerInv, Locked
  <1>2. loaded[h][r.sender] = balance[r.sender] /\ balance[r.sender] \in Balances
    BY <1>1 DEF CommitTransfer, LockInv, LockedReadIsFresh, HoldsUpdate, Inv,
                TypeOK, TablesOK
  <1>3. r.sender # r.receiver /\ balance[r.sender] >= r.amount
    BY <1>1, <1>2 DEF Affordable, Acceptable
  <1>4. L!Add(r.sender, -r.amount)
    <2>1. balance[r.sender] + (-r.amount) \in 0 .. MaxBalance
      BY <1>1, <1>2, <1>3, AccountsAssumption DEF Balances
    <2>2. balance' = [balance EXCEPT ![r.sender] =
                        balance[r.sender] + (-r.amount)]
      <3>1. loaded[h][r.sender] - r.amount = balance[r.sender] + (-r.amount)
        BY <1>1, <1>2 DEF Balances
      <3>2. QED
        BY <3>1 DEF CommitTransfer
    <2>3. QED
      BY <1>1, <2>1, <2>2 DEF L!Add, Inv, TypeOK, TablesOK
  <1>5. /\ txn'[r.key] = [req |-> r, status |-> "PENDING", decision |-> "NONE"]
        /\ job'[r.key].status = "PENDING"
        /\ txn'[r.key] # NoRow
        /\ \A k \in Keys : k # r.key => txn'[k] = txn[k] /\ job'[k] = job[k]
    <2>1. /\ txn'[r.key] =
               [req |-> r, status |-> "PENDING", decision |-> "NONE"]
          /\ job'[r.key].status = "PENDING"
          /\ \A k \in Keys : k # r.key => txn'[k] = txn[k] /\ job'[k] = job[k]
      BY <1>1 DEF CommitTransfer, Inv, TypeOK, TablesOK
    <2>2. [req |-> r, status |-> "PENDING", decision |-> "NONE"] # NoRow
      BY <1>1, NoRowAssumption DEF TxnRows
    <2>3. QED
      BY <2>1, <2>2
  <1>6. StateOf(r.key) = "absent"
    BY <1>1, StatesOfRows
  <1>7. StateOf(r.key)' = "reserved" /\ AskedOf(r.key)' = r
    BY <1>5 DEF StateOf, AskedOf
  <1>8. \A k \in Keys : k # r.key =>
          StateOf(k)' = StateOf(k) /\ AskedOf(k)' = AskedOf(k)
    BY <1>5, SameRow
  <1>9. cash' = cash
    BY DEF CommitTransfer
  <1>10. L!Reserve(r)
    <2>1. [k \in Keys |-> AskedOf(k)]' =
            [[k \in Keys |-> AskedOf(k)] EXCEPT ![r.key] = r]
      BY <1>1, <1>7, <1>8 DEF AskedOf
    <2>2. [k \in Keys |-> StateOf(k)]' =
            [[k \in Keys |-> StateOf(k)] EXCEPT ![r.key] = "reserved"]
      BY <1>1, <1>7, <1>8 DEF StateOf
    <2>3. QED
      BY <1>1, <1>3, <1>4, <1>6, <1>9, <2>1, <2>2 DEF L!Reserve
  <1>11. QED
    BY <1>1, <1>10

LEMMA CommitCashOperates ==
  ASSUME Inv, LockInv, NEW c \in Tellers, CommitCash(c)
  PROVE  \E r \in CashRequests : L!Operate(r)
  <1> USE Roles
  <1> PICK r : r = request[c]
    OBVIOUS
  <1> DEFINE change == IF r.operation = "DEBIT" THEN -r.amount ELSE r.amount
  <1>1. r \in CashRequests /\ r.account \in Accounts /\ cash[r.key] = NoRow
    BY DEF CommitCash, Inv, SessionsConsistent, TellerInv
  <1>2. loaded[c][r.account] = balance[r.account]
    BY <1>1 DEF CommitCash, LockInv, LockedReadIsFresh, HoldsUpdate
  <1>3. NewBalance(c) = balance[r.account] + change
    BY <1>2 DEF NewBalance
  <1>4. L!Add(r.account, change)
    BY <1>1, <1>3 DEF L!Add, CommitCash, Balances, Inv, TypeOK, TablesOK
  <1>5. cash' = [cash EXCEPT ![r.key] =
                   [req |-> r, before |-> balance[r.account],
                    after |-> balance[r.account] + change]]
    BY <1>2, <1>3 DEF CommitCash
  <1>6. UNCHANGED <<[k \in Keys |-> AskedOf(k)], [k \in Keys |-> StateOf(k)]>>
    BY DEF CommitCash, AskedOf, StateOf
  <1>7. L!Operate(r)
    BY <1>1, <1>4, <1>5, <1>6 DEF L!Operate
  <1>8. QED
    BY <1>1, <1>7

\* A worker that changes the rows of its job ends a reservation.
LEMMA RowsEnd ==
  ASSUME Inv, NEW w \in Workers, pc[w] \in Working, NEW k, k = claim[w],
         NEW outcome, StateOf(k)' = outcome, AskedOf(k)' = AskedOf(k),
         \A j \in Keys : j # k => txn'[j] = txn[j] /\ job'[j] = job[j],
         UNCHANGED cash
  PROVE  L!End(k, outcome)
  <1>1. k \in Keys /\ StateOf(k) = "reserved"
    BY ClaimedRows, StatesOfRows, NoRowAssumption
  <1>2. \A j \in Keys : j # k =>
          StateOf(j)' = StateOf(j) /\ AskedOf(j)' = AskedOf(j)
    BY SameRow
  <1>3. UNCHANGED [j \in Keys |-> AskedOf(j)]
    BY <1>2 DEF AskedOf
  <1>4. [j \in Keys |-> StateOf(j)]' =
          [[j \in Keys |-> StateOf(j)] EXCEPT ![k] = outcome]
    <2>1. \A j \in Keys : StateOf(j)' = IF j = k THEN outcome ELSE StateOf(j)
      BY <1>2
    <2>2. QED
      BY <1>1, <2>1
  <1>5. QED
    BY <1>1, <1>3, <1>4 DEF L!End

LEMMA FinishEnds ==
  ASSUME Inv, NEW w \in Workers, pc[w] \in Working, NEW decision \in Decisions,
         NEW status \in {"PENDING", "COMPLETED", "FAILED"},
         Finish(w, decision, status)
  PROVE  L!End(claim[w], Outcome[decision])
  <1> PICK k : k = claim[w]
    OBVIOUS
  <1>1. k \in Keys /\ txn[k] \in TxnRows
    BY ClaimedRows
  <1>2. /\ txn'[k] = [txn[k] EXCEPT !.status = status, !.decision = decision]
        /\ \A j \in Keys : j # k => txn'[j] = txn[j] /\ job'[j] = job[j]
    BY <1>1 DEF Finish, Inv, TypeOK, TablesOK
  <1>3. /\ txn'[k] \in TxnRows
        /\ txn'[k].decision = decision
        /\ txn'[k].req = txn[k].req
    BY <1>1, <1>2 DEF TxnRows
  <1>4. txn[k] # NoRow /\ txn'[k] # NoRow
    BY <1>1, <1>3, NoRowAssumption
  <1>5. StateOf(k)' = Outcome[decision]
    BY <1>3, <1>4 DEF StateOf, Decisions
  <1>6. AskedOf(k)' = AskedOf(k)
    BY <1>3, <1>4 DEF AskedOf
  <1>7. UNCHANGED cash
    BY DEF Finish
  <1>8. QED
    BY <1>2, <1>5, <1>6, <1>7, RowsEnd

LEMMA ScoreFailsKeeps ==
  ASSUME Inv, NEW w \in Workers, ScoreFails(w)
  PROVE  (\E k \in Keys : L!Keep(k)) \/ UNCHANGED L!ledger
  <1> PICK k : k = claim[w]
    OBVIOUS
  <1>1. /\ pc[w] \in Working /\ k \in Keys /\ txn[k] # NoRow
        /\ txn[k].decision = "NONE" /\ job[k].status = "PENDING"
    BY ClaimedRows, NoRowAssumption DEF ScoreFails, Working
  <1>2. /\ UNCHANGED <<balance, txn, cash>>
        /\ \A j \in Keys : j # k => job'[j] = job[j]
        /\ job'[k].status \in {"PENDING", "FAILED"}
    <2>1. job[k] \in JobRows
      BY ClaimedRows DEF ScoreFails, Working
    <2>2. QED
      BY <1>1, <2>1 DEF ScoreFails, Inv, TypeOK, TablesOK, JobRows
  <1>3. CASE job'[k].status = "PENDING"
    BY <1>1, <1>2, <1>3, Invisible
  <1>4. CASE job'[k].status = "FAILED"
    <2>1. StateOf(k)' = "abandoned" /\ AskedOf(k)' = AskedOf(k)
      BY <1>1, <1>2, <1>4 DEF StateOf, AskedOf
    <2>2. L!End(k, "abandoned")
      BY <1>1, <1>2, <2>1, RowsEnd
    <2>3. QED
      BY <1>1, <1>2, <2>2 DEF L!Keep
  <1>5. QED
    BY <1>2, <1>3, <1>4

LEMMA ReviewKeeps ==
  ASSUME Inv, NEW w \in Workers, HoldForReview(w)
  PROVE  \E k \in Keys : L!Keep(k)
  <1>1. L!End(claim[w], Outcome["REVIEW"]) /\ Outcome["REVIEW"] = "held"
    BY FinishEnds DEF HoldForReview, Working, Decisions, Outcome
  <1>2. claim[w] \in Keys /\ UNCHANGED balance
    BY ClaimedRows DEF HoldForReview, Working
  <1>3. QED
    BY <1>1, <1>2 DEF L!Keep

LEMMA SettleEnds ==
  ASSUME Inv, NEW w \in Workers, Settle(w)
  PROVE  \/ \E k \in Keys : L!Complete(k) \/ L!Refund(k)
         \/ StaleSettlement
  <1> PICK k : k = claim[w]
    OBVIOUS
  <1> DEFINE a == Credited(w)
             n == txn[k].req.amount
  <1>1. /\ k \in Keys /\ txn[k] \in TxnRows /\ txn[k] # NoRow
        /\ Sender(w) \in Accounts /\ Receiver(w) \in Accounts
        /\ verdict[w] \in {"ALLOW", "BLOCK"}
        /\ job[k].status = "PENDING"
    BY ClaimedRows, NoRowAssumption
    DEF Settle, Working, Inv, SessionsConsistent, WorkerInv
  <1>2. L!End(k, Outcome[verdict[w]])
    BY <1>1, FinishEnds DEF Settle, Working, Decisions
  <1>3. a \in Accounts /\ balance' = [balance EXCEPT ![a] = loaded[w][a] + n]
    BY <1>1 DEF Settle, Settlement, Credited
  <1>4. CASE loaded[w][a] # balance[a]
    <2>1. \A b \in Accounts \ {a} : balance'[b] = balance[b]
      BY <1>3 DEF Inv, TypeOK, TablesOK
    <2>2. pc[w] = "settle"
      BY DEF Settle
    <2>3. QED
      BY <1>2, <1>4, <2>1, <2>2 DEF StaleSettlement
  <1>5. CASE loaded[w][a] = balance[a]
    <2>1. L!Add(a, n)
      <3>1. balance[a] \in Balances /\ n \in Nat
        BY <1>1, <1>3, RequestsAssumption DEF TxnRows, Inv, TypeOK, TablesOK
      <3>2. balance[a] + n <= MaxBalance
        BY <1>5 DEF Settle, Settlement
      <3>3. balance[a] + n \in 0 .. MaxBalance
        BY <3>1, <3>2, AccountsAssumption DEF Balances
      <3>4. QED
        BY <1>3, <1>5, <3>3 DEF L!Add, Inv, TypeOK, TablesOK
    <2>2. AskedOf(k) = txn[k].req
      BY <1>1 DEF AskedOf
    <2>3. CASE verdict[w] = "ALLOW"
      <3>1. a = AskedOf(k).receiver /\ Outcome[verdict[w]] = "completed"
        BY <2>2, <2>3 DEF Credited, Receiver, Outcome
      <3>2. L!Complete(k)
        BY <1>1, <1>2, <2>1, <2>2, <3>1 DEF L!Complete
      <3>3. QED
        BY <1>1, <3>2
    <2>4. CASE verdict[w] = "BLOCK"
      <3>1. a = AskedOf(k).sender /\ Outcome[verdict[w]] = "refunded"
        BY <2>2, <2>4 DEF Credited, Sender, Outcome
      <3>2. L!Refund(k)
        BY <1>1, <1>2, <2>1, <2>2, <3>1 DEF L!Refund
      <3>3. QED
        BY <1>1, <3>2
    <2>5. QED
      BY <1>1, <2>3, <2>4
  <1>6. QED
    BY <1>4, <1>5

LEMMA NextLedger ==
  ASSUME Inv, Inv', LockInv, [Next]_vars
  PROVE  [L!Next \/ (Workers # {} /\ StaleSettlement)]_(L!ledger)
  <1>1. CASE \E h \in Handlers : CommitTransfer(h)
    BY <1>1, CommitTransferReserves DEF L!Next
  <1>2. CASE \E c \in Tellers : CommitCash(c)
    BY <1>2, CommitCashOperates DEF L!Next
  <1>3. CASE \E w \in Workers : ScoreFails(w) \/ HoldForReview(w) \/ Settle(w)
    BY <1>3, ScoreFailsKeeps, ReviewKeeps, SettleEnds DEF L!Next
  <1>4. CASE UNCHANGED <<balance, txn, job, cash>>
    BY <1>4, Invisible
  <1>5. ASSUME NEW j \in Keys, BecomeDue(j)
        PROVE  UNCHANGED L!ledger
    <2>1. UNCHANGED <<balance, txn, cash>>
      BY <1>5 DEF BecomeDue
    <2>2. ASSUME NEW k \in Keys, txn[k] # NoRow
          PROVE  job'[k].status = job[k].status
      <3>1. job[k] \in JobRows
        BY <2>2 DEF Inv, RowsAgree, TypeOK, TablesOK
      <3>2. QED
        BY <1>5, <3>1 DEF BecomeDue, Inv, TypeOK, TablesOK, JobRows
    <2>3. QED
      BY <2>1, <2>2, Invisible
  <1>6. QED
    BY <1>1, <1>2, <1>3, <1>4, <1>5
    DEF Next, vars, HandlerStep, Lookup, AnswerExisting, Answer, LockSender,
        Refuse, Recheck, Reserve, InsertTransaction, UniqueViolation,
        ReferenceReceiver, Proceed, TellerStep, LookupOperation, LockAccount,
        AccountMissing, RefuseCash, CashFlushFails, WorkerStep, Claim,
        LoadAccounts, Decide, LockLower, LockHigher, SettleOverflows, Restart,
        Kill, DeadlockVictim, RollBack, tables

LEMMA InitLedger == Init => L!Init
  BY DEF Init, StoreInit, L!Init, AskedOf, StateOf

(***************************************************************************)
(* The theorems.                                                           *)
(***************************************************************************)
\* Only a settlement from a stale balance leaves the ledger.
THEOREM OnlyStaleSettles == Spec => OnlyStaleSettlesLeaveLedger
  <1>1. Inv /\ Inv' /\ LockInv /\ [Next]_vars =>
          [L!Next \/ StaleSettlement]_(L!ledger)
    BY NextLedger
  <1>2. QED
    BY <1>1, InitLedger, InvariantHolds, LockInvHolds, PTL
    DEF Spec, OnlyStaleSettlesLeaveLedger

\* Without workers the platform implements the ledger.
THEOREM ServicesAreLedger ==
  ASSUME Workers = {}
  PROVE  Spec => ServicesImplementLedger
  <1>1. Inv /\ Inv' /\ LockInv /\ [Next]_vars => [L!Next]_(L!ledger)
    BY NextLedger
  <1>2. QED
    BY <1>1, InitLedger, InvariantHolds, LockInvHolds, PTL
    DEF Spec, ServicesImplementLedger, L!Spec
-------------------------------------------------------------------------------
(***************************************************************************)
(* A balance is what the account's rows add up to.  The argument: each     *)
(* step of the ledger changes the balance of an account by what it adds to *)
(* the sum of the account's rows, so the two keep their difference; a      *)
(* settlement from a stale balance is the only step that is none of the    *)
(* ledger's.  There are finitely many rows at any time, however many keys  *)
(* clients may choose from.                                                *)
(***************************************************************************)
FinitelyMany == IsFiniteSet(TransferEntries) /\ IsFiniteSet(CashEntries)

\* What a transfer in this state of the ledger has done to an account.
MovedBy(r, state, a) ==
  (IF r.sender = a /\ state # "refunded" THEN -r.amount ELSE 0)
    + (IF r.receiver = a /\ state = "completed" THEN r.amount ELSE 0)

TransferSum(a) == SumFunction([k \in TransferEntries |-> Moved(k, a)])
CashSum(a) == SumFunction([q \in CashEntries |-> Operated(q, a)])

\* The status and the decision of a row say the same as its ledger state.
RowsTellMoves ==
  \A k \in TransferEntries :
    /\ AskedOf(k) \in Requests
    /\ \A a \in Accounts :
         Moved(k, a) = MovedBy(AskedOf(k), StateOf(k), a) /\ Moved(k, a) \in Int

LEMMA MovedByState == Inv => RowsTellMoves
  <1> SUFFICES ASSUME Inv, NEW k \in TransferEntries
               PROVE  /\ AskedOf(k) \in Requests
                      /\ \A a \in Accounts :
                           /\ Moved(k, a) = MovedBy(AskedOf(k), StateOf(k), a)
                           /\ Moved(k, a) \in Int
    BY DEF RowsTellMoves
  <1>1. txn[k] \in TxnRows /\ txn[k] # NoRow /\ AskedOf(k) = txn[k].req
    BY DEF Inv, TypeOK, TablesOK, TransferEntries, AskedOf
  <1>2. AskedOf(k) \in Requests /\ txn[k].req.amount \in Int
    BY <1>1, RequestsAssumption DEF TxnRows
  <1>3. /\ StateOf(k) = "refunded" <=> txn[k].status = "FAILED"
        /\ StateOf(k) = "completed" <=> txn[k].status = "COMPLETED"
    BY <1>1 DEF Inv, RowsAgree, TransferEntries, StateOf, Outcome
  <1>4. \A a \in Accounts : Moved(k, a) = MovedBy(AskedOf(k), StateOf(k), a)
    BY <1>1, <1>3 DEF Moved, MovedBy
  <1>5. \A a \in Accounts : Moved(k, a) \in Int
    BY <1>2 DEF Moved
  <1>6. QED
    BY <1>2, <1>4, <1>5

CashRowsAreIntegers ==
  \A q \in CashEntries, a \in Accounts : Operated(q, a) \in Int

LEMMA OperatedIsInteger == Inv => CashRowsAreIntegers
  <1> SUFFICES ASSUME Inv, NEW q \in CashEntries, NEW a \in Accounts
               PROVE  Operated(q, a) \in Int
    BY DEF CashRowsAreIntegers
  <1>1. cash[q] \in CashRows
    BY DEF Inv, TypeOK, TablesOK, CashEntries
  <1>2. cash[q].before \in Int /\ cash[q].after \in Int
    BY <1>1, AccountsAssumption DEF CashRows, Balances
  <1>3. QED
    BY <1>2 DEF Operated

\* Both, of the rows after a step.
LEMMA MovedNext == Inv' => RowsTellMoves' /\ CashRowsAreIntegers'
  BY MovedByState, OperatedIsInteger, PTL

\* The rows there are are the transfers the ledger has.
LEMMA EntriesOfLedger ==
  ASSUME Inv, Inv'
  PROVE  /\ TransferEntries = {k \in Keys : StateOf(k) # "absent"}
         /\ TransferEntries' = {k \in Keys : StateOf(k)' # "absent"}
  BY DEF Inv, RowsAgree, TransferEntries, StateOf, Outcome

\* A step that leaves requests and states to the ledger moves nothing.
LEMMA NothingMoved ==
  ASSUME Inv, Inv', NEW a \in Accounts,
         \A k \in Keys : AskedOf(k)' = AskedOf(k) /\ StateOf(k)' = StateOf(k)
  PROVE  /\ TransferEntries' = TransferEntries
         /\ TransferSum(a)' = TransferSum(a)
  <1>1. TransferEntries' = TransferEntries
    BY DEF TransferEntries, AskedOf, StateOf, Inv, RowsAgree, Outcome
  <1>2. \A k \in TransferEntries : Moved(k, a)' = Moved(k, a)
    <2>1. RowsTellMoves /\ RowsTellMoves'
      BY MovedByState, MovedNext
    <2>2. \A k \in TransferEntries : k \in Keys /\ k \in TransferEntries'
      BY <1>1 DEF TransferEntries
    <2>3. QED
      BY <2>1, <2>2 DEF RowsTellMoves
  <1>3. QED
    BY <1>1, <1>2 DEF TransferSum

\* The rows of transfers a step does not touch keep what they have moved.
LEMMA OthersUnmoved ==
  ASSUME Inv, Inv', NEW a \in Accounts, NEW k \in Keys,
         \A j \in Keys \ {k} :
           AskedOf(j)' = AskedOf(j) /\ StateOf(j)' = StateOf(j)
  PROVE  \A j \in TransferEntries \ {k} :
           j \in TransferEntries' /\ Moved(j, a)' = Moved(j, a)
  <1>1. RowsTellMoves /\ RowsTellMoves'
    BY MovedByState, MovedNext
  <1>2. ASSUME NEW j \in TransferEntries \ {k}
        PROVE  j \in TransferEntries'
    BY <1>2 DEF TransferEntries, AskedOf, StateOf, Inv, RowsAgree, Outcome
  <1>3. \A j \in TransferEntries \ {k} : j \in Keys
    BY DEF TransferEntries
  <1>4. QED
    BY <1>1, <1>2, <1>3 DEF RowsTellMoves

LEMMA TransferSumIsInteger ==
  ASSUME Inv, FinitelyMany, NEW a \in Accounts
  PROVE  TransferSum(a) \in Int
  <1>1. [k \in TransferEntries |-> Moved(k, a)] \in [TransferEntries -> Int]
    BY MovedByState DEF RowsTellMoves
  <1>2. QED
    BY <1>1, SumFunctionIsInteger DEF TransferSum, FinitelyMany

LEMMA CashSumIsInteger ==
  ASSUME Inv, FinitelyMany, NEW a \in Accounts
  PROVE  CashSum(a) \in Int
  <1>1. [q \in CashEntries |-> Operated(q, a)] \in [CashEntries -> Int]
    BY OperatedIsInteger DEF CashRowsAreIntegers
  <1>2. QED
    BY <1>1, SumFunctionIsInteger DEF CashSum, FinitelyMany

SumsAreIntegers ==
  \A a \in Accounts : TransferSum(a) \in Int /\ CashSum(a) \in Int

LEMMA SumsNext == (Inv /\ FinitelyMany => SumsAreIntegers)'
  <1>1. Inv /\ FinitelyMany => SumsAreIntegers
    BY TransferSumIsInteger, CashSumIsInteger DEF SumsAreIntegers
  <1>2. QED
    BY <1>1, PTL

\* One transfer's row changes.
LEMMA OneMoved ==
  ASSUME Inv, Inv', FinitelyMany, NEW a \in Accounts, NEW k \in TransferEntries,
         TransferEntries' = TransferEntries,
         \A j \in Keys \ {k} :
           AskedOf(j)' = AskedOf(j) /\ StateOf(j)' = StateOf(j)
  PROVE  TransferSum(a)' = TransferSum(a) - Moved(k, a) + Moved(k, a)'
  <1> DEFINE f == [j \in TransferEntries |-> Moved(j, a)]
             g == [j \in TransferEntries |-> Moved(j, a)']
  <1>1. f \in [TransferEntries -> Int] /\ g \in [TransferEntries -> Int]
    BY MovedByState, MovedNext DEF RowsTellMoves
  <1>2. \A j \in TransferEntries \ {k} : g[j] = f[j]
    BY OthersUnmoved DEF TransferEntries
  <1>3. SumFunction(g) = SumFunction(f) - f[k] + g[k]
    <2> HIDE DEF f, g
    <2>1. QED
      BY <1>1, <1>2, SumOfChanged DEF FinitelyMany
  <1>4. TransferSum(a)' = SumFunction(g) /\ TransferSum(a) = SumFunction(f)
    BY DEF TransferSum
  <1>5. QED
    BY <1>3, <1>4

\* One transfer enters the table.
LEMMA OneEntered ==
  ASSUME Inv, Inv', FinitelyMany, NEW a \in Accounts,
         NEW k \in Keys \ TransferEntries,
         TransferEntries' = TransferEntries \cup {k},
         \A j \in Keys \ {k} :
           AskedOf(j)' = AskedOf(j) /\ StateOf(j)' = StateOf(j)
  PROVE  TransferSum(a)' = TransferSum(a) + Moved(k, a)'
  <1> DEFINE S == TransferEntries
             f == [j \in S |-> Moved(j, a)]
             g == [j \in S \cup {k} |-> Moved(j, a)']
  <1>1. f \in [S -> Int] /\ g \in [S \cup {k} -> Int]
    BY MovedByState, MovedNext DEF RowsTellMoves
  <1>2. \A j \in S : g[j] = f[j]
    BY OthersUnmoved
  <1>3. SumFunction(g) = SumFunction(f) + g[k]
    <2>1. IsFiniteSet(S) /\ k \notin S
      BY DEF FinitelyMany
    <2> HIDE DEF S, f, g
    <2>2. QED
      BY <1>1, <1>2, <2>1, SumOfOneMore
  <1>4. TransferSum(a)' = SumFunction(g) /\ TransferSum(a) = SumFunction(f)
    BY DEF TransferSum
  <1>5. QED
    BY <1>3, <1>4

\* A step keeps the finitely many rows, and the part of an account's balance
\* that its rows do not explain.
Gap(a) == balance[a] - Explained(a)
KeepsGap == FinitelyMany' /\ \A a \in Accounts : Gap(a)' = Gap(a)

LEMMA GapOfSums ==
  ASSUME NEW a \in Accounts
  PROVE  /\ Gap(a) = balance[a] - (InitialBalance[a] + TransferSum(a) + CashSum(a))
         /\ Gap(a)' = balance'[a]
              - (InitialBalance[a] + TransferSum(a)' + CashSum(a)')
  BY DEF Gap, Explained, TransferSum, CashSum

LEMMA GapIsKept ==
  ASSUME Inv, Inv', FinitelyMany, FinitelyMany',
         NEW a \in Accounts, NEW n \in Int, NEW m \in Int,
         balance'[a] = balance[a] + n + m,
         TransferSum(a)' = TransferSum(a) + n, CashSum(a)' = CashSum(a) + m
  PROVE  Gap(a)' = Gap(a)
  <1>1. balance[a] \in Int /\ InitialBalance[a] \in Int
    BY AccountsAssumption DEF Inv, TypeOK, TablesOK, Balances
  <1>2. TransferSum(a) \in Int /\ CashSum(a) \in Int
    BY TransferSumIsInteger, CashSumIsInteger
  <1>3. QED
    BY <1>1, <1>2, GapOfSums

LEMMA NoCash ==
  ASSUME UNCHANGED cash, NEW a \in Accounts
  PROVE  CashEntries' = CashEntries /\ CashSum(a)' = CashSum(a)
  BY DEF CashEntries, CashSum, Operated

\* What reserves adds one row.
LEMMA ReserveOfOne ==
  ASSUME Inv, Inv', FinitelyMany, NEW r \in Requests, L!Reserve(r)
  PROVE  LET k == r.key IN
         /\ k \in Keys \ TransferEntries
         /\ TransferEntries' = TransferEntries \cup {k}
         /\ AskedOf(k)' = r /\ StateOf(k)' = "reserved"
         /\ \A j \in Keys \ {k} :
              AskedOf(j)' = AskedOf(j) /\ StateOf(j)' = StateOf(j)
         /\ r.sender \in Accounts /\ r.amount \in Int
         /\ balance' = [balance EXCEPT ![r.sender] =
                          balance[r.sender] + (-r.amount)]
         /\ UNCHANGED cash
         /\ FinitelyMany'
  <1> DEFINE k == r.key
  <1>1. /\ k \in Keys /\ StateOf(k) = "absent" /\ r.amount \in Int
        /\ AskedOf(k)' = r /\ StateOf(k)' = "reserved"
        /\ \A j \in Keys \ {k} :
             AskedOf(j)' = AskedOf(j) /\ StateOf(j)' = StateOf(j)
        /\ UNCHANGED cash
    <2>1. k \in Keys /\ r.amount \in Int
      BY RequestsAssumption
    <2>2. /\ StateOf(k) = "absent" /\ UNCHANGED cash
          /\ [j \in Keys |-> AskedOf(j)'] =
               [[j \in Keys |-> AskedOf(j)] EXCEPT ![k] = r]
          /\ [j \in Keys |-> StateOf(j)'] =
               [[j \in Keys |-> StateOf(j)] EXCEPT ![k] = "reserved"]
      BY <2>1 DEF L!Reserve
    <2>3. \A j \in Keys :
            /\ AskedOf(j)' = IF j = k THEN r ELSE AskedOf(j)
            /\ StateOf(j)' = IF j = k THEN "reserved" ELSE StateOf(j)
      BY <2>2
    <2>4. QED
      BY <2>1, <2>2, <2>3
  <1>2. /\ balance' = [balance EXCEPT ![r.sender] = balance[r.sender] + (-r.amount)]
        /\ r.sender \in Accounts
    BY DEF L!Reserve, L!Add, Inv, TypeOK, TablesOK
  <1> HIDE DEF k
  <1>3. k \notin TransferEntries /\ TransferEntries' = TransferEntries \cup {k}
    BY <1>1, EntriesOfLedger
  <1>4. FinitelyMany'
    BY <1>1, <1>3, FS_AddElement DEF FinitelyMany, CashEntries
  <1>5. QED
    BY <1>1, <1>2, <1>3, <1>4 DEF k

LEMMA ReserveKeepsGap ==
  ASSUME Inv, Inv', FinitelyMany, NEW r \in Requests, L!Reserve(r)
  PROVE  KeepsGap
  <1> DEFINE k == r.key
  <1> HIDE DEF k
  <1>1. /\ k \in Keys \ TransferEntries
        /\ TransferEntries' = TransferEntries \cup {k}
        /\ AskedOf(k)' = r /\ StateOf(k)' = "reserved"
        /\ \A j \in Keys \ {k} :
             AskedOf(j)' = AskedOf(j) /\ StateOf(j)' = StateOf(j)
        /\ r.sender \in Accounts /\ r.amount \in Int
        /\ balance' = [balance EXCEPT ![r.sender] =
                         balance[r.sender] + (-r.amount)]
        /\ UNCHANGED cash
        /\ FinitelyMany'
    BY ReserveOfOne DEF k
  <1>2. ASSUME NEW a \in Accounts
        PROVE  Gap(a)' = Gap(a)
    <2> DEFINE n == IF r.sender = a THEN -r.amount ELSE 0
    <2>1. Moved(k, a)' = n
      <3>1. Moved(k, a)' = MovedBy(r, "reserved", a)
        BY <1>1, MovedNext DEF RowsTellMoves
      <3>2. QED
        BY <1>1, <3>1 DEF MovedBy
    <2>2. TransferSum(a)' = TransferSum(a) + n
      BY <1>1, <2>1, OneEntered
    <2>3. CashSum(a)' = CashSum(a)
      BY <1>1, NoCash
    <2>4. balance'[a] = balance[a] + n + 0
      BY <1>1, AccountsAssumption DEF Inv, TypeOK, TablesOK, Balances
    <2>5. n \in Int /\ CashSum(a) = CashSum(a) + 0
      BY <1>1, CashSumIsInteger
    <2> HIDE DEF n
    <2>6. QED
      BY <1>1, <2>2, <2>3, <2>4, <2>5, GapIsKept
  <1>3. QED
    BY <1>1, <1>2 DEF KeepsGap

\* What ends a reservation touches one row and adds none.
LEMMA EndOfOne ==
  ASSUME Inv, Inv', FinitelyMany, NEW k \in Keys, NEW outcome, L!End(k, outcome),
         outcome # "absent"
  PROVE  /\ k \in TransferEntries /\ TransferEntries' = TransferEntries
         /\ StateOf(k) = "reserved" /\ StateOf(k)' = outcome
         /\ AskedOf(k) \in Requests /\ AskedOf(k)' = AskedOf(k)
         /\ \A j \in Keys \ {k} :
              AskedOf(j)' = AskedOf(j) /\ StateOf(j)' = StateOf(j)
         /\ UNCHANGED cash
         /\ FinitelyMany'
  <1>1. /\ StateOf(k) = "reserved" /\ UNCHANGED cash
        /\ [j \in Keys |-> AskedOf(j)'] = [j \in Keys |-> AskedOf(j)]
        /\ [j \in Keys |-> StateOf(j)'] =
             [[j \in Keys |-> StateOf(j)] EXCEPT ![k] = outcome]
    BY DEF L!End
  <1>2. \A j \in Keys : /\ AskedOf(j)' = AskedOf(j)
                        /\ StateOf(j)' = IF j = k THEN outcome ELSE StateOf(j)
    BY <1>1
  <1>3. k \in TransferEntries /\ TransferEntries' = TransferEntries
    BY <1>1, <1>2, EntriesOfLedger
  <1>4. AskedOf(k) \in Requests
    BY <1>3, MovedByState DEF RowsTellMoves
  <1>5. FinitelyMany'
    BY <1>1, <1>3 DEF FinitelyMany, CashEntries
  <1>6. QED
    BY <1>1, <1>2, <1>3, <1>4, <1>5

\* How much a transfer that ends moves at last.
LEMMA EndKeepsGap ==
  ASSUME Inv, Inv', FinitelyMany, NEW k \in Keys, NEW outcome, L!End(k, outcome),
         outcome # "absent",
         \A a \in Accounts :
           balance'[a] = balance[a] - MovedBy(AskedOf(k), "reserved", a)
                           + MovedBy(AskedOf(k), outcome, a)
  PROVE  KeepsGap
  <1>1. /\ k \in TransferEntries /\ TransferEntries' = TransferEntries
        /\ StateOf(k) = "reserved" /\ StateOf(k)' = outcome
        /\ AskedOf(k)' = AskedOf(k)
        /\ \A j \in Keys \ {k} :
             AskedOf(j)' = AskedOf(j) /\ StateOf(j)' = StateOf(j)
        /\ UNCHANGED cash
        /\ FinitelyMany'
    BY EndOfOne
  <1>2. ASSUME NEW a \in Accounts
        PROVE  Gap(a)' = Gap(a)
    <2>1. /\ Moved(k, a) = MovedBy(AskedOf(k), "reserved", a)
          /\ Moved(k, a)' = MovedBy(AskedOf(k), outcome, a)
          /\ Moved(k, a) \in Int /\ Moved(k, a)' \in Int
      BY <1>1, MovedByState, MovedNext DEF RowsTellMoves
    <2>2. TransferSum(a)' = TransferSum(a) - Moved(k, a) + Moved(k, a)'
      BY <1>1, OneMoved
    <2>3. TransferSum(a) \in Int /\ CashSum(a) \in Int
      BY TransferSumIsInteger, CashSumIsInteger
    <2>4. balance[a] \in Int
      BY AccountsAssumption DEF Inv, TypeOK, TablesOK, Balances
    <2> DEFINE n == Moved(k, a)' - Moved(k, a)
    <2>5. n \in Int /\ balance'[a] = balance[a] + n + 0
      BY <2>1, <2>4
    <2>6. TransferSum(a)' = TransferSum(a) + n /\ CashSum(a)' = CashSum(a) + 0
      BY <1>1, <2>1, <2>2, <2>3, NoCash
    <2> HIDE DEF n
    <2>7. QED
      BY <1>1, <2>5, <2>6, GapIsKept
  <1>3. QED
    BY <1>1, <1>2 DEF KeepsGap

LEMMA TransferEndKeepsGap ==
  ASSUME Inv, Inv', FinitelyMany, NEW k \in Keys,
         L!Complete(k) \/ L!Refund(k) \/ L!Keep(k)
  PROVE  KeepsGap
  <1> DEFINE r == AskedOf(k)
  <1>1. StateOf(k) = "reserved" /\ k \in TransferEntries
    <2>1. StateOf(k) = "reserved"
      BY DEF L!Complete, L!Refund, L!Keep, L!End
    <2>2. QED
      BY <2>1, EntriesOfLedger
  <1>2. /\ r \in Requests /\ r.amount \in Int /\ r.sender # r.receiver
        /\ [j \in Keys |-> AskedOf(j)][k] = r
    BY <1>1, MovedByState, RequestsAssumption
    DEF RowsTellMoves, Inv, SessionsConsistent, RowsRefer, AskedOf,
        TransferEntries
  <1>3. balance \in [Accounts -> Int]
    BY AccountsAssumption DEF Inv, TypeOK, TablesOK, Balances
  <1> HIDE DEF r
  <1>4. CASE L!Complete(k)
    <2>1. balance' = [balance EXCEPT ![r.receiver] = balance[r.receiver] + r.amount]
      BY <1>2, <1>4 DEF L!Complete, L!Add
    <2>2. \A a \in Accounts :
            balance'[a] = balance[a] - MovedBy(r, "reserved", a)
                            + MovedBy(r, "completed", a)
      BY <1>2, <1>3, <2>1 DEF MovedBy
    <2>3. L!End(k, "completed")
      BY <1>4 DEF L!Complete
    <2>4. QED
      BY <2>2, <2>3, EndKeepsGap DEF r
  <1>5. CASE L!Refund(k)
    <2>1. balance' = [balance EXCEPT ![r.sender] = balance[r.sender] + r.amount]
      BY <1>2, <1>5 DEF L!Refund, L!Add
    <2>2. \A a \in Accounts :
            balance'[a] = balance[a] - MovedBy(r, "reserved", a)
                            + MovedBy(r, "refunded", a)
      BY <1>2, <1>3, <2>1 DEF MovedBy
    <2>3. L!End(k, "refunded")
      BY <1>5 DEF L!Refund
    <2>4. QED
      BY <2>2, <2>3, EndKeepsGap DEF r
  <1>6. ASSUME NEW outcome \in {"held", "abandoned"}, L!End(k, outcome),
               balance' = balance
        PROVE  KeepsGap
    <2>1. \A a \in Accounts :
            balance'[a] = balance[a] - MovedBy(r, "reserved", a)
                            + MovedBy(r, outcome, a)
      BY <1>2, <1>3, <1>6 DEF MovedBy
    <2>2. QED
      BY <1>6, <2>1, EndKeepsGap DEF r
  <1>7. CASE L!Keep(k)
    BY <1>6, <1>7 DEF L!Keep
  <1>8. QED
    BY <1>4, <1>5, <1>7

\* A cash operation adds one row, which says what it did.
LEMMA OperateOfOne ==
  ASSUME Inv, Inv', FinitelyMany, NEW r \in CashRequests, L!Operate(r)
  PROVE  LET q == r.key
             change == IF r.operation = "DEBIT" THEN -r.amount ELSE r.amount IN
         /\ q \notin CashEntries /\ CashEntries' = CashEntries \cup {q}
         /\ \A o \in CashEntries : cash'[o] = cash[o]
         /\ cash'[q].req = r /\ change \in Int
         /\ cash'[q].after - cash'[q].before = change
         /\ r.account \in Accounts
         /\ balance' = [balance EXCEPT ![r.account] = balance[r.account] + change]
         /\ \A j \in Keys : AskedOf(j)' = AskedOf(j) /\ StateOf(j)' = StateOf(j)
         /\ FinitelyMany'
  <1> DEFINE q == r.key
             change == IF r.operation = "DEBIT" THEN -r.amount ELSE r.amount
  <1>1. q \in CashKeys /\ change \in Int
    BY RequestsAssumption
  <1>2. /\ cash[q] = NoRow
        /\ cash' = [cash EXCEPT ![q] = [req |-> r, before |-> balance[r.account],
                                        after |-> balance[r.account] + change]]
        /\ r.account \in Accounts
        /\ balance' = [balance EXCEPT ![r.account] = balance[r.account] + change]
        /\ [j \in Keys |-> AskedOf(j)'] = [j \in Keys |-> AskedOf(j)]
        /\ [j \in Keys |-> StateOf(j)'] = [j \in Keys |-> StateOf(j)]
    BY DEF L!Operate, L!Add, Inv, TypeOK, TablesOK
  <1> HIDE DEF q, change
  <1>3. /\ cash'[q] = [req |-> r, before |-> balance[r.account],
                       after |-> balance[r.account] + change]
        /\ \A o \in CashKeys \ {q} : cash'[o] = cash[o]
        /\ cash'[q] # NoRow
    <2>1. /\ cash'[q] = [req |-> r, before |-> balance[r.account],
                         after |-> balance[r.account] + change]
          /\ \A o \in CashKeys \ {q} : cash'[o] = cash[o]
      BY <1>1, <1>2 DEF Inv, TypeOK, TablesOK
    <2>2. balance[r.account] + change = balance'[r.account]
      BY <1>2 DEF Inv, TypeOK, TablesOK
    <2>3. cash'[q] \in CashRows
      BY <1>2, <2>1, <2>2 DEF Inv, TypeOK, TablesOK, CashRows
    <2>4. QED
      BY <2>1, <2>3, NoRowAssumption
  <1>4. q \notin CashEntries /\ CashEntries' = CashEntries \cup {q}
    BY <1>1, <1>2, <1>3 DEF CashEntries
  <1>5. \A j \in Keys : AskedOf(j)' = AskedOf(j) /\ StateOf(j)' = StateOf(j)
    BY <1>2
  <1>6. FinitelyMany'
    <2>1. IsFiniteSet(CashEntries')
      BY <1>4, FS_AddElement DEF FinitelyMany
    <2>2. IsFiniteSet(TransferEntries')
      BY <1>5, EntriesOfLedger DEF FinitelyMany
    <2>3. QED
      BY <2>1, <2>2 DEF FinitelyMany
  <1>7. cash'[q].req = r /\ cash'[q].after - cash'[q].before = change
    <2>1. balance[r.account] \in Int
      <3>1. balance \in [Accounts -> Int]
        BY AccountsAssumption DEF Inv, TypeOK, TablesOK, Balances
      <3>2. QED
        BY <1>2, <3>1
    <2>2. QED
      BY <1>1, <1>3, <2>1
  <1>8. \A o \in CashEntries : cash'[o] = cash[o]
    BY <1>3, <1>4 DEF CashEntries
  <1>9. QED
    BY <1>1, <1>2, <1>4, <1>5, <1>6, <1>7, <1>8 DEF q, change

LEMMA OperateKeepsGap ==
  ASSUME Inv, Inv', FinitelyMany, NEW r \in CashRequests, L!Operate(r)
  PROVE  KeepsGap
  <1> DEFINE q == r.key
             change == IF r.operation = "DEBIT" THEN -r.amount ELSE r.amount
  <1> HIDE DEF q, change
  <1>1. /\ q \notin CashEntries /\ CashEntries' = CashEntries \cup {q}
        /\ \A o \in CashEntries : cash'[o] = cash[o]
        /\ cash'[q].req = r /\ change \in Int
        /\ cash'[q].after - cash'[q].before = change
        /\ r.account \in Accounts
        /\ balance' = [balance EXCEPT ![r.account] = balance[r.account] + change]
        /\ \A j \in Keys : AskedOf(j)' = AskedOf(j) /\ StateOf(j)' = StateOf(j)
        /\ FinitelyMany'
    BY OperateOfOne DEF q, change
  <1>2. ASSUME NEW a \in Accounts
        PROVE  Gap(a)' = Gap(a)
    <2> DEFINE m == IF r.account = a THEN change ELSE 0
    <2>1. balance \in [Accounts -> Int]
      BY AccountsAssumption DEF Inv, TypeOK, TablesOK, Balances
    <2>2. Operated(q, a)' = m
      BY <1>1 DEF Operated
    <2>3. CashSum(a)' = CashSum(a) + m
      <3> DEFINE S == CashEntries
                 f == [o \in S |-> Operated(o, a)]
                 g == [o \in S \cup {q} |-> Operated(o, a)']
      <3>1. f \in [S -> Int] /\ g \in [S \cup {q} -> Int]
        BY <1>1, OperatedIsInteger, MovedNext DEF CashRowsAreIntegers
      <3>2. \A o \in S : g[o] = f[o]
        BY <1>1 DEF Operated
      <3>3. CashSum(a)' = SumFunction(g) /\ CashSum(a) = SumFunction(f)
        BY <1>1 DEF CashSum
      <3>4. g[q] = m
        BY <2>2
      <3>5. IsFiniteSet(S) /\ q \notin S
        BY <1>1 DEF FinitelyMany
      <3> HIDE DEF S, f, g
      <3>6. QED
        BY <3>1, <3>2, <3>3, <3>4, <3>5, SumOfOneMore
    <2>4. TransferSum(a)' = TransferSum(a) + 0
      BY <1>1, NothingMoved, TransferSumIsInteger
    <2>5. m \in Int /\ balance'[a] = balance[a] + 0 + m
      BY <1>1, <2>1
    <2> HIDE DEF m
    <2>6. QED
      BY <1>1, <2>3, <2>4, <2>5, GapIsKept
  <1>3. QED
    BY <1>1, <1>2 DEF KeepsGap

LEMMA SameLedgerKeepsGap ==
  ASSUME Inv, Inv', FinitelyMany, UNCHANGED L!ledger
  PROVE  KeepsGap
  <1>1. /\ balance' = balance /\ cash' = cash
        /\ [j \in Keys |-> AskedOf(j)'] = [j \in Keys |-> AskedOf(j)]
        /\ [j \in Keys |-> StateOf(j)'] = [j \in Keys |-> StateOf(j)]
    BY DEF L!ledger
  <1>2. \A j \in Keys : AskedOf(j)' = AskedOf(j) /\ StateOf(j)' = StateOf(j)
    BY <1>1
  <1>3. FinitelyMany'
    BY <1>1, <1>2, EntriesOfLedger DEF FinitelyMany, CashEntries
  <1>4. ASSUME NEW a \in Accounts
        PROVE  Gap(a)' = Gap(a)
    BY <1>1, <1>2, NothingMoved, NoCash, GapOfSums
  <1>5. QED
    BY <1>3, <1>4 DEF KeepsGap

\* A settlement from a stale balance writes no row of its own either.
LEMMA StaleKeepsRows ==
  ASSUME Inv, Inv', FinitelyMany, StaleSettlement
  PROVE  FinitelyMany'
  <1>1. PICK w \in Workers : /\ pc[w] = "settle"
                             /\ L!End(claim[w], Outcome[verdict[w]])
    BY DEF StaleSettlement
  <1>2. claim[w] \in Keys /\ verdict[w] \in {"ALLOW", "BLOCK"}
    BY <1>1, ClaimedRows DEF Working, Inv, SessionsConsistent, WorkerInv
  <1>3. Outcome[verdict[w]] # "absent"
    BY <1>2 DEF Outcome
  <1>4. QED
    BY <1>1, <1>2, <1>3, EndOfOne

LEMMA NextKeepsGap ==
  ASSUME Inv, Inv', LockInv, FinitelyMany, [Next]_vars
  PROVE  FinitelyMany' /\ (KeepsGap \/ (Workers # {} /\ StaleSettlement))
  <1>1. [L!Next \/ (Workers # {} /\ StaleSettlement)]_(L!ledger)
    BY NextLedger
  <1>2. CASE L!Next
    BY <1>2, ReserveKeepsGap, TransferEndKeepsGap, OperateKeepsGap
    DEF L!Next, KeepsGap
  <1>3. CASE UNCHANGED L!ledger
    BY <1>3, SameLedgerKeepsGap DEF KeepsGap
  <1>4. CASE Workers # {} /\ StaleSettlement
    BY <1>4, StaleKeepsRows
  <1>5. QED
    BY <1>1, <1>2, <1>3, <1>4

LEMMA InitExplained == Init => FinitelyMany /\ LedgerExplainsBalance
  <1> SUFFICES ASSUME Init
               PROVE  FinitelyMany /\ LedgerExplainsBalance
    OBVIOUS
  <1>1. TransferEntries = {} /\ CashEntries = {} /\ balance = InitialBalance
    BY DEF Init, StoreInit, TransferEntries, CashEntries
  <1>2. FinitelyMany
    BY <1>1, FS_EmptySet DEF FinitelyMany
  <1>3. ASSUME NEW a \in Accounts
        PROVE  balance[a] = Explained(a)
    <2>1. InitialBalance[a] \in Int
      BY AccountsAssumption DEF Balances
    <2>2. TransferSum(a) = 0 /\ CashSum(a) = 0
      BY <1>1, SumOverDomain, SumOfNothing DEF TransferSum, CashSum
    <2>3. QED
      BY <1>1, <2>1, <2>2 DEF Explained, TransferSum, CashSum
  <1>4. QED
    BY <1>2, <1>3 DEF LedgerExplainsBalance

\* With no settlement from a stale balance, and the rows finitely many.
ExplainedInv == FinitelyMany /\ LedgerExplainsBalance

LEMMA NextExplained ==
  ASSUME Inv, Inv', LockInv, ExplainedInv, [Next]_vars, ~StaleSettlement
  PROVE  ExplainedInv'
  <1>1. KeepsGap
    BY NextKeepsGap DEF ExplainedInv
  <1>2. ASSUME NEW a \in Accounts
        PROVE  balance'[a] = Explained(a)'
    <2>1. FinitelyMany /\ FinitelyMany' /\ Gap(a)' = Gap(a)
      BY <1>1 DEF KeepsGap, ExplainedInv
    <2>2. balance[a] = Explained(a)
      BY DEF ExplainedInv, LedgerExplainsBalance
    <2>3. balance[a] \in Int /\ balance'[a] \in Int /\ InitialBalance[a] \in Int
      BY AccountsAssumption DEF Inv, TypeOK, TablesOK, Balances
    <2>4. Explained(a)' \in Int
      <3>1. TransferSum(a)' \in Int /\ CashSum(a)' \in Int
        BY <2>1, SumsNext DEF SumsAreIntegers
      <3>2. QED
        BY <2>3, <3>1 DEF Explained, TransferSum, CashSum
    <2>5. QED
      BY <2>1, <2>2, <2>3, <2>4 DEF Gap
  <1>3. QED
    BY <1>1, <1>2 DEF KeepsGap, ExplainedInv, LedgerExplainsBalance

LEMMA UnchangedExplained ==
  ASSUME ExplainedInv, UNCHANGED vars
  PROVE  ExplainedInv'
  BY DEF ExplainedInv, FinitelyMany, TransferEntries, CashEntries,
         LedgerExplainsBalance, Explained, Moved, Operated, vars

\* No step of a transfer, a cash operation, a crash or a worker changes a
\* balance by anything its rows do not say, but a settlement that adds to a
\* balance loaded before another session changed it (risk_worker.py:177-185).
THEOREM OnlyStaleSettlesUnbalance ==
  Spec => [][\/ StaleSettlement
             \/ \A a \in Accounts : balance'[a] - Explained(a)'
                                      = balance[a] - Explained(a)]_vars
  <1>1. Init => FinitelyMany
    BY InitExplained
  <1>2. Inv /\ Inv' /\ LockInv /\ FinitelyMany /\ [Next]_vars => FinitelyMany'
    BY NextKeepsGap
  <1>3. Inv /\ Inv' /\ LockInv /\ FinitelyMany /\ [Next]_vars =>
          [\/ StaleSettlement
           \/ \A a \in Accounts : balance'[a] - Explained(a)'
                                    = balance[a] - Explained(a)]_vars
    BY NextKeepsGap DEF KeepsGap, Gap
  <1>4. QED
    BY <1>1, <1>2, <1>3, InvariantHolds, LockInvHolds, PTL DEF Spec

\* While no settlement is stale, every balance is what its rows add up to,
\* whatever the sessions interleave and wherever they are killed.
THEOREM FreshSettlementsBalance ==
  Spec /\ [][~StaleSettlement]_vars => []LedgerExplainsBalance
  <1>1. Init => ExplainedInv
    BY InitExplained DEF ExplainedInv
  <1>2. ASSUME Inv, Inv', LockInv, ExplainedInv, [Next]_vars,
               [~StaleSettlement]_vars
        PROVE  ExplainedInv'
    <2>1. CASE ~StaleSettlement
      BY <1>2, <2>1, NextExplained
    <2>2. CASE UNCHANGED vars
      BY <1>2, <2>2, UnchangedExplained
    <2>3. QED
      BY <1>2, <2>1, <2>2
  <1>3. ExplainedInv => LedgerExplainsBalance
    BY DEF ExplainedInv
  <1>4. QED
    BY <1>1, <1>2, <1>3, InvariantHolds, LockInvHolds, PTL DEF Spec

\* The two services by themselves never lose or repeat an update of a balance.
THEOREM ServicesExplainBalance ==
  ASSUME Workers = {}
  PROVE  Spec => []LedgerExplainsBalance
  <1>1. [Next]_vars => [~StaleSettlement]_vars
    BY DEF StaleSettlement
  <1>2. QED
    BY <1>1, FreshSettlementsBalance, PTL DEF Spec

-------------------------------------------------------------------------------
(***************************************************************************)
(* Money is conserved over all accounts together.  The argument is the one *)
(* above, with the sum of the balances in the place of one balance and     *)
(* what is reserved in the place of what was moved.                        *)
(***************************************************************************)
ReservedBy(r, state) ==
  IF state \in {"reserved", "held", "abandoned"} THEN r.amount ELSE 0

AllReserved == SumFunction([k \in TransferEntries |-> Reserved(k)])
AllCash == SumFunction([q \in CashEntries |-> NetCash(q)])

RowsTellReserved ==
  \A k \in TransferEntries :
    Reserved(k) = ReservedBy(AskedOf(k), StateOf(k)) /\ Reserved(k) \in Int

LEMMA ReservedByState == Inv => RowsTellReserved
  <1> SUFFICES ASSUME Inv, NEW k \in TransferEntries
               PROVE  /\ Reserved(k) = ReservedBy(AskedOf(k), StateOf(k))
                      /\ Reserved(k) \in Int
    BY DEF RowsTellReserved
  <1>1. txn[k] \in TxnRows /\ txn[k] # NoRow /\ AskedOf(k) = txn[k].req
    BY DEF Inv, TypeOK, TablesOK, TransferEntries, AskedOf
  <1>2. txn[k].req.amount \in Int
    BY <1>1, RequestsAssumption DEF TxnRows
  <1>3. StateOf(k) \in {"reserved", "held", "abandoned"} <=>
          txn[k].status = "PENDING"
    BY <1>1 DEF Inv, RowsAgree, TransferEntries, StateOf, Outcome
  <1>4. QED
    BY <1>1, <1>2, <1>3 DEF Reserved, ReservedBy

CashRowsTellNet == \A q \in CashEntries : NetCash(q) \in Int

LEMMA NetCashIsInteger == Inv => CashRowsTellNet
  <1> SUFFICES ASSUME Inv, NEW q \in CashEntries
               PROVE  NetCash(q) \in Int
    BY DEF CashRowsTellNet
  <1>1. cash[q] \in CashRows
    BY DEF Inv, TypeOK, TablesOK, CashEntries
  <1>2. cash[q].before \in Int /\ cash[q].after \in Int
    BY <1>1, AccountsAssumption DEF CashRows, Balances
  <1>3. QED
    BY <1>2 DEF NetCash

TotalsAreIntegers ==
  SumFunction(balance) \in Int /\ AllReserved \in Int /\ AllCash \in Int

LEMMA TotalsInteger == Inv /\ FinitelyMany => TotalsAreIntegers
  <1> SUFFICES ASSUME Inv, FinitelyMany
               PROVE  TotalsAreIntegers
    OBVIOUS
  <1>1. /\ balance \in [Accounts -> Int]
        /\ [k \in TransferEntries |-> Reserved(k)] \in [TransferEntries -> Int]
        /\ [q \in CashEntries |-> NetCash(q)] \in [CashEntries -> Int]
    BY ReservedByState, NetCashIsInteger, AccountsAssumption
    DEF RowsTellReserved, CashRowsTellNet, Inv, TypeOK, TablesOK, Balances
  <1>2. QED
    BY <1>1, AccountsAssumption, SumFunctionIsInteger
    DEF FinitelyMany, TotalsAreIntegers, AllReserved, AllCash

\* The same of the state after a step.
LEMMA TotalsNext ==
  Inv' => /\ RowsTellReserved' /\ CashRowsTellNet'
          /\ FinitelyMany' => TotalsAreIntegers'
  BY ReservedByState, NetCashIsInteger, TotalsInteger, PTL

\* The sum of the balances changes by what one account gets.
LEMMA TotalBalanceWith ==
  ASSUME Inv, NEW a \in Accounts, NEW n \in Int,
         balance' = [balance EXCEPT ![a] = balance[a] + n]
  PROVE  SumFunction(balance') = SumFunction(balance) + n
  <1>1. balance \in [Accounts -> Int]
    BY AccountsAssumption DEF Inv, TypeOK, TablesOK, Balances
  <1>2. IsFiniteSet(Accounts)
    BY AccountsAssumption
  <1> DEFINE f == balance
             g == balance'
  <1>3. g[a] = f[a] + n /\ \A b \in Accounts \ {a} : g[b] = f[b]
    BY <1>1
  <1>4. f \in [Accounts -> Int] /\ g \in [Accounts -> Int]
    BY <1>1
  <1> HIDE DEF f, g
  <1>5. SumFunction(g) = SumFunction(f) - f[a] + g[a]
    BY <1>2, <1>3, <1>4, SumOfChanged
  <1>6. SumFunction(f) \in Int /\ f[a] \in Int
    BY <1>2, <1>4, SumFunctionIsInteger
  <1>7. SumFunction(g) = SumFunction(f) + n
    BY <1>3, <1>5, <1>6
  <1>8. QED
    BY <1>7 DEF f, g

\* A step keeps what the accounts and the reservations hold beyond the cash.
Money == SumFunction(balance) + AllReserved - AllCash

LEMMA MoneyIsKept ==
  ASSUME Inv, Inv', FinitelyMany, FinitelyMany', NEW n \in Int, NEW m \in Int,
         SumFunction(balance') = SumFunction(balance) + n + m,
         AllReserved' = AllReserved - n, AllCash' = AllCash + m
  PROVE  Money' = Money
  <1>1. TotalsAreIntegers /\ TotalsAreIntegers'
    BY TotalsInteger, TotalsNext
  <1>2. QED
    BY <1>1 DEF TotalsAreIntegers, Money

LEMMA ReserveKeepsMoney ==
  ASSUME Inv, Inv', FinitelyMany, NEW r \in Requests, L!Reserve(r)
  PROVE  Money' = Money
  <1> DEFINE k == r.key
  <1> HIDE DEF k
  <1>1. /\ k \in Keys \ TransferEntries
        /\ TransferEntries' = TransferEntries \cup {k}
        /\ AskedOf(k)' = r /\ StateOf(k)' = "reserved"
        /\ \A j \in Keys \ {k} :
             AskedOf(j)' = AskedOf(j) /\ StateOf(j)' = StateOf(j)
        /\ r.sender \in Accounts /\ r.amount \in Int
        /\ balance' = [balance EXCEPT ![r.sender] =
                         balance[r.sender] + (-r.amount)]
        /\ UNCHANGED cash
        /\ FinitelyMany'
    BY ReserveOfOne DEF k
  <1>2. RowsTellReserved /\ RowsTellReserved' /\ TotalsAreIntegers
    BY ReservedByState, TotalsNext, TotalsInteger
  <1>3. AllReserved' = AllReserved + r.amount
    <2> DEFINE S == TransferEntries
               f == [j \in S |-> Reserved(j)]
               g == [j \in S \cup {k} |-> Reserved(j)']
    <2>1. f \in [S -> Int] /\ g \in [S \cup {k} -> Int]
      BY <1>1, <1>2 DEF RowsTellReserved
    <2>2. \A j \in S : g[j] = f[j]
      BY <1>1, <1>2 DEF RowsTellReserved, TransferEntries
    <2>3. g[k] = r.amount
      BY <1>1, <1>2 DEF RowsTellReserved, ReservedBy
    <2>4. AllReserved' = SumFunction(g) /\ AllReserved = SumFunction(f)
      BY <1>1 DEF AllReserved
    <2>5. IsFiniteSet(S) /\ k \notin S
      BY <1>1 DEF FinitelyMany
    <2> HIDE DEF S, f, g
    <2>6. QED
      BY <2>1, <2>2, <2>3, <2>4, <2>5, SumOfOneMore
  <1>4. AllCash' = AllCash + 0
    <2>1. AllCash' = AllCash
      BY <1>1 DEF AllCash, CashEntries, NetCash
    <2>2. QED
      BY <1>2, <2>1 DEF TotalsAreIntegers
  <1>5. PICK n \in Int : n = -r.amount
    BY <1>1
  <1>6. SumFunction(balance') = SumFunction(balance) + n
    BY <1>1, <1>5, TotalBalanceWith
  <1>7. SumFunction(balance') = SumFunction(balance) + n + 0
    BY <1>2, <1>5, <1>6 DEF TotalsAreIntegers
  <1>8. AllReserved' = AllReserved - n
    BY <1>1, <1>2, <1>3, <1>5 DEF TotalsAreIntegers
  <1>9. FinitelyMany' /\ 0 \in Int
    BY <1>1
  <1>10. QED
    BY <1>4, <1>5, <1>7, <1>8, <1>9, MoneyIsKept

LEMMA EndKeepsMoney ==
  ASSUME Inv, Inv', FinitelyMany, NEW k \in Keys, NEW outcome, L!End(k, outcome),
         outcome # "absent", NEW n \in Int,
         SumFunction(balance') = SumFunction(balance) + n,
         ReservedBy(AskedOf(k), outcome) = ReservedBy(AskedOf(k), "reserved") - n
  PROVE  Money' = Money
  <1>1. /\ k \in TransferEntries /\ TransferEntries' = TransferEntries
        /\ StateOf(k) = "reserved" /\ StateOf(k)' = outcome
        /\ AskedOf(k)' = AskedOf(k)
        /\ \A j \in Keys \ {k} :
             AskedOf(j)' = AskedOf(j) /\ StateOf(j)' = StateOf(j)
        /\ UNCHANGED cash
        /\ FinitelyMany'
    BY EndOfOne
  <1>2. RowsTellReserved /\ RowsTellReserved' /\ TotalsAreIntegers
    BY ReservedByState, TotalsNext, TotalsInteger
  <1>3. AllReserved' = AllReserved - Reserved(k) + Reserved(k)'
    <2> DEFINE S == TransferEntries
               f == [j \in S |-> Reserved(j)]
               g == [j \in S |-> Reserved(j)']
    <2>1. f \in [S -> Int] /\ g \in [S -> Int]
      BY <1>1, <1>2 DEF RowsTellReserved
    <2>2. \A j \in S \ {k} : g[j] = f[j]
      BY <1>1, <1>2 DEF RowsTellReserved, TransferEntries
    <2>3. f[k] = Reserved(k) /\ g[k] = Reserved(k)'
      BY <1>1
    <2>4. AllReserved' = SumFunction(g) /\ AllReserved = SumFunction(f)
      BY <1>1 DEF AllReserved
    <2>5. IsFiniteSet(S) /\ k \in S
      BY <1>1 DEF FinitelyMany
    <2> HIDE DEF S, f, g
    <2>6. QED
      BY <2>1, <2>2, <2>3, <2>4, <2>5, SumOfChanged
  <1>4. /\ Reserved(k) \in Int /\ Reserved(k)' \in Int
        /\ Reserved(k)' = Reserved(k) - n
    BY <1>1, <1>2 DEF RowsTellReserved
  <1>5. AllReserved' = AllReserved - n
    BY <1>2, <1>3, <1>4 DEF TotalsAreIntegers
  <1>6. AllCash' = AllCash + 0
    <2>1. AllCash' = AllCash
      BY <1>1 DEF AllCash, CashEntries, NetCash
    <2>2. QED
      BY <1>2, <2>1 DEF TotalsAreIntegers
  <1>7. SumFunction(balance') = SumFunction(balance) + n + 0
    BY <1>2 DEF TotalsAreIntegers
  <1>8. FinitelyMany' /\ 0 \in Int
    BY <1>1
  <1>9. QED
    BY <1>5, <1>6, <1>7, <1>8, MoneyIsKept

LEMMA TransferEndKeepsMoney ==
  ASSUME Inv, Inv', FinitelyMany, NEW k \in Keys,
         L!Complete(k) \/ L!Refund(k) \/ L!Keep(k)
  PROVE  Money' = Money
  <1> DEFINE r == AskedOf(k)
  <1>1. StateOf(k) = "reserved" /\ k \in TransferEntries
    <2>1. StateOf(k) = "reserved"
      BY DEF L!Complete, L!Refund, L!Keep, L!End
    <2>2. QED
      BY <2>1, EntriesOfLedger
  <1>2. /\ r.amount \in Int /\ r.receiver \in Accounts /\ r.sender \in Accounts
        /\ [j \in Keys |-> AskedOf(j)][k] = r
    BY <1>1, MovedByState, RequestsAssumption
    DEF RowsTellMoves, Inv, SessionsConsistent, RowsRefer, AskedOf,
        TransferEntries
  <1>3. TotalsAreIntegers
    BY TotalsInteger
  <1> HIDE DEF r
  <1>4. CASE L!Complete(k)
    <2>1. balance' = [balance EXCEPT ![r.receiver] = balance[r.receiver] + r.amount]
      BY <1>2, <1>4 DEF L!Complete, L!Add
    <2>2. SumFunction(balance') = SumFunction(balance) + r.amount
      BY <1>2, <2>1, TotalBalanceWith
    <2>3. ReservedBy(r, "completed") = ReservedBy(r, "reserved") - r.amount
      BY <1>2 DEF ReservedBy
    <2>4. L!End(k, "completed")
      BY <1>4 DEF L!Complete
    <2>5. QED
      BY <1>2, <2>2, <2>3, <2>4, EndKeepsMoney DEF r
  <1>5. CASE L!Refund(k)
    <2>1. balance' = [balance EXCEPT ![r.sender] = balance[r.sender] + r.amount]
      BY <1>2, <1>5 DEF L!Refund, L!Add
    <2>2. SumFunction(balance') = SumFunction(balance) + r.amount
      BY <1>2, <2>1, TotalBalanceWith
    <2>3. ReservedBy(r, "refunded") = ReservedBy(r, "reserved") - r.amount
      BY <1>2 DEF ReservedBy
    <2>4. L!End(k, "refunded")
      BY <1>5 DEF L!Refund
    <2>5. QED
      BY <1>2, <2>2, <2>3, <2>4, EndKeepsMoney DEF r
  <1>6. ASSUME NEW outcome \in {"held", "abandoned"}, L!End(k, outcome),
               balance' = balance
        PROVE  Money' = Money
    <2>1. ReservedBy(r, outcome) = ReservedBy(r, "reserved") - 0
      BY <1>2, <1>6 DEF ReservedBy
    <2>2. SumFunction(balance') = SumFunction(balance) + 0
      BY <1>3, <1>6 DEF TotalsAreIntegers
    <2>3. QED
      BY <1>6, <2>1, <2>2, EndKeepsMoney DEF r
  <1>7. CASE L!Keep(k)
    BY <1>6, <1>7 DEF L!Keep
  <1>8. QED
    BY <1>4, <1>5, <1>7

\* Without a change to a transfer the reservations stay.
LEMMA NothingReserved ==
  ASSUME Inv, Inv',
         \A k \in Keys : AskedOf(k)' = AskedOf(k) /\ StateOf(k)' = StateOf(k)
  PROVE  AllReserved' = AllReserved
  <1>1. TransferEntries' = TransferEntries
    BY EntriesOfLedger
  <1>2. RowsTellReserved /\ RowsTellReserved'
    BY ReservedByState, TotalsNext
  <1>3. \A k \in TransferEntries : Reserved(k)' = Reserved(k)
    <2>1. \A k \in TransferEntries : k \in Keys /\ k \in TransferEntries'
      BY <1>1 DEF TransferEntries
    <2>2. QED
      BY <1>2, <2>1 DEF RowsTellReserved
  <1>4. QED
    BY <1>1, <1>3 DEF AllReserved

LEMMA OperateKeepsMoney ==
  ASSUME Inv, Inv', FinitelyMany, NEW r \in CashRequests, L!Operate(r)
  PROVE  Money' = Money
  <1> DEFINE q == r.key
             change == IF r.operation = "DEBIT" THEN -r.amount ELSE r.amount
  <1> HIDE DEF q, change
  <1>1. /\ q \notin CashEntries /\ CashEntries' = CashEntries \cup {q}
        /\ \A o \in CashEntries : cash'[o] = cash[o]
        /\ change \in Int
        /\ cash'[q].after - cash'[q].before = change
        /\ r.account \in Accounts
        /\ balance' = [balance EXCEPT ![r.account] = balance[r.account] + change]
        /\ \A j \in Keys : AskedOf(j)' = AskedOf(j) /\ StateOf(j)' = StateOf(j)
        /\ FinitelyMany'
    BY OperateOfOne DEF q, change
  <1>2. CashRowsTellNet /\ CashRowsTellNet' /\ TotalsAreIntegers
    BY NetCashIsInteger, TotalsNext, TotalsInteger
  <1>3. AllCash' = AllCash + change
    <2> DEFINE S == CashEntries
               f == [o \in S |-> NetCash(o)]
               g == [o \in S \cup {q} |-> NetCash(o)']
    <2>1. f \in [S -> Int] /\ g \in [S \cup {q} -> Int]
      BY <1>1, <1>2 DEF CashRowsTellNet
    <2>2. \A o \in S : g[o] = f[o]
      BY <1>1 DEF NetCash
    <2>3. g[q] = change
      BY <1>1 DEF NetCash
    <2>4. AllCash' = SumFunction(g) /\ AllCash = SumFunction(f)
      BY <1>1 DEF AllCash
    <2>5. IsFiniteSet(S) /\ q \notin S
      BY <1>1 DEF FinitelyMany
    <2> HIDE DEF S, f, g
    <2>6. QED
      BY <2>1, <2>2, <2>3, <2>4, <2>5, SumOfOneMore
  <1>4. AllReserved' = AllReserved - 0
    BY <1>1, <1>2, NothingReserved DEF TotalsAreIntegers
  <1>5. SumFunction(balance') = SumFunction(balance) + change
    BY <1>1, TotalBalanceWith
  <1>6. SumFunction(balance') = SumFunction(balance) + 0 + change
    BY <1>2, <1>5 DEF TotalsAreIntegers
  <1>7. FinitelyMany' /\ change \in Int /\ 0 \in Int
    BY <1>1
  <1>8. QED
    BY <1>3, <1>4, <1>6, <1>7, MoneyIsKept

LEMMA NextKeepsMoney ==
  ASSUME Inv, Inv', LockInv, FinitelyMany, [Next]_vars, ~StaleSettlement
  PROVE  Money' = Money
  <1>1. [L!Next]_(L!ledger)
    BY NextLedger
  <1>2. CASE L!Next
    BY <1>2, ReserveKeepsMoney, TransferEndKeepsMoney, OperateKeepsMoney
    DEF L!Next
  <1>3. CASE UNCHANGED L!ledger
    <2>1. /\ balance' = balance /\ cash' = cash
          /\ [j \in Keys |-> AskedOf(j)'] = [j \in Keys |-> AskedOf(j)]
          /\ [j \in Keys |-> StateOf(j)'] = [j \in Keys |-> StateOf(j)]
      BY <1>3 DEF L!ledger
    <2>2. \A j \in Keys : AskedOf(j)' = AskedOf(j) /\ StateOf(j)' = StateOf(j)
      BY <2>1
    <2>3. AllReserved' = AllReserved
      BY <2>2, NothingReserved
    <2>4. AllCash' = AllCash
      BY <2>1 DEF AllCash, CashEntries, NetCash
    <2>5. QED
      BY <2>1, <2>3, <2>4 DEF Money
  <1>4. QED
    BY <1>1, <1>2, <1>3

LEMMA MoneyConservedAs ==
  /\ MoneyConserved <=>
       SumFunction(balance) + AllReserved = SumFunction(InitialBalance) + AllCash
  /\ MoneyConserved' <=>
       SumFunction(balance') + AllReserved'
         = SumFunction(InitialBalance) + AllCash'
  BY DEF MoneyConserved, AllReserved, AllCash

MoneyInv == FinitelyMany /\ MoneyConserved

LEMMA InitMoney == Init => MoneyInv
  <1> SUFFICES ASSUME Init
               PROVE  MoneyInv
    OBVIOUS
  <1>1. TransferEntries = {} /\ CashEntries = {} /\ balance = InitialBalance
    BY DEF Init, StoreInit, TransferEntries, CashEntries
  <1>2. AllReserved = 0 /\ AllCash = 0
    BY <1>1, SumOverDomain, SumOfNothing DEF AllReserved, AllCash
  <1>3. MoneyConserved
    BY <1>1, <1>2, MoneyConservedAs
  <1>4. QED
    BY <1>3, InitExplained DEF MoneyInv

LEMMA NextMoney ==
  ASSUME Inv, Inv', LockInv, MoneyInv, [Next]_vars, [~StaleSettlement]_vars
  PROVE  MoneyInv'
  <1>1. CASE ~StaleSettlement
    <2>1. FinitelyMany /\ FinitelyMany' /\ Money' = Money
      BY <1>1, NextKeepsMoney, NextKeepsGap DEF MoneyInv
    <2>2. TotalsAreIntegers /\ TotalsAreIntegers'
      BY <2>1, TotalsInteger, TotalsNext
    <2>3. SumFunction(InitialBalance) \in Int
      <3>1. InitialBalance \in [Accounts -> Int] /\ IsFiniteSet(Accounts)
        BY AccountsAssumption DEF Balances
      <3>2. QED
        BY <3>1, SumFunctionIsInteger
    <2>4. MoneyConserved'
      BY <2>1, <2>2, <2>3, MoneyConservedAs DEF MoneyInv, TotalsAreIntegers, Money
    <2>5. QED
      BY <2>1, <2>4 DEF MoneyInv
  <1>2. CASE UNCHANGED vars
    BY <1>2 DEF MoneyInv, FinitelyMany, TransferEntries, CashEntries,
                MoneyConserved, Reserved, NetCash, vars
  <1>3. QED
    BY <1>1, <1>2

\* While no settlement is stale, transfers, retries, crashes and deadlock
\* aborts make no money and destroy none: accounts and reservations hold what
\* the accounts opened with and what cash brought (transaction_service.py:
\* 238-247, risk_worker.py:264-287, cash_service.py:60-85).
THEOREM FreshSettlementsConserve ==
  Spec /\ [][~StaleSettlement]_vars => []MoneyConserved
  <1>1. Init => MoneyInv
    BY InitMoney
  <1>2. Inv /\ Inv' /\ LockInv /\ MoneyInv /\ [Next]_vars
          /\ [~StaleSettlement]_vars => MoneyInv'
    BY NextMoney
  <1>3. MoneyInv => MoneyConserved
    BY DEF MoneyInv
  <1>4. QED
    BY <1>1, <1>2, <1>3, InvariantHolds, LockInvHolds, PTL DEF Spec

\* The two services by themselves conserve money.
THEOREM ServicesConserveMoney ==
  ASSUME Workers = {}
  PROVE  Spec => []MoneyConserved
  <1>1. [Next]_vars => [~StaleSettlement]_vars
    BY DEF StaleSettlement
  <1>2. QED
    BY <1>1, FreshSettlementsConserve, PTL DEF Spec
===============================================================================
