---------------------------- MODULE PlatformLedger ----------------------------
(***************************************************************************)
(* The ledger the platform's tables represent, and how far the platform    *)
(* implements it.                                                          *)
(***************************************************************************)
EXTENDS TransactionPlatform

\* The request of the transfer with key k.
AskedOf(k) == IF txn[k] = NoRow THEN NoRow ELSE txn[k].req

\* What a decision makes of a transfer.
Outcome == [ALLOW |-> "completed", BLOCK |-> "refunded", REVIEW |-> "held"]

\* What the rows of transactions and risk_jobs say has become of it.
StateOf(k) ==
  IF txn[k] = NoRow THEN "absent"
  ELSE IF txn[k].decision # "NONE" THEN Outcome[txn[k].decision]
  ELSE IF job[k].status = "FAILED" THEN "abandoned"
  ELSE "reserved"

L == INSTANCE Ledger WITH
       TransferKeys <- Keys, OperationKeys <- CashKeys,
       Transfers <- Requests, Operations <- CashRequests,
       InitialFunds <- InitialBalance, Limit <- MaxBalance, None <- NoRow,
       funds <- balance, operation <- cash,
       asked <- [k \in Keys |-> AskedOf(k)],
       state <- [k \in Keys |-> StateOf(k)]

\* The two services by themselves are the ledger: whatever their sessions
\* interleave, and wherever they are killed, each request takes effect in
\* one step and from the balance there is.
ServicesImplementLedger == L!Spec

\* A settlement whose session loaded the account before another session
\* changed it (risk_worker.py:177-185): it still decides the transfer and
\* changes no other balance.
StaleSettlement ==
  \E w \in Workers :
    /\ pc[w] = "settle"
    /\ loaded[w][Credited(w)] # balance[Credited(w)]
    /\ L!End(claim[w], Outcome[verdict[w]])
    /\ \A a \in Accounts \ {Credited(w)} : balance'[a] = balance[a]

\* With the workers too, crashes and deadlock aborts included, every step is
\* a step of the ledger but that one (risk_worker.py:272 and 279).
OnlyStaleSettlesLeaveLedger ==
  L!Init /\ [][L!Next \/ StaleSettlement]_(L!ledger)
==============================================================================
