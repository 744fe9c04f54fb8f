------------------------------ MODULE RiskWorker ------------------------------
(***************************************************************************)
(* process_next_risk_job and run_worker (app/workers/risk_worker.py): a    *)
(* worker claims the oldest due risk job, scores its transaction and       *)
(* settles it, all in one database transaction.  The decision is any of    *)
(* the engine's three, and scoring may raise.                              *)
(***************************************************************************)
EXTENDS Store

\* Mutant: FOR UPDATE SKIP LOCKED is left out.
ClaimableWithoutLock(k) ==
  job[k] # NoRow /\ job[k].status = "PENDING" /\ job[k].due

\* Mutant: the status of the job is not looked at.
ClaimableAnyStatus(k) ==
  /\ job[k] # NoRow
  /\ job[k].due
  /\ \A w \in Workers : claim[w] # k

\* Mutant: a job that failed once is never claimed again.
ClaimableOnce(k) ==
  /\ job[k] # NoRow
  /\ job[k].status = "PENDING"
  /\ job[k].attempts = 0
  /\ \A w \in Workers : claim[w] # k

\* The rows the claiming SELECT ranges over; SKIP LOCKED passes over the
\* jobs other workers hold.
Claimable(k) ==
  /\ job[k] # NoRow
  /\ job[k].status = "PENDING"
  /\ job[k].due
  /\ \A w \in Workers : claim[w] # k

\* Step 1: ORDER BY available_at LIMIT 1 FOR UPDATE SKIP LOCKED.
Claim(w, k) ==
  /\ pc[w] = "idle"
  /\ Claimable(k)
  /\ \A j \in Keys : Claimable(j) => job[k].at <= job[j].at
  /\ claim' = [claim EXCEPT ![w] = k]
  /\ pc' = [pc EXCEPT ![w] = "load"]
  /\ UNCHANGED <<tables, clock, request, loaded, verdict, stamp>>

\* Steps 2 to 4: plain SELECTs put both accounts in the identity map.
LoadAccounts(w) ==
  /\ pc[w] = "load"
  /\ loaded' = [loaded EXCEPT ![w] =
       [a \in Accounts |->
          IF a \in {Sender(w), Receiver(w)} THEN balance[a] ELSE Unloaded]]
  /\ pc' = [pc EXCEPT ![w] = "score"]
  /\ UNCHANGED <<tables, clock, request, claim, verdict, stamp>>

\* Mutant: a job that used its attempts is tried once more.
ScoreFailsOffByOne(w) ==
  LET k == claim[w]
      attempts == job[k].attempts + 1
      exhausted == attempts > MaxAttempts IN
  /\ pc[w] = "score"
  /\ job' = [job EXCEPT ![k].status = IF exhausted THEN "FAILED" ELSE "PENDING",
                        ![k].attempts = attempts,
                        ![k].due = exhausted]
  /\ EndSession(w, "idle")
  /\ UNCHANGED <<balance, txn, cash, clock, request>>

\* Mutant: max_attempts is not looked at.
ScoreFailsForever(w) ==
  LET k == claim[w] IN
  /\ pc[w] = "score"
  /\ job' = [job EXCEPT ![k].attempts = job[k].attempts + 1, ![k].due = FALSE]
  /\ EndSession(w, "idle")
  /\ UNCHANGED <<balance, txn, cash, clock, request>>

\* Step 5 raises: the attempt is recorded and committed.
ScoreFails(w) ==
  LET k == claim[w]
      attempts == job[k].attempts + 1
      exhausted == attempts >= MaxAttempts IN
  /\ pc[w] = "score"
  /\ job' = [job EXCEPT ![k].status = IF exhausted THEN "FAILED" ELSE "PENDING",
                        ![k].attempts = attempts,
                        ![k].due = exhausted]
  /\ EndSession(w, "idle")
  /\ UNCHANGED <<balance, txn, cash, clock, request>>

\* Steps 5 and 6 with ALLOW or BLOCK: the accounts must be locked.
Decide(w, d) ==
  /\ pc[w] = "score"
  /\ verdict' = [verdict EXCEPT ![w] = d]
  /\ pc' = [pc EXCEPT ![w] = "lockFirst"]
  /\ UNCHANGED <<tables, clock, request, loaded, claim, stamp>>

\* Steps 6 and 8: what every decided job commits.
Finish(w, decision, status) ==
  LET k == claim[w] IN
  /\ txn' = [txn EXCEPT ![k].status = status, ![k].decision = decision]
  /\ job' = [job EXCEPT ![k].status = "COMPLETED",
                        ![k].attempts = job[k].attempts + 1]
  /\ EndSession(w, "idle")
  /\ UNCHANGED <<cash, clock, request>>

HoldForReview(w) ==
  /\ pc[w] = "score"
  /\ Finish(w, "REVIEW", "PENDING")
  /\ UNCHANGED balance

\* _lock_transfer_accounts: one SELECT ... ORDER BY id FOR UPDATE that waits
\* for the two rows in turn.
LockLower(w) ==
  /\ pc[w] = "lockFirst"
  /\ SelectForUpdate(w, LowerAccount(w))
  /\ pc' = [pc EXCEPT ![w] = "lockSecond"]
  /\ UNCHANGED <<tables, clock, request, claim, verdict, stamp>>

LockHigher(w) ==
  /\ pc[w] = "lockSecond"
  /\ SelectForUpdate(w, HigherAccount(w))
  /\ pc' = [pc EXCEPT ![w] = "settle"]
  /\ UNCHANGED <<tables, clock, request, claim, verdict, stamp>>

\* Mutant: whatever the decision, the receiver gets the money.
CreditedReceiver(w) == Receiver(w)

\* Step 7: ALLOW credits the receiver, BLOCK refunds the sender.
Credited(w) == IF verdict[w] = "ALLOW" THEN Receiver(w) ELSE Sender(w)
Settlement(w) == loaded[w][Credited(w)] + txn[claim[w]].req.amount

Settle(w) ==
  /\ pc[w] = "settle"
  /\ Settlement(w) <= MaxBalance
  /\ balance' = [balance EXCEPT ![Credited(w)] = Settlement(w)]
  /\ Finish(w, verdict[w], IF verdict[w] = "ALLOW" THEN "COMPLETED" ELSE "FAILED")

\* The UPDATE overflows Numeric(18, 2) and the exception ends the process.
SettleOverflows(w) ==
  /\ pc[w] = "settle"
  /\ Settlement(w) > MaxBalance
  /\ RollBack(w)

\* docker-compose restarts the worker (restart: unless-stopped).
Restart(w) ==
  /\ pc[w] = "down"
  /\ pc' = [pc EXCEPT ![w] = "idle"]
  /\ UNCHANGED <<tables, clock, request, loaded, claim, verdict, stamp>>

\* retry_delay_seconds have passed since a failed attempt.
BecomeDue(k) ==
  /\ job[k] # NoRow
  /\ job[k].status = "PENDING"
  /\ ~job[k].due
  /\ clock' = clock + 1
  /\ job' = [job EXCEPT ![k].due = TRUE, ![k].at = clock + 1]
  /\ UNCHANGED <<balance, txn, cash, request, pc, loaded, claim, verdict, stamp>>

WorkerStep(w) ==
  \/ \E k \in Keys : Claim(w, k)
  \/ LoadAccounts(w)
  \/ ScoreFails(w)
  \/ \E d \in {"ALLOW", "BLOCK"} : Decide(w, d)
  \/ HoldForReview(w)
  \/ LockLower(w)
  \/ LockHigher(w)
  \/ Settle(w)
  \/ SettleOverflows(w)
  \/ Restart(w)
==============================================================================
