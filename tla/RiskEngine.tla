------------------------------ MODULE RiskEngine ------------------------------
(***************************************************************************)
(* What a worker decides about a transfer (services/risk_engine.py) and    *)
(* the context it decides it in (steps 1, 4 and 5 of process_next_risk_job *)
(* in workers/risk_worker.py).  Jobs wait, are tried again, and are taken  *)
(* by several workers at once, so the context is read at a time of its     *)
(* own: the clock when the job is claimed, the transfers when the score is *)
(* calculated.  Time is in hours, amounts are in cents, and a score is     *)
(* exact, in units of which 1825000 make a point.                          *)
(***************************************************************************)
EXTENDS Integers, FiniteSets

CONSTANTS
  Users, Merchants,  \* the accounts, each with its owner
  Amounts,           \* of a transfer, in cents
  Batches,           \* how many transfers of one account follow on each other
  Delays,            \* the hours from created_at to the commit
  Times,             \* what the clock may show, in hours
  Workers,           \* how many there are
  MaxCommits, MaxScored, \* bounds of the model, on what is committed and tried
  None

Accounts == Users \cup Merchants

ASSUME RiskAssumption ==
  /\ Amounts \subseteq Nat \ {0} /\ Batches \subseteq Nat \ {0}
  /\ Delays \subseteq Nat /\ Times \subseteq Nat
  /\ Workers \in Nat /\ MaxCommits \in Nat /\ MaxScored \in Nat
  /\ None \notin Nat

VARIABLES
  now,
  opened,   \* [Accounts -> Nat \cup {None}], created_at of the account's owner
  commits,  \* how often transfers were committed
  transfers,\* the committed ones, [id, from, to, amount, created]
  running,  \* the jobs the workers hold, [id, now]: now is read at the claim
  tried,    \* the jobs that were given up once
  results   \* [id, now, counted, score, decision]; the first three are history

vars == <<now, opened, commits, transfers, running, tried, results>>

Init ==
  /\ now = 0
  /\ opened = [a \in Accounts |-> None]
  /\ commits = 0 /\ transfers = {}
  /\ running = {} /\ tried = {} /\ results = {}

-----------------------------------------------------------------------------
(* The score. *)

Day == 24
Point == 1825000
Hundredth == 18250
Least(a, b) == IF a <= b THEN a ELSE b

\* Mutant: the weights of amount and velocity exchanged.
ScoreWeightsSwapped(amount, others, age, fresh) ==
  (219 * Least(amount, 1000000)) \div 4 + 3650000 * Least(others, 20)
    + 100000 * (365 - Least(age, 365)) + (IF fresh THEN 10 * Point ELSE 0)

\* Mutant: the amount is not limited to 10000.00.
ScoreUnlimited(amount, others, age, fresh) ==
  73 * amount + 2737500 * Least(others, 20)
    + 100000 * (365 - Least(age, 365)) + (IF fresh THEN 10 * Point ELSE 0)

\* 40 points for 10000.00, 30 for 20 other transfers, 20 for a new owner that
\* are gone after 365 days, 10 for a new merchant.
ScoreOf(amount, others, age, fresh) ==
  73 * Least(amount, 1000000) + 2737500 * Least(others, 20)
    + 100000 * (365 - Least(age, 365)) + (IF fresh THEN 10 * Point ELSE 0)

\* Mutant: reviewed up to 75.
DecisionsLate(s) ==
  {d \in {"ALLOW", "REVIEW", "BLOCK"} :
     \/ d = "ALLOW" /\ s <= 40 * Point
     \/ d = "REVIEW" /\ s >= 40 * Point /\ s <= 75 * Point
     \/ d = "BLOCK" /\ s >= 75 * Point}

\* The float that is compared is within an ulp of the exact score, so a score
\* of exactly 40 or 70 may fall on either side: 875.00, 15 transfers, 292 days
\* and a new merchant make 39.99999999999999.
Decisions(s) ==
  {d \in {"ALLOW", "REVIEW", "BLOCK"} :
     \/ d = "ALLOW" /\ s <= 40 * Point
     \/ d = "REVIEW" /\ s >= 40 * Point /\ s <= 70 * Point
     \/ d = "BLOCK" /\ s >= 70 * Point}

\* round(score, 2), in hundredths; a tie goes either way for the same reason.
Rounded(s) ==
  {h \in {s \div Hundredth, s \div Hundredth + 1} :
     2 * h * Hundredth <= 2 * s + Hundredth /\ 2 * s <= 2 * h * Hundredth + Hundredth}

-----------------------------------------------------------------------------
(* The context. *)

\* Mutant: only transfers that went through are counted.
OthersCompleted(t, time) ==
  {u \in transfers : /\ u.from = t.from /\ u.id # t.id /\ u.created >= time - 1
                     /\ \E r \in results : r.id = u.id /\ r.decision = "ALLOW"}

\* transactions_last_hour: every status, and no upper end of the hour.
Others(t, time) ==
  {u \in transfers : u.from = t.from /\ u.id # t.id /\ u.created >= time - 1}

\* account_age_days, of the sender's owner.
Age(t, time) ==
  IF time <= opened[t.from] THEN 0 ELSE (time - opened[t.from]) \div Day

\* Mutant: a merchant is new once it is 30 days old.
FreshAfterWindow(t, time) ==
  t.to \in Merchants /\ opened[t.to] <= time - 30 * Day

\* _is_new_receiver_merchant
Fresh(t, time) == t.to \in Merchants /\ opened[t.to] >= time - 30 * Day

Risk(t, time) ==
  ScoreOf(t.amount, Cardinality(Others(t, time)), Age(t, time), Fresh(t, time))

-----------------------------------------------------------------------------
Tick ==
  /\ \E time \in Times : now < time /\ now' = time
  /\ UNCHANGED <<opened, commits, transfers, running, tried, results>>

\* Registration of an account's owner.
Open(a) ==
  /\ opened[a] = None
  /\ opened' = [opened EXCEPT ![a] = now]
  /\ UNCHANGED <<now, commits, transfers, running, tried, results>>

\* n transfers commit, which differ in nothing the score depends on.
Commit(a, b, amount, n, delay) ==
  /\ a # b /\ opened[a] # None /\ opened[b] # None
  /\ delay <= now /\ opened[a] <= now - delay /\ opened[b] <= now - delay
  /\ commits < MaxCommits /\ commits' = commits + 1
  /\ transfers' = transfers \cup
       {[id |-> <<commits, i>>, from |-> a, to |-> b,
         amount |-> amount, created |-> now - delay] : i \in 1 .. n}
  /\ UNCHANGED <<now, opened, running, tried, results>>

Before(i, j) == i[1] < j[1] \/ (i[1] = j[1] /\ i[2] < j[2])

Pending(t) == \A r \in running \cup results : r.id # t.id

\* A worker takes the oldest pending job that no other worker holds; one that
\* was given up is due again later.
Claim(t) ==
  /\ Cardinality(running) < Workers
  /\ Cardinality(running) + Cardinality(results) < MaxScored
  /\ Pending(t)
  /\ t.id \in tried \/ \A u \in transfers :
       Pending(u) /\ Before(u.id, t.id) => u.id \in tried
  /\ running' = running \cup {[id |-> t.id, now |-> now]}
  /\ UNCHANGED <<now, opened, commits, transfers, tried, results>>

\* The context is read, the score calculated, rounded and stored.
Score(t, r) ==
  /\ r.id = t.id
  /\ \E d \in Decisions(Risk(t, r.now)), h \in Rounded(Risk(t, r.now)) :
       results' = results \cup
         {[id |-> t.id, now |-> r.now, counted |-> Others(t, r.now),
           score |-> h, decision |-> d]}
  /\ running' = running \ {r}
  /\ UNCHANGED <<now, opened, commits, transfers, tried>>

\* Scoring raises, or the worker dies: the job will be claimed again.
GiveUp(r) ==
  /\ running' = running \ {r}
  /\ tried' = tried \cup {r.id} /\ Cardinality(tried') < MaxScored
  /\ UNCHANGED <<now, opened, commits, transfers, results>>

Next ==
  \/ Tick
  \/ \E a \in Accounts : Open(a)
  \/ \E a, b \in Accounts, amount \in Amounts, n \in Batches, delay \in Delays :
       Commit(a, b, amount, n, delay)
  \/ \E t \in transfers : Claim(t) \/ \E r \in running : Score(t, r)
  \/ \E r \in running : GiveUp(r)

Spec == Init /\ [][Next]_vars

-----------------------------------------------------------------------------
Ids == Nat \X Nat

Transfers ==
  [id : Ids, from : Accounts, to : Accounts, amount : Amounts, created : Nat]

\* The types; a score outside 0 .. 100.00 would be refused by the table.
RiskTypeOK ==
  /\ now \in Nat
  /\ opened \in [Accounts -> Nat \cup {None}]
  /\ commits \in Nat /\ transfers \subseteq Transfers
  /\ running \subseteq [id : Ids, now : Nat] /\ tried \subseteq Ids
  /\ results \subseteq [id : Ids, now : Nat, counted : SUBSET transfers,
                       score : Nat, decision : {"ALLOW", "REVIEW", "BLOCK"}]
  /\ \A r \in results : r.score <= 10000

\* A transfer is blocked only if it is of 2500.00 or more, and either its
\* sender is less than a year old, or its merchant is new, or both its amount
\* and its sender's activity are at their limits (risk_engine.py, lines 25-46).
BlockedForAReason ==
  \A t \in transfers, r \in results :
    r.id = t.id /\ r.decision = "BLOCK" =>
      /\ t.amount >= 250000
      /\ \/ Age(t, r.now) < 365
         \/ Fresh(t, r.now)
         \/ t.amount >= 1000000 /\ Cardinality(r.counted) >= 20

\* A transfer of 10000.00 or more is let through unseen only if nothing else
\* speaks against it (risk_engine.py, lines 25-48).
LargeTransfersAreHeld ==
  \A t \in transfers, r \in results :
    r.id = t.id /\ r.decision = "ALLOW" /\ t.amount >= 1000000 =>
      Age(t, r.now) >= 365 /\ ~Fresh(t, r.now) /\ r.counted = {}

\* The transfer a result is about.
Of(r) == {t \in transfers : t.id = r.id}

\* Of two transfers of one account, each at most an hour old when the other's
\* job was taken, one at least was counted for the other: a burst does not slip
\* past workers that score its transfers at the same time (risk_worker.py,
\* lines 197-208).
BurstsAreNoticed ==
  \A r, s \in results : \A t \in Of(r), u \in Of(s) :
    /\ t # u /\ t.from = u.from
    /\ u.created >= r.now - 1 /\ t.created >= s.now - 1
    => u \in r.counted \/ t \in s.counted

\* A job that waits or is tried again does not get a higher score from that
\* alone: only further transfers of the sender raise it.
NoRiskFromWaiting ==
  transfers' = transfers =>
    \A t \in transfers : Risk(t, now)' <= Risk(t, now)
WaitingNeverRaises == [][NoRiskFromWaiting]_<<now, opened, transfers>>

\* The decision is taken on the score, and the score is rounded when it is
\* stored: the two disagree at 40.00 and 70.00 at most (risk_engine.py, lines
\* 39-48).
StoredScoreFitsDecision ==
  \A r \in results :
    /\ r.decision = "ALLOW" => r.score <= 4000
    /\ r.decision = "REVIEW" => r.score \in 4000 .. 7000
    /\ r.decision = "BLOCK" => r.score >= 7000
==============================================================================
