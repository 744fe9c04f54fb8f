------------------------- MODULE TransactionAnalytics -------------------------
(***************************************************************************)
(* The reports of services/transaction_analytics.py over transactions that *)
(* are being written: created_at is set by the INSERT, which is seen only  *)
(* from the commit on, and the worker decides later.  These two are the    *)
(* only writers of transactions.  Amounts are in cents; pandas adds them   *)
(* as floats, in an order of its own, so a report shows one of the figures *)
(* that the roundings leave possible.                                      *)
(***************************************************************************)
EXTENDS Integers, FiniteSets, Functions

CONSTANTS
  Keys, Amounts,
  MaxTime,    \* bound of the model on the clock
  Precision,  \* of floats: k roundings are off by k parts of it at most, 2^52
  None

ASSUME AnalyticsAssumption ==
  Amounts \subseteq Nat \ {0} /\ MaxTime \in Nat /\ Precision \in Nat \ {0}

\* No timestamp is None, and no decision.
ASSUME NoneAssumption ==
  None \notin 0 .. MaxTime + 1 /\ None \notin {"ALLOW", "REVIEW", "BLOCK"}

VARIABLES
  now,
  writing,   \* inserted by a request that has not committed
  rows       \* committed, [key, amount, status, decision, created]

vars == <<now, writing, rows>>

Init == now = 0 /\ writing = {} /\ rows = {}

Tick == now < MaxTime /\ now' = now + 1 /\ UNCHANGED <<writing, rows>>

Insert(k, amount) ==
  /\ \A t \in writing \cup rows : t.key # k
  /\ writing' = writing \cup {[key |-> k, amount |-> amount, status |-> "PENDING",
                               decision |-> None, created |-> now]}
  /\ UNCHANGED <<now, rows>>

Commit(t) ==
  /\ rows' = rows \cup {t} /\ writing' = writing \ {t}
  /\ UNCHANGED now

RollBack(t) == writing' = writing \ {t} /\ UNCHANGED <<now, rows>>

\* Mutant: a held transaction is closed like a blocked one.
StatusHeldFailed(decision) == IF decision = "ALLOW" THEN "COMPLETED" ELSE "FAILED"

StatusOf(decision) ==
  CASE decision = "ALLOW" -> "COMPLETED" [] decision = "BLOCK" -> "FAILED" [] OTHER -> "PENDING"

Decide(t, decision) ==
  /\ t.decision = None
  /\ rows' = (rows \ {t}) \cup {[t EXCEPT !.decision = decision, !.status = StatusOf(decision)]}
  /\ UNCHANGED <<now, writing>>

Next ==
  \/ Tick
  \/ \E k \in Keys, amount \in Amounts : Insert(k, amount)
  \/ \E t \in writing : Commit(t) \/ RollBack(t)
  \/ \E t \in rows, d \in {"ALLOW", "REVIEW", "BLOCK"} : Decide(t, d)

Spec == Init /\ [][Next]_vars

-----------------------------------------------------------------------------
(* The report. *)

\* Mutant: the end of the range belongs to it.
SelectedClosed(start, end) ==
  {t \in rows : (start = None \/ t.created >= start) /\ (end = None \/ t.created <= end)}

\* Mutant: the transactions of the range that have been decided.
SelectedDecided(start, end) ==
  {t \in rows : /\ start = None \/ t.created >= start
                /\ end = None \/ t.created < end
                /\ t.decision # None}

\* The transactions of [start, end), where either end may be open.
Selected(start, end) ==
  {t \in rows : (start = None \/ t.created >= start) /\ (end = None \/ t.created < end)}

SumOf(s) == SumFunction([t \in s |-> t.amount])

\* What total / count may come out as, in cents, after k roundings of floats and
\* quantize(Decimal("0.01")): the nearest cent of a number that is off by k parts
\* of the precision, or either neighbour of one in the middle.
Cents(total, count, k) ==
  LET off == (count * Precision + 2 * k * total) \div (2 * Precision)
  IN  {c \in 0 .. total + off : c * count - total \in -off .. off}

\* pd.to_numeric makes a float64 of each amount; n of them take n - 1 additions,
\* and str rounds the sum to the digits that tell it from other floats.
Totals(s) == Cents(SumOf(s), 1, Cardinality(s) + 1)

\* The mean is divided once more.
Averages(s) ==
  IF s = {} THEN {0} ELSE Cents(SumOf(s), Cardinality(s), Cardinality(s) + 2)

\* The column is NOT NULL: there is no "UNKNOWN".
StatusName(t) == t.status

DecisionName(t) == IF t.decision = None THEN "UNPROCESSED" ELSE t.decision

\* value_counts: only what occurs is in the distribution.
Counts(Of(_), s) == [v \in {Of(t) : t \in s} |-> Cardinality({t \in s : Of(t) = v})]

Reports(start, end) ==
  LET s == Selected(start, end)
  IN  [count : {Cardinality(s)}, total : Totals(s), average : Averages(s),
       statuses : {Counts(StatusName, s)}, decisions : {Counts(DecisionName, s)}]

-----------------------------------------------------------------------------
Ends == 0 .. MaxTime + 1

How(counts, v) == IF v \in DOMAIN counts THEN counts[v] ELSE 0

\* No figure over these transactions is off by a cent.  With float64, a million
\* of them may sum up to 22 millions and ten thousand to 2 thousand millions.
Exact(s) == 2 * (Cardinality(s) + 2) * SumOf(s) < Precision

\* The figures of a report fit each other, in every state between the commits of
\* requests and workers: what is COMPLETED was allowed, what FAILED was blocked,
\* what is PENDING is held or undecided; and where floats are exact the total is
\* the sum and the average a nearest cent (lines 55-76).  This is said of rows that
\* create_transaction and the worker wrote: a test stores others by itself
\* (test_transaction_analytics_db.py:41-50, COMPLETED with REVIEW).
ReportAgrees ==
  \A start, end \in Ends \cup {None} : \A p \in Reports(start, end) :
    /\ How(p.statuses, "COMPLETED") = How(p.decisions, "ALLOW")
    /\ How(p.statuses, "FAILED") = How(p.decisions, "BLOCK")
    /\ How(p.statuses, "PENDING") = How(p.decisions, "REVIEW") + How(p.decisions, "UNPROCESSED")
    /\ p.count = How(p.statuses, "PENDING") + How(p.statuses, "COMPLETED") + How(p.statuses, "FAILED")
    /\ Exact(Selected(start, end)) =>
         /\ p.total = SumOf(Selected(start, end))
         /\ 2 * (p.average * p.count - p.total) \in -p.count .. p.count

\* Reports of adjoining ranges add up to the report of the whole: no transaction
\* is in both or in neither, and the totals add up to the cent when floats are
\* exact for the whole (lines 55-61 and 95-99).
RangesAddUp ==
  \A a, b, c \in Ends :
    a <= b /\ b <= c =>
      \A whole \in Reports(a, c), first \in Reports(a, b), second \in Reports(b, c) :
        /\ whole.count = first.count + second.count
        /\ Exact(Selected(a, c)) => whole.total = first.total + second.total

PeriodIsOver(end) == end <= now /\ \A t \in writing : t.created >= end

\* The count of a period that is over is final for good once every request that
\* inserted in it has come to its end, and not before, because created_at is older
\* than the commit; and so is the total where floats are exact (lines 87-101;
\* entities.py, lines 308-312).
PeriodIsFinal ==
  \A end \in Ends : PeriodIsOver(end) =>
    /\ \A p \in Reports(None, end), later \in Reports(None, end)' :
         /\ later.count = p.count
         /\ Exact(Selected(None, end)) => later.total = p.total
    /\ PeriodIsOver(end)'
ClosedPeriodsAreFinal == [][PeriodIsFinal]_vars
==============================================================================
