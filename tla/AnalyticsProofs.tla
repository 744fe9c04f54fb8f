---------------------------- MODULE AnalyticsProofs ----------------------------
(***************************************************************************)
(* Proofs about TransactionAnalytics, for every set of keys and amounts.   *)
(***************************************************************************)
EXTENDS TransactionAnalytics, Sums, FiniteSetTheorems, TLAPS

Statuses == {"PENDING", "COMPLETED", "FAILED"}
Rows == [key : Keys, amount : Amounts, status : Statuses,
         decision : {"ALLOW", "REVIEW", "BLOCK", None}, created : 0 .. MaxTime]

TypeOK ==
  /\ now \in 0 .. MaxTime
  /\ writing \subseteq Rows /\ rows \subseteq Rows
  /\ IsFiniteSet(writing) /\ IsFiniteSet(rows)

\* The key tells a row, committed or not, from every other.
KeysTell ==
  /\ \A s, t \in writing \cup rows : s.key = t.key => s = t
  /\ writing \cap rows = {}

\* The status is what the decision makes it.
Decided == \A t \in writing \cup rows : t.status = StatusOf(t.decision)

\* The inductive invariant.  A decision replaces a row by one that is not in
\* the table already because the key tells them apart.
Inv == TypeOK /\ KeysTell /\ Decided

(***************************************************************************)
(* Init and the actions.                                                   *)
(***************************************************************************)
LEMMA InitInv == Init => Inv
  BY AnalyticsAssumption, FS_EmptySet DEF Init, Inv, TypeOK, KeysTell, Decided

LEMMA InsertInv ==
  ASSUME Inv, NEW k \in Keys, NEW amount \in Amounts, Insert(k, amount)
  PROVE  Inv'
  <1> DEFINE t == [key |-> k, amount |-> amount, status |-> "PENDING",
                   decision |-> None, created |-> now]
  <1>1. t \in Rows /\ t.key = k /\ t.status = StatusOf(t.decision)
    BY NoneAssumption DEF Inv, TypeOK, Rows, Statuses, StatusOf
  <1>2. /\ writing' = writing \cup {t} /\ now' = now /\ rows' = rows
        /\ \A s \in writing \cup rows : s.key # k
    BY DEF Insert
  <1> HIDE DEF t
  <1>3. TypeOK'
    BY <1>1, <1>2, FS_AddElement DEF Inv, TypeOK
  <1>4. KeysTell'
    BY <1>1, <1>2 DEF Inv, KeysTell
  <1>5. Decided'
    BY <1>1, <1>2 DEF Inv, Decided
  <1>6. QED
    BY <1>3, <1>4, <1>5 DEF Inv

LEMMA CommitInv ==
  ASSUME Inv, NEW t \in writing, Commit(t)
  PROVE  Inv'
  <1>1. rows' = rows \cup {t} /\ writing' = writing \ {t} /\ now' = now
    BY DEF Commit
  <1>2. TypeOK'
    BY <1>1, FS_AddElement, FS_RemoveElement DEF Inv, TypeOK
  <1>3. KeysTell'
    BY <1>1 DEF Inv, KeysTell
  <1>4. Decided'
    BY <1>1 DEF Inv, Decided
  <1>5. QED
    BY <1>2, <1>3, <1>4 DEF Inv

LEMMA RollBackInv ==
  ASSUME Inv, NEW t \in writing, RollBack(t)
  PROVE  Inv'
  <1>1. rows' = rows /\ writing' = writing \ {t} /\ now' = now
    BY DEF RollBack
  <1>2. TypeOK'
    BY <1>1, FS_RemoveElement DEF Inv, TypeOK
  <1>3. KeysTell' /\ Decided'
    BY <1>1 DEF Inv, KeysTell, Decided
  <1>4. QED
    BY <1>2, <1>3 DEF Inv

\* What a decision replaces a row by.
LEMMA DecidedRow ==
  ASSUME Inv, NEW t \in rows, NEW d \in {"ALLOW", "REVIEW", "BLOCK"}, Decide(t, d)
  PROVE  \E u \in Rows :
           /\ rows' = (rows \ {t}) \cup {u} /\ UNCHANGED <<now, writing>>
           /\ u \notin rows \ {t}
           /\ u.key = t.key /\ u.amount = t.amount /\ u.created = t.created
           /\ u.decision = d /\ u.status = StatusOf(d)
  <1> DEFINE u == [t EXCEPT !.decision = d, !.status = StatusOf(d)]
  <1>1. t \in Rows
    BY DEF Inv, TypeOK
  <1>2. StatusOf(d) \in Statuses
    BY DEF StatusOf, Statuses
  <1>3. /\ u \in Rows
        /\ u.key = t.key /\ u.amount = t.amount /\ u.created = t.created
        /\ u.decision = d /\ u.status = StatusOf(d)
    BY <1>1, <1>2 DEF Rows
  <1>4. rows' = (rows \ {t}) \cup {u} /\ UNCHANGED <<now, writing>>
    BY DEF Decide
  <1> HIDE DEF u
  <1>5. u \notin rows \ {t}
    BY <1>3 DEF Inv, KeysTell
  <1>6. QED
    BY <1>3, <1>4, <1>5

LEMMA DecideInv ==
  ASSUME Inv, NEW t \in rows, NEW d \in {"ALLOW", "REVIEW", "BLOCK"}, Decide(t, d)
  PROVE  Inv'
  <1>1. PICK u \in Rows :
          /\ rows' = (rows \ {t}) \cup {u} /\ UNCHANGED <<now, writing>>
          /\ u.key = t.key /\ u.decision = d /\ u.status = StatusOf(d)
    BY DecidedRow
  <1>2. TypeOK'
    <2>1. IsFiniteSet(rows \ {t})
      BY FS_RemoveElement DEF Inv, TypeOK
    <2>2. QED
      BY <1>1, <2>1, FS_AddElement DEF Inv, TypeOK
  <1>3. KeysTell'
    BY <1>1 DEF Inv, KeysTell
  <1>4. Decided'
    BY <1>1 DEF Inv, Decided
  <1>5. QED
    BY <1>2, <1>3, <1>4 DEF Inv

LEMMA NextInv == Inv /\ [Next]_vars => Inv'
  <1> SUFFICES ASSUME Inv, [Next]_vars
               PROVE  Inv'
    OBVIOUS
  <1>1. CASE Tick
    BY <1>1, AnalyticsAssumption DEF Tick, Inv, TypeOK, KeysTell, Decided
  <1>2. CASE \E k \in Keys, amount \in Amounts : Insert(k, amount)
    BY <1>2, InsertInv
  <1>3. CASE \E t \in writing : Commit(t) \/ RollBack(t)
    BY <1>3, CommitInv, RollBackInv
  <1>4. CASE \E t \in rows, d \in {"ALLOW", "REVIEW", "BLOCK"} : Decide(t, d)
    BY <1>4, DecideInv
  <1>5. CASE UNCHANGED vars
    BY <1>5 DEF vars, Inv, TypeOK, KeysTell, Decided
  <1>6. QED
    BY <1>1, <1>2, <1>3, <1>4, <1>5 DEF Next

\* Rows have the types of the columns, their keys are unique and their status
\* is what their decision says, in every reachable state.
THEOREM InvariantHolds == Spec => []Inv
  BY InitInv, NextInv, PTL DEF Spec

-----------------------------------------------------------------------------
(***************************************************************************)
(* The report.                                                             *)
(***************************************************************************)
LEMMA SelectedRows ==
  ASSUME Inv, NEW start, NEW end
  PROVE  /\ Selected(start, end) \subseteq rows
         /\ Selected(start, end) \subseteq Rows
         /\ IsFiniteSet(Selected(start, end))
  <1>1. Selected(start, end) \subseteq rows
    BY DEF Selected
  <1>2. QED
    BY <1>1, FS_Subset DEF Inv, TypeOK

LEMMA AmountsAreNatural == \A t \in Rows : t.amount \in Nat
  <1>1. \A t \in Rows : t.amount \in Amounts
    BY DEF Rows
  <1>2. QED
    BY <1>1, AnalyticsAssumption

\* The total with one row more.
LEMMA TotalWith ==
  ASSUME NEW s \in SUBSET Rows, IsFiniteSet(s), NEW t \in Rows \ s
  PROVE  SumOf(s \cup {t}) = SumOf(s) + t.amount
  <1> DEFINE f == [u \in s |-> u.amount]
             g == [u \in s \cup {t} |-> u.amount]
  <1>1. f \in [s -> Int] /\ g \in [s \cup {t} -> Int]
    BY AmountsAreNatural
  <1>2. (\A u \in s : g[u] = f[u]) /\ g[t] = t.amount
    OBVIOUS
  <1>3. SumOf(s) = SumFunction(f) /\ SumOf(s \cup {t}) = SumFunction(g)
    BY DEF SumOf
  <1> HIDE DEF f, g
  <1>4. QED
    BY <1>1, <1>2, <1>3, SumOfOneMore

\* The total of two sets of rows without a common one.
LEMMA TotalOfUnion ==
  ASSUME NEW s \in SUBSET Rows, IsFiniteSet(s),
         NEW t \in SUBSET Rows, IsFiniteSet(t), s \cap t = {}
  PROVE  SumOf(s \cup t) = SumOf(s) + SumOf(t)
  <1> DEFINE f == [u \in Rows |-> u.amount]
  <1>1. \A u \in s \cup t : f[u] \in Int
    BY AmountsAreNatural
  <1>2. ASSUME NEW r \in SUBSET Rows, IsFiniteSet(r)
        PROVE  SumOf(r) = SumFunctionOnSet(f, r)
    <2> DEFINE g == [u \in r |-> u.amount]
    <2>1. \A u \in r : g[u] = f[u]
      OBVIOUS
    <2>2. SumOf(r) = SumFunctionOnSet(g, r)
      BY SumOverDomain DEF SumOf
    <2> HIDE DEF f, g
    <2>3. QED
      BY <1>2, <2>1, <2>2, SumOfSame
  <1>3. IsFiniteSet(s \cup t) /\ s \cup t \in SUBSET Rows
    BY FS_Union
  <1> HIDE DEF f
  <1>4. SumFunctionOnSet(f, s \cup t)
          = SumFunctionOnSet(f, s) + SumFunctionOnSet(f, t)
    BY <1>1, SumOfUnion
  <1>5. QED
    BY <1>2, <1>3, <1>4

LEMMA TotalIsNatural ==
  ASSUME NEW s \in SUBSET Rows, IsFiniteSet(s)
  PROVE  SumOf(s) \in Nat
  <1> DEFINE f == [t \in s |-> t.amount]
  <1>1. DOMAIN f = s /\ \A t \in s : f[t] \in Nat
    BY AmountsAreNatural
  <1>2. SumOf(s) = SumFunction(f)
    BY DEF SumOf
  <1> HIDE DEF f
  <1>3. QED
    BY <1>1, <1>2, SumOverDomain, SumIsNatural

LEMMA CountOfUnion ==
  ASSUME NEW s, IsFiniteSet(s), NEW t, IsFiniteSet(t), s \cap t = {}
  PROVE  Cardinality(s \cup t) = Cardinality(s) + Cardinality(t)
  <1>1. Cardinality(s \cup t)
          = Cardinality(s) + Cardinality(t) - Cardinality(s \cap t)
    BY FS_Union
  <1>2. Cardinality(s) \in Nat /\ Cardinality(t) \in Nat
    BY FS_CardinalityType
  <1>3. Cardinality(s \cap t) = 0
    BY FS_EmptySet
  <1>4. QED
    BY <1>1, <1>2, <1>3

\* What is in a report.
LEMMA ReportFigures ==
  ASSUME NEW start, NEW end, NEW p \in Reports(start, end)
  PROVE  LET s == Selected(start, end) IN
         /\ p.count = Cardinality(s) /\ p.total \in Totals(s)
         /\ p.average \in Averages(s)
         /\ p.statuses = Counts(StatusName, s)
         /\ p.decisions = Counts(DecisionName, s)
  BY DEF Reports

WithStatus(s, v) == {t \in s : t.status = v}
WithDecision(s, v) == {t \in s : DecisionName(t) = v}

\* The counts of a report: how many rows of the range have a status, and how
\* many a decision.
LEMMA StatusCounts ==
  ASSUME NEW s, NEW v
  PROVE  How(Counts(StatusName, s), v) = Cardinality(WithStatus(s, v))
  <1>1. Counts(StatusName, s) =
          [w \in {t.status : t \in s} |-> Cardinality({t \in s : t.status = w})]
    BY DEF Counts, StatusName
  <1>2. CASE v \in {t.status : t \in s}
    BY <1>1, <1>2 DEF How, WithStatus
  <1>3. CASE v \notin {t.status : t \in s}
    <2>1. WithStatus(s, v) = {}
      BY <1>3 DEF WithStatus
    <2>2. QED
      BY <1>1, <1>3, <2>1, FS_EmptySet DEF How
  <1>4. QED
    BY <1>2, <1>3

LEMMA DecisionCounts ==
  ASSUME NEW s, NEW v
  PROVE  How(Counts(DecisionName, s), v) = Cardinality(WithDecision(s, v))
  <1>1. Counts(DecisionName, s) =
          [w \in {DecisionName(t) : t \in s} |->
             Cardinality({t \in s : DecisionName(t) = w})]
    BY DEF Counts
  <1>2. CASE v \in {DecisionName(t) : t \in s}
    BY <1>1, <1>2 DEF How, WithDecision
  <1>3. CASE v \notin {DecisionName(t) : t \in s}
    <2>1. WithDecision(s, v) = {}
      BY <1>3 DEF WithDecision
    <2>2. QED
      BY <1>1, <1>3, <2>1, FS_EmptySet DEF How
  <1>4. QED
    BY <1>2, <1>3

-----------------------------------------------------------------------------
(***************************************************************************)
(* The figures of one report.                                              *)
(***************************************************************************)
LEMMA ProductsGrow ==
  ASSUME NEW a \in Nat, NEW b \in Nat, NEW c \in Nat, NEW d \in Nat, a <= b, c <= d
  PROVE  a * c <= b * d
  <1>1. a * c <= b * c
    OBVIOUS
  <1>2. b * c <= b * d
    OBVIOUS
  <1>3. a * c \in Nat /\ b * c \in Nat /\ b * d \in Nat
    OBVIOUS
  <1> QED BY <1>1, <1>2, <1>3

\* Few roundings of a small total move it across the middle of no two cents: the
\* figure is a nearest cent.
LEMMA CentsAreNearest ==
  ASSUME NEW total \in Nat, NEW n \in Nat \ {0}, NEW k \in Nat,
         2 * k * total < Precision, NEW c \in Cents(total, n, k)
  PROVE  c \in Nat /\ 2 * (c * n - total) \in -n .. n
  <1> DEFINE a == n * Precision + 2 * k * total
             off == a \div (2 * Precision)
  <1>1. Precision \in Nat \ {0}
    BY AnalyticsAssumption
  <1>2. 2 * k * total \in Nat /\ n * Precision \in Nat
    BY <1>1
  <1>3. a \in Nat /\ a < n * Precision + Precision
    BY <1>1, <1>2
  <1>4. off \in Nat /\ c \in 0 .. total + off /\ c * n - total \in -off .. off
    <2>1. 2 * Precision \in Nat \ {0}
      BY <1>1
    <2>2. off \in Nat
      <3> HIDE DEF a
      <3> QED BY <1>3, <2>1
    <2> QED BY <2>2 DEF Cents
  <1>5. off * (2 * Precision) <= a
    <2>1. 2 * Precision \in Nat \ {0}
      BY <1>1
    <2> HIDE DEF a
    <2> QED BY <1>3, <2>1
  <1> HIDE DEF a, off
  <1>6. 2 * off <= n
    <2> SUFFICES ASSUME n + 1 <= 2 * off
                 PROVE  FALSE
      BY <1>4
    <2>1. (n + 1) * Precision <= (2 * off) * Precision
      BY <1>1, <1>4, ProductsGrow
    <2>2. (n + 1) * Precision = n * Precision + Precision
      BY <1>1
    <2>3. (2 * off) * Precision = off * (2 * Precision)
      BY <1>1, <1>4
    <2> QED BY <1>1, <1>2, <1>3, <1>4, <1>5, <2>1, <2>2, <2>3
  <1>7. c \in Nat /\ c * n \in Int
    BY <1>4
  <1> QED BY <1>4, <1>6, <1>7

LEMMA ExactBounds ==
  ASSUME NEW s \in SUBSET Rows, IsFiniteSet(s), Exact(s)
  PROVE  /\ SumOf(s) \in Nat /\ Cardinality(s) \in Nat
         /\ 2 * (Cardinality(s) + 1) * SumOf(s) < Precision
         /\ 2 * (Cardinality(s) + 2) * SumOf(s) < Precision
  <1> DEFINE n == Cardinality(s)
             total == SumOf(s)
  <1>1. total \in Nat /\ n \in Nat
    BY TotalIsNatural, FS_CardinalityType
  <1>2. 2 * (n + 2) * total < Precision
    BY DEF Exact
  <1> HIDE DEF n, total
  <1>3. 2 * (n + 1) * total <= 2 * (n + 2) * total
    BY <1>1, ProductsGrow
  <1>4. Precision \in Nat
    BY AnalyticsAssumption
  <1>5. 2 * (n + 1) * total \in Nat /\ 2 * (n + 2) * total \in Nat
    BY <1>1
  <1>6. 2 * (n + 1) * total < Precision
    BY <1>2, <1>3, <1>4, <1>5
  <1> QED BY <1>1, <1>2, <1>6 DEF n, total

\* Where floats are exact there is one total to be shown.
LEMMA TotalIsExact ==
  ASSUME NEW s \in SUBSET Rows, IsFiniteSet(s), Exact(s), NEW c \in Totals(s)
  PROVE  c = SumOf(s)
  <1>1. /\ SumOf(s) \in Nat /\ Cardinality(s) + 1 \in Nat
        /\ 2 * (Cardinality(s) + 1) * SumOf(s) < Precision
    BY ExactBounds
  <1>2. c \in Nat /\ 2 * (c * 1 - SumOf(s)) \in -1 .. 1
    BY <1>1, CentsAreNearest DEF Totals
  <1> QED BY <1>1, <1>2

LEMMA AverageIsNearest ==
  ASSUME NEW s \in SUBSET Rows, IsFiniteSet(s), Exact(s), NEW c \in Averages(s)
  PROVE  2 * (c * Cardinality(s) - SumOf(s)) \in -Cardinality(s) .. Cardinality(s)
  <1>1. /\ SumOf(s) \in Nat /\ Cardinality(s) \in Nat /\ Cardinality(s) + 2 \in Nat
        /\ 2 * (Cardinality(s) + 2) * SumOf(s) < Precision
    BY ExactBounds
  <1>2. CASE s = {}
    <2>1. Cardinality(s) = 0 /\ SumOf(s) = 0
      BY <1>2, FS_EmptySet, SumOverDomain, SumOfNothing DEF SumOf
    <2>2. c = 0
      BY <1>2 DEF Averages
    <2> QED BY <2>1, <2>2
  <1>3. CASE s # {}
    <2>1. Cardinality(s) # 0
      BY <1>3, FS_EmptySet
    <2>2. c \in Cents(SumOf(s), Cardinality(s), Cardinality(s) + 2)
      BY <1>3 DEF Averages
    <2> QED BY <1>1, <2>1, <2>2, CentsAreNearest
  <1> QED BY <1>2, <1>3

\* The rows of a status are those of the decisions that lead to it.
LEMMA StatusByDecision ==
  ASSUME Inv, NEW s \in SUBSET rows
  PROVE  /\ WithStatus(s, "COMPLETED") = WithDecision(s, "ALLOW")
         /\ WithStatus(s, "FAILED") = WithDecision(s, "BLOCK")
         /\ WithStatus(s, "PENDING") =
              WithDecision(s, "REVIEW") \cup WithDecision(s, "UNPROCESSED")
         /\ s = WithStatus(s, "PENDING") \cup WithStatus(s, "COMPLETED")
                  \cup WithStatus(s, "FAILED")
  <1>1. ASSUME NEW t \in s
        PROVE  /\ t.status = "COMPLETED" <=> DecisionName(t) = "ALLOW"
               /\ t.status = "FAILED" <=> DecisionName(t) = "BLOCK"
               /\ t.status = "PENDING" <=>
                    DecisionName(t) \in {"REVIEW", "UNPROCESSED"}
               /\ t.status \in Statuses
    <2>1. t.status = StatusOf(t.decision)
      BY DEF Inv, Decided
    <2>2. t.decision \in {"ALLOW", "REVIEW", "BLOCK", None}
      BY DEF Inv, TypeOK, Rows
    <2>3. QED
      BY <2>1, <2>2, NoneAssumption DEF StatusOf, DecisionName, Statuses
  <1>2. QED
    BY <1>1 DEF Statuses, WithStatus, WithDecision

LEMMA FiguresAgree == Inv => ReportAgrees
  <1> SUFFICES ASSUME Inv, NEW start, NEW end, NEW p \in Reports(start, end)
               PROVE
                 /\ How(p.statuses, "COMPLETED") = How(p.decisions, "ALLOW")
                 /\ How(p.statuses, "FAILED") = How(p.decisions, "BLOCK")
                 /\ How(p.statuses, "PENDING") =
                      How(p.decisions, "REVIEW") + How(p.decisions, "UNPROCESSED")
                 /\ p.count = How(p.statuses, "PENDING")
                                + How(p.statuses, "COMPLETED")
                                + How(p.statuses, "FAILED")
                 /\ Exact(Selected(start, end)) =>
                      /\ p.total = SumOf(Selected(start, end))
                      /\ 2 * (p.average * p.count - p.total) \in -p.count .. p.count
    BY DEF ReportAgrees
  <1> DEFINE s == Selected(start, end)
             St(v) == WithStatus(s, v)
             De(v) == WithDecision(s, v)
  <1>1. s \subseteq rows /\ s \subseteq Rows /\ IsFiniteSet(s)
    BY SelectedRows
  <1>2. \A v : IsFiniteSet(St(v)) /\ IsFiniteSet(De(v))
    BY <1>1, FS_Subset DEF WithStatus, WithDecision
  <1>3. \A v : /\ How(p.statuses, v) = Cardinality(St(v))
               /\ How(p.decisions, v) = Cardinality(De(v))
    BY ReportFigures, StatusCounts, DecisionCounts
  <1>4. /\ St("COMPLETED") = De("ALLOW")
        /\ St("FAILED") = De("BLOCK")
        /\ St("PENDING") = De("REVIEW") \cup De("UNPROCESSED")
        /\ s = St("PENDING") \cup St("COMPLETED") \cup St("FAILED")
    BY <1>1, StatusByDecision
  <1>5. De("REVIEW") \cap De("UNPROCESSED") = {}
    BY DEF WithStatus, WithDecision
  <1>6. /\ St("PENDING") \cap St("COMPLETED") = {}
        /\ (St("PENDING") \cup St("COMPLETED")) \cap St("FAILED") = {}
    BY DEF WithStatus, WithDecision
  <1>7. p.count = Cardinality(s) /\ p.total \in Totals(s) /\ p.average \in Averages(s)
    BY ReportFigures
  <1>8. Exact(s) => /\ p.total = SumOf(s)
                    /\ 2 * (p.average * p.count - p.total) \in -p.count .. p.count
    BY <1>1, <1>7, TotalIsExact, AverageIsNearest
  <1> HIDE DEF s, St, De
  <1>9. Cardinality(St("PENDING")) =
          Cardinality(De("REVIEW")) + Cardinality(De("UNPROCESSED"))
    BY <1>2, <1>4, <1>5, CountOfUnion
  <1>10. Cardinality(s) = Cardinality(St("PENDING"))
                            + Cardinality(St("COMPLETED"))
                            + Cardinality(St("FAILED"))
    <2>1. IsFiniteSet(St("PENDING") \cup St("COMPLETED"))
      BY <1>2, FS_Union
    <2>2. QED
      BY <1>2, <1>4, <1>6, <2>1, CountOfUnion
  <1>11. QED
    BY <1>3, <1>4, <1>7, <1>8, <1>9, <1>10 DEF s

\* In every state the figures of every report fit each other, and where floats are
\* exact, whatever their precision, the total is the sum of the amounts and the
\* average a nearest cent (transaction_analytics.py:55-76).
THEOREM ReportsAlwaysAgree == Spec => []ReportAgrees
  BY InvariantHolds, FiguresAgree, PTL

-----------------------------------------------------------------------------
(***************************************************************************)
(* Ranges, and periods that are over.                                      *)
(***************************************************************************)
LEMMA EndsAreTimes ==
  Ends \subseteq Int /\ \A e \in Ends : e # None
  BY AnalyticsAssumption, NoneAssumption DEF Ends

\* Adjoining ranges split the rows of the whole.
LEMMA SplitRange ==
  ASSUME Inv, NEW a \in Ends, NEW b \in Ends, NEW c \in Ends, a <= b, b <= c
  PROVE  /\ Selected(a, c) = Selected(a, b) \cup Selected(b, c)
         /\ Selected(a, b) \cap Selected(b, c) = {}
  <1>1. a \in Int /\ b \in Int /\ c \in Int
    BY EndsAreTimes
  <1>2. a # None /\ b # None /\ c # None
    BY EndsAreTimes
  <1>3. \A t \in rows : t.created \in Int
    BY DEF Inv, TypeOK, Rows
  <1>4. QED
    BY <1>1, <1>2, <1>3 DEF Selected

\* Where floats are exact for the whole they are for its parts.
LEMMA PartsAreExact ==
  ASSUME NEW s \in SUBSET Rows, IsFiniteSet(s), NEW t \in SUBSET Rows, IsFiniteSet(t),
         s \cap t = {}, Exact(s \cup t)
  PROVE  Exact(s)
  <1> DEFINE n == Cardinality(s)
             m == Cardinality(t)
             x == SumOf(s)
             y == SumOf(t)
  <1>1. n \in Nat /\ m \in Nat /\ x \in Nat /\ y \in Nat
    BY FS_CardinalityType, TotalIsNatural
  <1>2. Cardinality(s \cup t) = n + m /\ SumOf(s \cup t) = x + y
    BY CountOfUnion, TotalOfUnion
  <1>3. 2 * (n + m + 2) * (x + y) < Precision
    BY <1>2 DEF Exact
  <1> HIDE DEF n, m, x, y
  <1>4. 2 * (n + 2) * x <= 2 * (n + m + 2) * (x + y)
    BY <1>1, ProductsGrow
  <1>5. Precision \in Nat
    BY AnalyticsAssumption
  <1>6. 2 * (n + 2) * x \in Nat /\ 2 * (n + m + 2) * (x + y) \in Nat
    BY <1>1
  <1>7. 2 * (n + 2) * x < Precision
    BY <1>3, <1>4, <1>5, <1>6
  <1> QED BY <1>7 DEF Exact, n, x

LEMMA RangesSplit == Inv => RangesAddUp
  <1> SUFFICES ASSUME Inv, NEW a \in Ends, NEW b \in Ends, NEW c \in Ends,
                      a <= b, b <= c, NEW whole \in Reports(a, c),
                      NEW first \in Reports(a, b), NEW second \in Reports(b, c)
               PROVE  /\ whole.count = first.count + second.count
                      /\ Exact(Selected(a, c)) =>
                           whole.total = first.total + second.total
    BY DEF RangesAddUp
  <1> DEFINE s == Selected(a, b)
             t == Selected(b, c)
  <1>1. s \in SUBSET Rows /\ t \in SUBSET Rows /\ IsFiniteSet(s) /\ IsFiniteSet(t)
    BY SelectedRows
  <1>2. Selected(a, c) = s \cup t /\ s \cap t = {}
    BY SplitRange
  <1>3. /\ first.count = Cardinality(s) /\ first.total \in Totals(s)
        /\ second.count = Cardinality(t) /\ second.total \in Totals(t)
        /\ whole.count = Cardinality(s \cup t) /\ whole.total \in Totals(s \cup t)
    BY <1>2, ReportFigures
  <1> HIDE DEF s, t
  <1>4. whole.count = first.count + second.count
    BY <1>1, <1>2, <1>3, CountOfUnion
  <1>5. ASSUME Exact(s \cup t)
        PROVE  whole.total = first.total + second.total
    <2>1. Exact(s)
      BY <1>1, <1>2, <1>5, PartsAreExact
    <2>2. Exact(t)
      <3>1. t \cup s = s \cup t /\ t \cap s = {}
        BY <1>2
      <3> QED BY <1>1, <1>5, <3>1, PartsAreExact
    <2>3. s \cup t \in SUBSET Rows /\ IsFiniteSet(s \cup t)
      BY <1>1, FS_Union
    <2>4. whole.total = SumOf(s \cup t)
      BY <1>3, <1>5, <2>3, TotalIsExact
    <2>5. first.total = SumOf(s) /\ second.total = SumOf(t)
      BY <1>1, <1>3, <2>1, <2>2, TotalIsExact
    <2> QED BY <1>1, <1>2, <2>4, <2>5, TotalOfUnion
  <1>6. QED
    BY <1>2, <1>4, <1>5

\* In every state reports of adjoining ranges add up to the report of the whole,
\* their totals where floats are exact for it (transaction_analytics.py:55-99).
THEOREM RangesAlwaysAddUp == Spec => []RangesAddUp
  BY InvariantHolds, RangesSplit, PTL

\* A decision changes neither the amount of a row nor the time it was created.
LEMMA DecideKeepsFigures ==
  ASSUME Inv, Inv', NEW t \in rows, NEW d \in {"ALLOW", "REVIEW", "BLOCK"},
         Decide(t, d), NEW end \in Ends
  PROVE  /\ Cardinality(Selected(None, end)') = Cardinality(Selected(None, end))
         /\ SumOf(Selected(None, end)') = SumOf(Selected(None, end))
  <1> DEFINE s == Selected(None, end)
             r == s \ {t}
  <1>1. PICK u \in Rows :
          /\ rows' = (rows \ {t}) \cup {u}
          /\ u \notin rows \ {t}
          /\ u.amount = t.amount /\ u.created = t.created
    BY DecidedRow
  <1>2. s \subseteq rows /\ s \in SUBSET Rows /\ IsFiniteSet(s)
    BY SelectedRows
  <1>3. r \in SUBSET Rows /\ IsFiniteSet(r)
    BY <1>2, FS_RemoveElement
  <1>4. CASE t \in s
    <2>1. s' = r \cup {u} /\ s = r \cup {t} /\ u \notin r /\ t \notin r
      BY <1>1, <1>4 DEF Selected
    <2> HIDE DEF s, r
    <2>2. /\ SumOf(r \cup {u}) = SumOf(r) + u.amount
          /\ SumOf(r \cup {t}) = SumOf(r) + t.amount
      BY <1>2, <1>3, <1>4, <2>1, TotalWith
    <2>3. /\ Cardinality(r \cup {u}) = Cardinality(r) + 1
          /\ Cardinality(r \cup {t}) = Cardinality(r) + 1
      BY <1>3, <2>1, FS_AddElement
    <2>4. QED
      BY <1>1, <2>1, <2>2, <2>3 DEF s
  <1>5. CASE t \notin s
    <2>1. s' = s
      BY <1>1, <1>5 DEF Selected
    <2>2. QED
      BY <2>1
  <1>6. QED
    BY <1>4, <1>5

LEMMA FiguresStay ==
  ASSUME Inv, Inv', [Next]_vars, NEW end \in Ends,
         \A t \in writing : t.created >= end
  PROVE  /\ Cardinality(Selected(None, end)') = Cardinality(Selected(None, end))
         /\ SumOf(Selected(None, end)') = SumOf(Selected(None, end))
  <1>1. CASE rows' = rows
    BY <1>1 DEF Selected
  <1>2. ASSUME NEW t \in writing, Commit(t)
        PROVE  Selected(None, end)' = Selected(None, end)
    <2>1. t.created \in Int /\ end \in Int /\ end # None /\ t.created >= end
      BY EndsAreTimes DEF Inv, TypeOK, Rows
    <2>2. ~(t.created < end)
      BY <2>1
    <2>3. QED
      BY <1>2, <2>1, <2>2 DEF Commit, Selected
  <1>3. CASE \E t \in rows, d \in {"ALLOW", "REVIEW", "BLOCK"} : Decide(t, d)
    BY <1>3, DecideKeepsFigures
  <1>4. QED
    BY <1>1, <1>2, <1>3 DEF Next, Tick, Insert, RollBack, vars

\* A request inserts at the present time, which is no earlier.
LEMMA OverForGood ==
  ASSUME Inv, [Next]_vars, NEW end \in Ends, PeriodIsOver(end)
  PROVE  PeriodIsOver(end)'
  <1>1. end \in Int /\ now \in Int /\ end <= now
    BY EndsAreTimes DEF Inv, TypeOK, PeriodIsOver
  <1>2. CASE Tick
    BY <1>1, <1>2 DEF Tick, PeriodIsOver
  <1>3. ASSUME NEW k \in Keys, NEW amount \in Amounts, Insert(k, amount)
        PROVE  PeriodIsOver(end)'
    BY <1>1, <1>3 DEF Insert, PeriodIsOver
  <1>4. CASE writing' \subseteq writing /\ now' = now
    BY <1>1, <1>4 DEF PeriodIsOver
  <1>5. QED
    BY <1>2, <1>3, <1>4 DEF Next, Commit, RollBack, Decide, vars

\* No step changes the count of a period, nor an exact total, once every request
\* that inserted in it has come to its end, and none inserts in it any more
\* (transaction_analytics.py:87-101).
THEOREM ClosedPeriodsStay == Spec => ClosedPeriodsAreFinal
  <1>1. Inv /\ Inv' /\ [Next]_vars => [PeriodIsFinal]_vars
    <2> SUFFICES ASSUME Inv, Inv', [Next]_vars, NEW end \in Ends,
                        PeriodIsOver(end)
                 PROVE  /\ \A p \in Reports(None, end), later \in Reports(None, end)' :
                             /\ later.count = p.count
                             /\ Exact(Selected(None, end)) => later.total = p.total
                        /\ PeriodIsOver(end)'
      BY DEF PeriodIsFinal
    <2> DEFINE s == Selected(None, end)
               u == Selected(None, end)'
    <2>1. s \in SUBSET Rows /\ IsFiniteSet(s)
      BY SelectedRows
    <2>2. u \in SUBSET Rows /\ IsFiniteSet(u)
      <3>1. u \subseteq rows'
        BY DEF Selected
      <3> QED BY <3>1, FS_Subset DEF Inv, TypeOK
    <2>3. Cardinality(u) = Cardinality(s) /\ SumOf(u) = SumOf(s)
      <3>1. \A t \in writing : t.created >= end
        BY DEF PeriodIsOver
      <3> QED BY <3>1, FiguresStay
    <2>4. ASSUME NEW p \in Reports(None, end), NEW later \in Reports(None, end)'
          PROVE  /\ later.count = p.count
                 /\ Exact(s) => later.total = p.total
      <3>1. p.count = Cardinality(s) /\ p.total \in Totals(s)
        BY ReportFigures
      <3>2. later.count = Cardinality(u) /\ later.total \in Totals(u)
        BY DEF Reports
      <3> HIDE DEF s, u
      <3>3. Exact(s) => Exact(u)
        BY <2>3 DEF Exact
      <3> QED BY <2>1, <2>2, <2>3, <3>1, <3>2, <3>3, TotalIsExact
    <2> QED BY <2>4, OverForGood
  <1>2. QED
    BY <1>1, InvariantHolds, PTL DEF Spec, ClosedPeriodsAreFinal
==============================================================================
