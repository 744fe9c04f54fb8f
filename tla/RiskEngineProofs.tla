--------------------------- MODULE RiskEngineProofs ---------------------------
(* The properties of RiskEngine, for all amounts, batches and clocks. *)
EXTENDS RiskEngine, FiniteSetTheorems, TLAPS

\* What ties a result to its transfer: identifiers are never used again, and
\* the owners of a transfer's accounts were there before it.
Tied ==
  /\ \A t \in transfers :
       t.id[1] < commits /\ opened[t.from] \in Nat /\ opened[t.to] \in Nat
  /\ \A t, u \in transfers : t.id = u.id => t = u
  /\ \A r \in running \cup results : r.id[1] < commits

Typed == RiskTypeOK /\ IsFiniteSet(transfers)

IInv ==
  /\ Typed /\ Tied /\ BlockedForAReason /\ LargeTransfersAreHeld
  /\ BurstsAreNoticed /\ StoredScoreFitsDecision

USE RiskAssumption

-----------------------------------------------------------------------------
(* The score. *)

LEMMA ScoreBounds ==
  ASSUME NEW a \in Nat, NEW n \in Nat, NEW age \in Nat, NEW fresh \in BOOLEAN
  PROVE  ScoreOf(a, n, age, fresh) \in Nat /\ ScoreOf(a, n, age, fresh) <= 100 * Point
BY SMT DEF ScoreOf, Least, Point

\* What a score of 70 takes.
LEMMA BlockTakes ==
  ASSUME NEW a \in Nat, NEW n \in Nat, NEW age \in Nat, NEW fresh \in BOOLEAN,
         ScoreOf(a, n, age, fresh) >= 70 * Point
  PROVE  a >= 250000 /\ (age < 365 \/ fresh \/ (a >= 1000000 /\ n >= 20))
BY SMT DEF ScoreOf, Least, Point

\* What a score of 40 or less leaves to a large transfer.
LEMMA AllowTakes ==
  ASSUME NEW a \in Nat, NEW n \in Nat, NEW age \in Nat, NEW fresh \in BOOLEAN,
         ScoreOf(a, n, age, fresh) <= 40 * Point, a >= 1000000
  PROVE  age >= 365 /\ ~fresh /\ n = 0
BY SMT DEF ScoreOf, Least, Point

LEMMA RoundedBounds ==
  ASSUME NEW s \in Nat, s <= 100 * Point, NEW h \in Rounded(s)
  PROVE  h \in Nat /\ h <= 10000
<1>1. s \div Hundredth \in Int
  BY SMT DEF Hundredth
<1>2. h \in Int
  BY <1>1 DEF Rounded
<1>3. 2 * h * Hundredth <= 2 * s + Hundredth /\ 2 * s <= 2 * h * Hundredth + Hundredth
  BY DEF Rounded
<1> QED BY <1>2, <1>3, SMT DEF Hundredth, Point

\* Rounding to a hundredth does not step over 40 or 70, but may step onto it.
LEMMA RoundingKeepsSide ==
  ASSUME NEW s \in Nat, NEW h \in Nat, h \in Rounded(s)
  PROVE  /\ s <= 40 * Point => h <= 4000
         /\ s >= 40 * Point => h >= 4000
         /\ s <= 70 * Point => h <= 7000
         /\ s >= 70 * Point => h >= 7000
<1>1. 2 * h * Hundredth <= 2 * s + Hundredth /\ 2 * s <= 2 * h * Hundredth + Hundredth
  BY DEF Rounded
<1> QED BY <1>1, SMT DEF Hundredth, Point

LEMMA DivisionOfNat == ASSUME NEW n \in Nat PROVE n \div Day \in Nat
BY SMT DEF Day

-----------------------------------------------------------------------------
(* The context. *)

LEMMA Context ==
  ASSUME Typed, Tied, NEW t \in transfers, NEW time \in Nat
  PROVE  /\ Others(t, time) \subseteq transfers
         /\ Cardinality(Others(t, time)) \in Nat
         /\ Cardinality(Others(t, time)) = 0 => Others(t, time) = {}
         /\ Age(t, time) \in Nat
         /\ Fresh(t, time) \in BOOLEAN
         /\ t.amount \in Nat
<1>1. Others(t, time) \subseteq transfers
  BY DEF Others
<1>2. IsFiniteSet(Others(t, time))
  BY <1>1, FS_Subset DEF Typed
<1>3. opened[t.from] \in Nat
  BY DEF Tied
<1>4. Age(t, time) \in Nat
  <2>1. time <= opened[t.from] \/ time - opened[t.from] \in Nat
    BY <1>3
  <2> QED BY <2>1, DivisionOfNat DEF Age
<1>5. t.amount \in Nat
  <2>1. t \in Transfers
    BY DEF Typed, RiskTypeOK
  <2> QED BY <2>1, RiskAssumption DEF Transfers
<1>6. Fresh(t, time) \in BOOLEAN
  BY DEF Fresh
<1> QED BY <1>1, <1>2, <1>4, <1>5, <1>6, FS_CardinalityType, FS_EmptySet

\* An owner that is there stays as it is.
LEMMA OwnersStay ==
  ASSUME RiskTypeOK, Tied, NEW t \in transfers,
         opened' = opened \/ \E a \in Accounts : Open(a)
  PROVE  opened'[t.from] = opened[t.from] /\ opened'[t.to] = opened[t.to]
<1>1. CASE opened' = opened
  BY <1>1
<1>2. ASSUME NEW a \in Accounts, Open(a)
      PROVE  opened'[t.from] = opened[t.from] /\ opened'[t.to] = opened[t.to]
  <2>1. t.from # a /\ t.to # a
    BY <1>2 DEF Open, Tied
  <2>2. t.from \in Accounts /\ t.to \in Accounts
    BY DEF RiskTypeOK, Transfers
  <2> QED BY <1>2, <2>1, <2>2 DEF Open, RiskTypeOK
<1> QED BY <1>1, <1>2

\* What a step does to Age and Fresh of a transfer that is there already.
LEMMA ContextStays ==
  ASSUME RiskTypeOK, Tied, NEW t \in transfers, NEW time \in Nat,
         opened' = opened \/ \E a \in Accounts : Open(a)
  PROVE  Age(t, time)' = Age(t, time) /\ Fresh(t, time)' = Fresh(t, time)
BY OwnersStay DEF Age, Fresh

-----------------------------------------------------------------------------
(* The invariant. *)

LEMMA InitIInv == Init => IInv
<1> SUFFICES ASSUME Init PROVE IInv
  OBVIOUS
<1>1. RiskTypeOK
  BY DEF Init, RiskTypeOK
<1>2. IsFiniteSet(transfers)
  BY FS_EmptySet DEF Init
<1>3. transfers = {} /\ running = {} /\ results = {}
  BY DEF Init
<1>4. Tied
  BY <1>3 DEF Tied
<1>5. BlockedForAReason /\ LargeTransfersAreHeld
  BY <1>3 DEF BlockedForAReason, LargeTransfersAreHeld
<1>6. BurstsAreNoticed /\ StoredScoreFitsDecision
  BY <1>3 DEF BurstsAreNoticed, StoredScoreFitsDecision
<1> QED BY <1>1, <1>2, <1>4, <1>5, <1>6 DEF IInv, Typed

LEMMA TickIInv == ASSUME IInv, Tick PROVE IInv'
<1>1. Typed'
  BY DEF IInv, Typed, RiskTypeOK, Tick
<1>2. Tied'
  BY DEF IInv, Tied, Tick
<1>3. (BlockedForAReason /\ LargeTransfersAreHeld /\ BurstsAreNoticed
       /\ StoredScoreFitsDecision)'
  BY SMT DEF IInv, BlockedForAReason, LargeTransfersAreHeld, BurstsAreNoticed, Of,
              StoredScoreFitsDecision, Age, Fresh, Tick
<1> QED BY <1>1, <1>2, <1>3 DEF IInv

LEMMA OpenIInv == ASSUME IInv, NEW a \in Accounts, Open(a) PROVE IInv'
<1>1. Typed'
  <2>1. opened' \in [Accounts -> Nat \cup {None}]
    BY DEF IInv, Typed, RiskTypeOK, Open
  <2>2. UNCHANGED <<now, commits, transfers, running, tried, results>>
    BY DEF Open
  <2> QED BY <2>1, <2>2 DEF IInv, Typed, RiskTypeOK
<1>2. Tied'
  <2>1. \A t \in transfers : t.from # a /\ t.to # a
    BY DEF IInv, Tied, Open
  <2> QED BY <2>1 DEF IInv, Typed, RiskTypeOK, Transfers, Tied, Open
<1>3. \A t \in transfers, time \in Nat :
        Age(t, time)' = Age(t, time) /\ Fresh(t, time)' = Fresh(t, time)
  BY ContextStays DEF IInv, Typed
<1>4. UNCHANGED <<transfers, results>> /\ \A r \in results : r.now \in Nat
  BY DEF Open, IInv, Typed, RiskTypeOK
<1>5. BlockedForAReason'
  BY SMT, <1>3, <1>4 DEF IInv, BlockedForAReason
<1>6. LargeTransfersAreHeld'
  BY SMT, <1>3, <1>4 DEF IInv, LargeTransfersAreHeld
<1>7. BurstsAreNoticed'
  BY <1>4 DEF IInv, BurstsAreNoticed, Of
<1>8. StoredScoreFitsDecision'
  BY <1>4 DEF IInv, StoredScoreFitsDecision
<1> QED BY <1>1, <1>2, <1>5, <1>6, <1>7, <1>8 DEF IInv

LEMMA CommitIInv ==
  ASSUME IInv, NEW a \in Accounts, NEW b \in Accounts, NEW amount \in Amounts,
         NEW n \in Batches, NEW delay \in Delays, Commit(a, b, amount, n, delay)
  PROVE  IInv'
<1> DEFINE New(i) == [id |-> <<commits, i>>, from |-> a, to |-> b,
                      amount |-> amount, created |-> now - delay]
           Added == {New(i) : i \in 1 .. n}
<1>0. /\ transfers' = transfers \cup Added /\ commits' = commits + 1
      /\ UNCHANGED <<now, opened, running, tried, results>>
  BY DEF Commit
<1>1. commits \in Nat /\ n \in Nat /\ now - delay \in Nat
  BY RiskAssumption DEF IInv, Typed, RiskTypeOK, Commit
<1>2. Added \subseteq Transfers
  BY <1>1, RiskAssumption DEF Transfers, Ids
<1>3. IsFiniteSet(Added)
  <2>1. IsFiniteSet(1 .. n)
    BY <1>1, FS_Interval
  <2>2. [i \in 1 .. n |-> New(i)] \in Surjection(1 .. n, Added)
    <3> HIDE DEF New
    <3> QED BY DEF Surjection
  <2> HIDE DEF Added
  <2> QED BY <2>1, <2>2, FS_Surjection
<1>4. \A t \in Added : t.id[1] = commits /\ t.from = a /\ t.to = b
  OBVIOUS
<1>5. \A t, u \in Added : t.id = u.id => t = u
  BY <1>1
<1> HIDE DEF Added
<1>6. Typed'
  <2>1. transfers' \subseteq Transfers
    BY <1>0, <1>2 DEF IInv, Typed, RiskTypeOK
  <2>2. IsFiniteSet(transfers')
    BY <1>0, <1>3, FS_Union DEF IInv, Typed
  <2>3. transfers \subseteq transfers'
    BY <1>0
  <2> QED BY <1>0, <1>1, <2>1, <2>2, <2>3 DEF IInv, Typed, RiskTypeOK
<1>7. \A t \in transfers : t.id[1] < commits
  BY DEF IInv, Tied
<1>8. \A r \in running \cup results : r.id[1] < commits /\ r.id[1] \in Nat
  BY DEF IInv, Tied, Typed, RiskTypeOK, Ids
<1>9. \A t \in transfers : t.id[1] \in Nat
  BY DEF IInv, Typed, RiskTypeOK, Transfers, Ids
<1>10. Tied'
  <2>1. opened[a] \in Nat /\ opened[b] \in Nat
    BY DEF Commit, IInv, Typed, RiskTypeOK
  <2>2. \A t \in transfers' : t.id[1] < commits' /\ opened'[t.from] \in Nat /\ opened'[t.to] \in Nat
    BY <1>0, <1>1, <1>4, <1>7, <1>9, <2>1 DEF IInv, Tied
  <2>3. \A t, u \in transfers' : t.id = u.id => t = u
    BY <1>0, <1>1, <1>4, <1>5, <1>7, <1>9 DEF IInv, Tied
  <2>4. \A r \in running' \cup results' : r.id[1] < commits'
    BY <1>0, <1>1, <1>8
  <2> QED BY <2>2, <2>3, <2>4 DEF Tied
\* No result is of a new transfer.
<1>11. \A t \in transfers', r \in results' : r.id = t.id => t \in transfers
  BY <1>0, <1>1, <1>4, <1>8
<1>12. \A t \in transfers, time \in Nat :
         Age(t, time)' = Age(t, time) /\ Fresh(t, time)' = Fresh(t, time)
  BY <1>0 DEF Age, Fresh
<1>13. \A r \in results : r.now \in Nat
  BY DEF IInv, Typed, RiskTypeOK
<1>14. BlockedForAReason'
  BY SMT, <1>0, <1>11, <1>12, <1>13 DEF IInv, BlockedForAReason
<1>15. LargeTransfersAreHeld'
  BY SMT, <1>0, <1>11, <1>12, <1>13 DEF IInv, LargeTransfersAreHeld
<1>16. BurstsAreNoticed'
  BY <1>0, <1>11 DEF IInv, BurstsAreNoticed, Of
<1>17. StoredScoreFitsDecision'
  BY <1>0 DEF IInv, StoredScoreFitsDecision
<1> QED BY SMT, <1>6, <1>10, <1>14, <1>15, <1>16, <1>17 DEF IInv

LEMMA ClaimIInv == ASSUME IInv, NEW t \in transfers, Claim(t) PROVE IInv'
<1>1. UNCHANGED <<now, opened, commits, transfers, tried, results>>
  BY DEF Claim
<1>2. running' = running \cup {[id |-> t.id, now |-> now]}
  BY DEF Claim
<1>3. t.id \in Ids /\ t.id[1] < commits /\ now \in Nat
  BY DEF IInv, Typed, RiskTypeOK, Transfers, Tied
<1>4. Typed'
  BY <1>1, <1>2, <1>3 DEF IInv, Typed, RiskTypeOK
<1>5. Tied'
  BY <1>1, <1>2, <1>3 DEF IInv, Tied
<1>6. (BlockedForAReason /\ LargeTransfersAreHeld /\ BurstsAreNoticed
       /\ StoredScoreFitsDecision)'
  BY SMT, <1>1 DEF IInv, BlockedForAReason, LargeTransfersAreHeld, BurstsAreNoticed, Of,
              StoredScoreFitsDecision, Age, Fresh
<1> QED BY <1>4, <1>5, <1>6 DEF IInv

LEMMA GiveUpIInv == ASSUME IInv, NEW r \in running, GiveUp(r) PROVE IInv'
<1>1. UNCHANGED <<now, opened, commits, transfers, results>> /\ running' \subseteq running
      /\ tried' = tried \cup {r.id}
  BY DEF GiveUp
<1>2. Typed'
  BY <1>1 DEF IInv, Typed, RiskTypeOK
<1>3. Tied'
  BY <1>1 DEF IInv, Tied
<1>4. (BlockedForAReason /\ LargeTransfersAreHeld /\ BurstsAreNoticed
       /\ StoredScoreFitsDecision)'
  BY SMT, <1>1 DEF IInv, BlockedForAReason, LargeTransfersAreHeld, BurstsAreNoticed, Of,
              StoredScoreFitsDecision, Age, Fresh
<1> QED BY <1>2, <1>3, <1>4 DEF IInv

LEMMA ScoreIInv ==
  ASSUME IInv, NEW t \in transfers, NEW r \in running, Score(t, r)
  PROVE  IInv'
<1> DEFINE s == Risk(t, r.now)
<1>1. PICK d \in Decisions(s), h \in Rounded(s) :
        results' = results \cup
          {[id |-> t.id, now |-> r.now, counted |-> Others(t, r.now), score |-> h, decision |-> d]}
  BY DEF Score
<1> DEFINE x == [id |-> t.id, now |-> r.now, counted |-> Others(t, r.now), score |-> h, decision |-> d]
<1>2. UNCHANGED <<now, opened, commits, transfers, tried>> /\ running' \subseteq running
  BY DEF Score
<1>3. t.id \in Ids /\ t.id[1] < commits /\ r.now \in Nat
  BY DEF IInv, Typed, RiskTypeOK, Transfers, Tied
<1>4. /\ Others(t, r.now) \subseteq transfers /\ Cardinality(Others(t, r.now)) \in Nat
      /\ Cardinality(Others(t, r.now)) = 0 => Others(t, r.now) = {}
      /\ Age(t, r.now) \in Nat /\ Fresh(t, r.now) \in BOOLEAN /\ t.amount \in Nat
  BY <1>3, Context DEF IInv
<1>5. s = ScoreOf(t.amount, Cardinality(Others(t, r.now)), Age(t, r.now), Fresh(t, r.now))
  BY DEF Risk
<1> HIDE DEF s
<1>6. s \in Nat /\ s <= 100 * Point
  BY <1>4, <1>5, ScoreBounds, Zenon
<1>7. h \in Nat /\ h <= 10000
  BY SMT, <1>6, RoundedBounds
<1>8. d \in {"ALLOW", "REVIEW", "BLOCK"}
  BY DEF Decisions
<1>9. Typed'
  <2>1. x \in [id : Ids, now : Nat, counted : SUBSET transfers,
                score : Nat, decision : {"ALLOW", "REVIEW", "BLOCK"}]
    BY <1>3, <1>4, <1>7, <1>8
  <2>2. x.score <= 10000
    BY <1>7
  <2> QED BY <1>1, <1>2, <2>1, <2>2 DEF IInv, Typed, RiskTypeOK
<1>10. Tied'
  BY <1>1, <1>2, <1>3 DEF IInv, Tied
<1>11. \A u \in transfers : u.id = t.id => u = t
  BY DEF IInv, Tied
<1>12. \A u \in transfers, time \in Nat :
         Age(u, time)' = Age(u, time) /\ Fresh(u, time)' = Fresh(u, time)
  BY <1>2 DEF Age, Fresh
<1>13. \A y \in results : y.now \in Nat
  BY DEF IInv, Typed, RiskTypeOK
<1>14. d = "BLOCK" => /\ t.amount >= 250000
                      /\ \/ Age(t, r.now) < 365 \/ Fresh(t, r.now)
                         \/ t.amount >= 1000000 /\ Cardinality(Others(t, r.now)) >= 20
  <2>1. d = "BLOCK" => s >= 70 * Point
    BY DEF Decisions
  <2> QED BY SMT, <1>4, <1>5, <2>1, BlockTakes
<1>15. d = "ALLOW" /\ t.amount >= 1000000 =>
         Age(t, r.now) >= 365 /\ ~Fresh(t, r.now) /\ Others(t, r.now) = {}
  <2>1. d = "ALLOW" => s <= 40 * Point
    BY DEF Decisions
  <2> QED BY SMT, <1>4, <1>5, <2>1, AllowTakes
<1>16. BlockedForAReason'
  <2> SUFFICES ASSUME NEW u \in transfers, NEW y \in results \cup {x},
                      y.id = u.id, y.decision = "BLOCK"
               PROVE  /\ u.amount >= 250000
                      /\ \/ Age(u, y.now) < 365 \/ Fresh(u, y.now)
                         \/ u.amount >= 1000000 /\ Cardinality(y.counted) >= 20
    BY SMT, <1>1, <1>2, <1>3, <1>12, <1>13 DEF BlockedForAReason
  <2>1. CASE y \in results
    BY SMT, <2>1 DEF IInv, BlockedForAReason
  <2>2. CASE y = x
    BY SMT, <2>2, <1>11, <1>14
  <2> QED BY <2>1, <2>2
<1>17. LargeTransfersAreHeld'
  <2> SUFFICES ASSUME NEW u \in transfers, NEW y \in results \cup {x},
                      y.id = u.id, y.decision = "ALLOW", u.amount >= 1000000
               PROVE  Age(u, y.now) >= 365 /\ ~Fresh(u, y.now) /\ y.counted = {}
    BY SMT, <1>1, <1>2, <1>3, <1>12, <1>13 DEF LargeTransfersAreHeld
  <2>1. CASE y \in results
    BY SMT, <2>1 DEF IInv, LargeTransfersAreHeld
  <2>2. CASE y = x
    BY SMT, <2>2, <1>11, <1>15
  <2> QED BY <2>1, <2>2
\* Whichever of the two is the new result, the other transfer was counted in it.
<1>18. BurstsAreNoticed'
  <2> SUFFICES ASSUME NEW v \in transfers, NEW u \in transfers,
                      NEW y \in results \cup {x}, NEW z \in results \cup {x},
                      v # u, v.from = u.from, y.id = v.id, z.id = u.id,
                      u.created >= y.now - 1, v.created >= z.now - 1
               PROVE  u \in y.counted \/ v \in z.counted
    BY <1>1, <1>2 DEF BurstsAreNoticed, Of
  <2>0. v.id # u.id
    BY DEF IInv, Tied
  <2>1. CASE y \in results /\ z \in results
    BY <2>1 DEF IInv, BurstsAreNoticed, Of
  <2>2. CASE y = x
    BY <2>0, <2>2, <1>11 DEF Others
  <2>3. CASE z = x
    BY <2>0, <2>3, <1>11 DEF Others
  <2> QED BY <2>1, <2>2, <2>3
<1>19. StoredScoreFitsDecision'
  <2>1. /\ d = "ALLOW" => h <= 4000
        /\ d = "REVIEW" => h \in 4000 .. 7000
        /\ d = "BLOCK" => h >= 7000
    BY <1>6, <1>7, RoundingKeepsSide DEF Decisions
  <2> QED BY <1>1, <2>1 DEF IInv, StoredScoreFitsDecision
<1> QED BY <1>9, <1>10, <1>16, <1>17, <1>18, <1>19 DEF IInv

LEMMA StepIInv == IInv /\ [Next]_vars => IInv'
<1> SUFFICES ASSUME IInv, [Next]_vars PROVE IInv'
  OBVIOUS
<1>1. CASE UNCHANGED vars
  BY SMT, <1>1 DEF vars, IInv, Typed, RiskTypeOK, Tied, BlockedForAReason, LargeTransfersAreHeld,
              BurstsAreNoticed, Of, StoredScoreFitsDecision, Age, Fresh
<1>2. CASE Next
  BY <1>2, TickIInv, OpenIInv, CommitIInv, ClaimIInv, ScoreIInv, GiveUpIInv DEF Next
<1> QED BY <1>1, <1>2

LEMMA Invariant == Spec => []IInv
BY InitIInv, StepIInv, PTL DEF Spec

\* Every decision is one of the three, and its score fits the table.
THEOREM RiskTypes == Spec => []RiskTypeOK
<1>1. IInv => RiskTypeOK
  BY DEF IInv, Typed
<1> QED BY Invariant, <1>1, PTL

\* Why a transfer is blocked, for every amount, age and number of transfers.
THEOREM BlocksHaveReasons == Spec => []BlockedForAReason
<1>1. IInv => BlockedForAReason
  BY DEF IInv
<1> QED BY Invariant, <1>1, PTL

\* What lets a large transfer through unseen.
THEOREM LargeOnesAreHeld == Spec => []LargeTransfersAreHeld
<1>1. IInv => LargeTransfersAreHeld
  BY DEF IInv
<1> QED BY Invariant, <1>1, PTL

\* No two transfers of a burst are both scored as if the other were not there.
THEOREM NoBurstSlipsPast == Spec => []BurstsAreNoticed
<1>1. IInv => BurstsAreNoticed
  BY DEF IInv
<1> QED BY Invariant, <1>1, PTL

\* A stored score and its decision disagree at 40.00 and 70.00 at most.
THEOREM StoredScoresFit == Spec => []StoredScoreFitsDecision
<1>1. IInv => StoredScoreFitsDecision
  BY DEF IInv
<1> QED BY Invariant, <1>1, PTL

-----------------------------------------------------------------------------
(* Time. *)

LEMMA ScoreMonotone ==
  ASSUME NEW a \in Nat, NEW m \in Nat, NEW n \in Nat, m <= n,
         NEW age \in Nat, NEW older \in Nat, age <= older,
         NEW fresh \in BOOLEAN, NEW fresher \in BOOLEAN, fresh => fresher
  PROVE  ScoreOf(a, m, older, fresh) <= ScoreOf(a, n, age, fresher)
<1>1. Least(m, 20) <= Least(n, 20) /\ Least(m, 20) \in Nat /\ Least(n, 20) \in Nat
  BY SMT DEF Least
<1>2. Least(age, 365) <= Least(older, 365) /\ Least(age, 365) \in Nat /\ Least(older, 365) \in Nat
  BY SMT DEF Least
<1>3. Least(a, 1000000) \in Nat
  BY SMT DEF Least
<1> QED BY <1>1, <1>2, <1>3, SMT DEF ScoreOf, Point

LEMMA AgeMonotone ==
  ASSUME NEW a \in Nat, NEW b \in Nat, a <= b
  PROVE  a \div Day <= b \div Day
BY SMT DEF Day

LEMMA RiskFalls ==
  ASSUME Typed, Tied, Typed', UNCHANGED transfers, now <= now',
         opened' = opened \/ \E a \in Accounts : Open(a),
         NEW t \in transfers
  PROVE  Risk(t, now)' <= Risk(t, now)
<1>1. now \in Nat /\ now' \in Nat
  BY DEF Typed, RiskTypeOK
<1>2. /\ opened'[t.from] = opened[t.from] /\ opened'[t.to] = opened[t.to]
      /\ opened[t.from] \in Nat /\ opened[t.to] \in Nat
  BY OwnersStay DEF Tied, Typed
<1>3. /\ Cardinality(Others(t, now)) \in Nat /\ Age(t, now) \in Nat
      /\ Fresh(t, now) \in BOOLEAN /\ t.amount \in Nat
  BY <1>1, Context
<1>4. Age(t, now)' \in Nat /\ Age(t, now) <= Age(t, now)'
  <2>1. CASE now' <= opened[t.from]
    <3>1. Age(t, now) = 0 /\ Age(t, now)' = 0
      BY <1>1, <1>2, <2>1 DEF Age
    <3> QED BY <3>1
  <2>2. CASE ~(now' <= opened[t.from])
    <3>1. Age(t, now)' = (now' - opened[t.from]) \div Day /\ now' - opened[t.from] \in Nat
      BY <1>1, <1>2, <2>2 DEF Age
    <3>2. CASE now <= opened[t.from]
      <4>1. Age(t, now) = 0
        BY <3>2 DEF Age
      <4> QED BY <3>1, <4>1, DivisionOfNat
    <3>3. CASE ~(now <= opened[t.from])
      <4>1. Age(t, now) = (now - opened[t.from]) \div Day /\ now - opened[t.from] \in Nat
        BY <1>1, <1>2, <3>3 DEF Age
      <4>2. now - opened[t.from] <= now' - opened[t.from]
        BY <1>1, <1>2
      <4> QED BY <3>1, <4>1, <4>2, AgeMonotone, DivisionOfNat
    <3> QED BY <3>2, <3>3
  <2> QED BY <2>1, <2>2
<1>5. Fresh(t, now)' \in BOOLEAN /\ (Fresh(t, now)' => Fresh(t, now))
  BY <1>1, <1>2 DEF Fresh, Day
<1>6. Others(t, now)' \subseteq Others(t, now)
  BY <1>1 DEF Others, Typed, RiskTypeOK, Transfers
<1>7. /\ Cardinality(Others(t, now)') \in Nat
      /\ Cardinality(Others(t, now)') <= Cardinality(Others(t, now))
  <2>1. IsFiniteSet(Others(t, now))
    BY FS_Subset DEF Others, Typed
  <2> QED BY <1>6, <2>1, FS_Subset, FS_CardinalityType
<1>8. Risk(t, now)' = ScoreOf(t.amount, Cardinality(Others(t, now)'), Age(t, now)', Fresh(t, now)')
  BY DEF Risk
<1>9. Risk(t, now) = ScoreOf(t.amount, Cardinality(Others(t, now)), Age(t, now), Fresh(t, now))
  BY DEF Risk
<1>10. \A a, m, n, age, older \in Nat, fresh, fresher \in BOOLEAN :
         m <= n /\ age <= older /\ (fresh => fresher) =>
           ScoreOf(a, m, older, fresh) <= ScoreOf(a, n, age, fresher)
  BY ScoreMonotone
<1>11. ScoreOf(t.amount, Cardinality(Others(t, now)'), Age(t, now)', Fresh(t, now)')
         <= ScoreOf(t.amount, Cardinality(Others(t, now)), Age(t, now), Fresh(t, now))
  BY <1>3, <1>4, <1>5, <1>7, <1>10
<1> QED BY <1>8, <1>9, <1>11

\* A job that waits, however long, does not get a higher score from that alone.
THEOREM WaitingIsSafe == Spec => WaitingNeverRaises
<1>1. IInv /\ IInv' /\ [Next]_vars => [NoRiskFromWaiting]_<<now, opened, transfers>>
  <2> SUFFICES ASSUME IInv, IInv', Next, transfers' = transfers, NEW t \in transfers
               PROVE  Risk(t, now)' <= Risk(t, now)
    BY DEF NoRiskFromWaiting, vars
  <2>1. now <= now' /\ (opened' = opened \/ \E a \in Accounts : Open(a))
    BY RiskAssumption DEF Next, Tick, Open, Commit, Claim, Score, GiveUp, IInv, Typed, RiskTypeOK
  <2> QED BY <2>1, RiskFalls DEF IInv
<1> QED BY <1>1, Invariant, PTL DEF Spec, WaitingNeverRaises
==============================================================================
