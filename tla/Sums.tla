--------------------------------- MODULE Sums ---------------------------------
(***************************************************************************)
(* Facts about the sum of a function's values over a finite set, for the   *)
(* totals of a report and the balances the ledger's rows add up to.        *)
(* SumFunctionOnSet is the recursive function of the community modules     *)
(* that takes out one element after the other.  That its equation has a    *)
(* solution, and that the order does not matter, is proved by taking a     *)
(* smallest set for which it were false.                                   *)
(***************************************************************************)
EXTENDS Integers, Functions, FiniteSetTheorems, TLAPS

Pick(s) == CHOOSE x \in s : TRUE

\* F has the sums of f over the subsets of S.
HasSums(F, f, S) ==
  F = [s \in SUBSET S |-> IF s = {} THEN 0 ELSE f[Pick(s)] + F[s \ {Pick(s)}]]

\* Among sets of subsets of a finite set there is a smallest one.
LEMMA Smallest ==
  ASSUME NEW S, IsFiniteSet(S), NEW B \in SUBSET (SUBSET S), B # {}
  PROVE  \E T \in B : \A U \in B : U \subseteq T => U = T
  <1>1. IsWellFoundedOn(StrictSubsetOrdering(S), SUBSET S)
    BY FS_StrictSubsetOrderingWellFounded, FS_FiniteSubsetsOfFinite
  <1>2. PICK T \in B : \A U \in B : <<U, T>> \notin StrictSubsetOrdering(S)
    <2>1. B \subseteq SUBSET S
      OBVIOUS
    <2>2. QED
      BY <1>1, <2>1, WFMin
  <1>3. ASSUME NEW U \in B, U \subseteq T, U # T
        PROVE  FALSE
    BY <1>2, <1>3 DEF StrictSubsetOrdering
  <1>4. QED
    BY <1>3

LEMMA Picked ==
  ASSUME NEW s, s # {}
  PROVE  Pick(s) \in s
  BY DEF Pick

\* The sums over the subsets of a set are those over the subsets of a larger.
LEMMA SumsAgree ==
  ASSUME NEW S, IsFiniteSet(S), NEW T \in SUBSET S, NEW f, NEW F, NEW G,
         HasSums(F, f, S), HasSums(G, f, T)
  PROVE  \A U \in SUBSET T : F[U] = G[U]
  <1> SUFFICES ASSUME {U \in SUBSET T : F[U] # G[U]} # {}
               PROVE  FALSE
    OBVIOUS
  <1>1. PICK U \in SUBSET T : /\ F[U] # G[U]
                              /\ \A V \in SUBSET U : V # U => F[V] = G[V]
    <2> DEFINE B == {U \in SUBSET T : F[U] # G[U]}
    <2>1. B \in SUBSET (SUBSET S) /\ B # {}
      OBVIOUS
    <2> HIDE DEF B
    <2>2. PICK U \in B : \A V \in B : V \subseteq U => V = U
      BY <2>1, Smallest
    <2>3. QED
      BY <2>2 DEF B
  <1>2. U # {}
    BY <1>1 DEF HasSums
  <1>3. Pick(U) \in U /\ U \ {Pick(U)} \in SUBSET U /\ U \ {Pick(U)} # U
    BY <1>2, Picked
  <1>4. F[U] = f[Pick(U)] + F[U \ {Pick(U)}]
    BY <1>2 DEF HasSums
  <1>5. G[U] = f[Pick(U)] + G[U \ {Pick(U)}]
    BY <1>2 DEF HasSums
  <1>6. QED
    BY <1>1, <1>3, <1>4, <1>5

LEMMA SumsExist ==
  ASSUME NEW S, IsFiniteSet(S), NEW f
  PROVE  \E F : HasSums(F, f, S)
  <1> SUFFICES ASSUME {T \in SUBSET S : ~ \E F : HasSums(F, f, T)} # {}
               PROVE  FALSE
    OBVIOUS
  <1>1. PICK T \in SUBSET S :
          /\ ~ \E F : HasSums(F, f, T)
          /\ \A U \in SUBSET T : U # T => \E F : HasSums(F, f, U)
    <2> DEFINE B == {T \in SUBSET S : ~ \E F : HasSums(F, f, T)}
    <2>1. B \in SUBSET (SUBSET S) /\ B # {}
      OBVIOUS
    <2> HIDE DEF B
    <2>2. PICK T \in B : \A U \in B : U \subseteq T => U = T
      BY <2>1, Smallest
    <2>3. QED
      BY <2>2 DEF B
  <1> DEFINE G(U) == CHOOSE H : HasSums(H, f, U)
             F == [s \in SUBSET T |->
                     IF s = {} THEN 0
                     ELSE f[Pick(s)] + G(s \ {Pick(s)})[s \ {Pick(s)}]]
  <1>2. ASSUME NEW U \in SUBSET T, U # T
        PROVE  HasSums(G(U), f, U)
    BY <1>1, <1>2
  <1>3. ASSUME NEW U \in SUBSET T, U # T
        PROVE  F[U] = G(U)[U]
    <2> DEFINE V == U \ {Pick(U)}
    <2>1. CASE U = {}
      <3>1. HasSums(G(U), f, U)
        BY <1>2, <1>3
      <3>2. F[U] = 0
        BY <2>1
      <3> HIDE DEF G, F
      <3>3. G(U)[U] = 0
        BY <2>1, <3>1 DEF HasSums
      <3>4. QED
        BY <3>2, <3>3
    <2>2. CASE U # {}
      <3>1. V \in SUBSET U /\ V \in SUBSET T /\ V # T
        BY <1>3, <2>2, Picked
      <3>2. HasSums(G(U), f, U) /\ HasSums(G(V), f, V)
        BY <1>2, <1>3, <3>1
      <3>3. IsFiniteSet(U)
        BY FS_Subset
      <3> HIDE DEF G, V
      <3>4. G(U)[V] = G(V)[V]
        BY <3>1, <3>2, <3>3, SumsAgree
      <3>5. G(U)[U] = f[Pick(U)] + G(U)[V]
        BY <2>2, <3>2 DEF HasSums, V
      <3>6. F[U] = f[Pick(U)] + G(V)[V]
        BY <2>2 DEF V
      <3>7. QED
        BY <3>4, <3>5, <3>6
    <2>3. QED
      BY <2>1, <2>2
  <1> HIDE DEF G
  <1>4. ASSUME NEW s \in SUBSET T, s # {}
        PROVE  F[s] = f[Pick(s)] + F[s \ {Pick(s)}]
    <2>1. s \ {Pick(s)} \in SUBSET T /\ s \ {Pick(s)} # T
      BY <1>4, Picked
    <2>2. F[s \ {Pick(s)}] = G(s \ {Pick(s)})[s \ {Pick(s)}]
      BY <1>3, <2>1
    <2>3. QED
      BY <1>4, <2>2
  <1>5. HasSums(F, f, T)
    <2>1. F[{}] = 0
      OBVIOUS
    <2>2. \A s \in SUBSET T :
            F[s] = IF s = {} THEN 0 ELSE f[Pick(s)] + F[s \ {Pick(s)}]
      BY <1>4, <2>1
    <2>3. F = [s \in SUBSET T |-> F[s]]
      OBVIOUS
    <2> HIDE DEF F
    <2>4. QED
      BY <2>2, <2>3 DEF HasSums
  <1>6. QED
    BY <1>1, <1>5

\* The equation of the sum.
LEMMA SumEquation ==
  ASSUME NEW S, IsFiniteSet(S), NEW f
  PROVE  SumFunctionOnSet(f, S) =
           IF S = {} THEN 0
           ELSE f[Pick(S)] + SumFunctionOnSet(f, S \ {Pick(S)})
  <1>1. \A T : SumFunctionOnSet(f, T) = (CHOOSE F : HasSums(F, f, T))[T]
    BY DEF SumFunctionOnSet, FoldFunctionOnSet, MapThenFoldSet, HasSums, Pick
  <1> DEFINE F == CHOOSE H : HasSums(H, f, S)
             T == S \ {Pick(S)}
             G == CHOOSE H : HasSums(H, f, T)
  <1>2. T \in SUBSET S /\ IsFiniteSet(T)
    BY FS_Subset
  <1>3. HasSums(F, f, S) /\ HasSums(G, f, T)
    BY <1>2, SumsExist
  <1>4. SumFunctionOnSet(f, S) = F[S] /\ SumFunctionOnSet(f, T) = G[T]
    BY <1>1
  <1> HIDE DEF F, G, T
  <1>5. F[T] = G[T]
    BY <1>2, <1>3, SumsAgree
  <1>6. F[S] = IF S = {} THEN 0 ELSE f[Pick(S)] + F[T]
    BY <1>3 DEF HasSums, T
  <1>7. QED
    BY <1>4, <1>5, <1>6 DEF T

\* Nothing adds up to nothing.
LEMMA SumOfNothing ==
  ASSUME NEW f
  PROVE  SumFunctionOnSet(f, {}) = 0
  BY SumEquation, FS_EmptySet

\* Integers add up to an integer.
LEMMA SumIsInteger ==
  ASSUME NEW S, IsFiniteSet(S), NEW f, \A x \in S : f[x] \in Int
  PROVE  SumFunctionOnSet(f, S) \in Int
  <1> DEFINE B == {T \in SUBSET S : SumFunctionOnSet(f, T) \notin Int}
  <1> SUFFICES ASSUME B # {}
               PROVE  FALSE
    OBVIOUS
  <1>1. PICK T \in B : \A U \in B : U \subseteq T => U = T
    <2>1. B \in SUBSET (SUBSET S)
      OBVIOUS
    <2> HIDE DEF B
    <2>2. QED
      BY <2>1, Smallest
  <1>2. IsFiniteSet(T) /\ T \subseteq S
    BY FS_Subset
  <1>3. T # {}
    BY SumOfNothing
  <1>4. Pick(T) \in T /\ T \ {Pick(T)} \in SUBSET S /\ T \ {Pick(T)} # T
    BY <1>2, <1>3, Picked
  <1>5. SumFunctionOnSet(f, T \ {Pick(T)}) \in Int
    BY <1>1, <1>4
  <1>6. SumFunctionOnSet(f, T) = f[Pick(T)] + SumFunctionOnSet(f, T \ {Pick(T)})
    BY <1>2, <1>3, SumEquation
  <1>7. QED
    BY <1>2, <1>4, <1>5, <1>6

\* Natural numbers add up to a natural number.
LEMMA SumIsNatural ==
  ASSUME NEW S, IsFiniteSet(S), NEW f, \A x \in S : f[x] \in Nat
  PROVE  SumFunctionOnSet(f, S) \in Nat
  <1> DEFINE B == {T \in SUBSET S : SumFunctionOnSet(f, T) \notin Nat}
  <1> SUFFICES ASSUME B # {}
               PROVE  FALSE
    OBVIOUS
  <1>1. PICK T \in B : \A U \in B : U \subseteq T => U = T
    <2>1. B \in SUBSET (SUBSET S)
      OBVIOUS
    <2> HIDE DEF B
    <2>2. QED
      BY <2>1, Smallest
  <1>2. IsFiniteSet(T) /\ T \subseteq S
    BY FS_Subset
  <1>3. T # {}
    BY SumOfNothing
  <1>4. Pick(T) \in T /\ T \ {Pick(T)} \in SUBSET S /\ T \ {Pick(T)} # T
    BY <1>2, <1>3, Picked
  <1>5. SumFunctionOnSet(f, T \ {Pick(T)}) \in Nat
    BY <1>1, <1>4
  <1>6. SumFunctionOnSet(f, T) = f[Pick(T)] + SumFunctionOnSet(f, T \ {Pick(T)})
    BY <1>2, <1>3, SumEquation
  <1>7. f[Pick(T)] \in Nat
    BY <1>2, <1>4
  <1>8. QED
    BY <1>5, <1>6, <1>7

\* Whichever element is taken out first, the sum is the same.
LEMMA SumWithout ==
  ASSUME NEW S, IsFiniteSet(S), NEW f, \A y \in S : f[y] \in Int, NEW x \in S
  PROVE  SumFunctionOnSet(f, S) = f[x] + SumFunctionOnSet(f, S \ {x})
  <1> DEFINE Without(T) == \A y \in T :
               SumFunctionOnSet(f, T) = f[y] + SumFunctionOnSet(f, T \ {y})
             B == {T \in SUBSET S : ~Without(T)}
  <1> SUFFICES ASSUME B # {}
               PROVE  FALSE
    OBVIOUS
  <1>1. PICK T \in B : \A U \in B : U \subseteq T => U = T
    <2>1. B \in SUBSET (SUBSET S)
      OBVIOUS
    <2> HIDE DEF B
    <2>2. QED
      BY <2>1, Smallest
  <1>2. IsFiniteSet(T) /\ T \subseteq S
    BY FS_Subset
  <1>3. PICK y \in T :
          SumFunctionOnSet(f, T) # f[y] + SumFunctionOnSet(f, T \ {y})
    OBVIOUS
  <1> DEFINE p == Pick(T)
             R == T \ {p, y}
  <1>4. p \in T /\ R = (T \ {p}) \ {y} /\ R = (T \ {y}) \ {p}
    BY Picked
  <1>5. SumFunctionOnSet(f, T) = f[p] + SumFunctionOnSet(f, T \ {p})
    BY <1>2, <1>4, SumEquation
  <1>6. p # y
    BY <1>3, <1>5
  <1>7. Without(T \ {p}) /\ Without(T \ {y})
    <2>1. /\ T \ {p} \in SUBSET S /\ T \ {p} # T /\ T \ {p} \subseteq T
          /\ T \ {y} \in SUBSET S /\ T \ {y} # T /\ T \ {y} \subseteq T
      BY <1>2, <1>4
    <2> HIDE DEF p, Without
    <2>2. QED
      BY <1>1, <2>1
  <1>8. /\ SumFunctionOnSet(f, T \ {p}) = f[y] + SumFunctionOnSet(f, R)
        /\ SumFunctionOnSet(f, T \ {y}) = f[p] + SumFunctionOnSet(f, R)
    <2> HIDE DEF p, R
    <2>1. QED
      BY <1>4, <1>6, <1>7
  <1>9. f[p] \in Int /\ f[y] \in Int /\ SumFunctionOnSet(f, R) \in Int
    <2>1. f[p] \in Int /\ f[y] \in Int
      BY <1>2, <1>4
    <2>2. IsFiniteSet(R) /\ \A z \in R : f[z] \in Int
      BY <1>2, FS_Subset
    <2>3. QED
      BY <2>1, <2>2, SumIsInteger
  <1>10. QED
    <2> HIDE DEF p, R
    <2>1. QED
      BY <1>3, <1>5, <1>8, <1>9

\* The sum depends on the values in the set only.
LEMMA SumOfSame ==
  ASSUME NEW S, IsFiniteSet(S), NEW f, NEW g, \A x \in S : f[x] = g[x]
  PROVE  SumFunctionOnSet(f, S) = SumFunctionOnSet(g, S)
  <1> DEFINE B == {T \in SUBSET S :
                     SumFunctionOnSet(f, T) # SumFunctionOnSet(g, T)}
  <1> SUFFICES ASSUME B # {}
               PROVE  FALSE
    OBVIOUS
  <1>1. PICK T \in B : \A U \in B : U \subseteq T => U = T
    <2>1. B \in SUBSET (SUBSET S)
      OBVIOUS
    <2> HIDE DEF B
    <2>2. QED
      BY <2>1, Smallest
  <1>2. IsFiniteSet(T) /\ T \subseteq S
    BY FS_Subset
  <1>3. T # {}
    BY SumOfNothing
  <1> DEFINE p == Pick(T)
             U == T \ {p}
  <1>4. p \in T /\ U \in SUBSET S /\ U # T /\ U \subseteq T
    BY <1>2, <1>3, Picked
  <1>5. SumFunctionOnSet(f, U) = SumFunctionOnSet(g, U)
    <2> HIDE DEF p, U
    <2>1. QED
      BY <1>1, <1>4
  <1>6. /\ SumFunctionOnSet(f, T) = f[p] + SumFunctionOnSet(f, U)
        /\ SumFunctionOnSet(g, T) = g[p] + SumFunctionOnSet(g, U)
    BY <1>2, <1>3, SumEquation
  <1>7. QED
    BY <1>2, <1>4, <1>5, <1>6

\* Two sets without a common element add up to the two sums.
LEMMA SumOfUnion ==
  ASSUME NEW S, IsFiniteSet(S), NEW T, IsFiniteSet(T), S \cap T = {},
         NEW f, \A x \in S \cup T : f[x] \in Int
  PROVE  SumFunctionOnSet(f, S \cup T)
           = SumFunctionOnSet(f, S) + SumFunctionOnSet(f, T)
  <1> DEFINE B == {U \in SUBSET S :
                     SumFunctionOnSet(f, U \cup T)
                       # SumFunctionOnSet(f, U) + SumFunctionOnSet(f, T)}
  <1> SUFFICES ASSUME B # {}
               PROVE  FALSE
    OBVIOUS
  <1>1. PICK U \in B : \A V \in B : V \subseteq U => V = U
    <2>1. B \in SUBSET (SUBSET S)
      OBVIOUS
    <2> HIDE DEF B
    <2>2. QED
      BY <2>1, Smallest
  <1>2. IsFiniteSet(U) /\ IsFiniteSet(U \cup T) /\ U \subseteq S
    BY FS_Subset, FS_Union
  <1>3. SumFunctionOnSet(f, T) \in Int
    BY SumIsInteger
  <1>4. PICK x : x \in U
    <2>1. CASE U = {}
      <3>1. U \cup T = T
        BY <2>1
      <3>2. QED
        BY <1>3, <2>1, <3>1, SumOfNothing
    <2>2. QED
      BY <2>1
  <1> DEFINE V == U \ {x}
  <1>5. V \in SUBSET S /\ V # U /\ V \subseteq U /\ V \cup T = (U \cup T) \ {x}
    BY <1>2, <1>4
  <1>6. SumFunctionOnSet(f, V \cup T)
          = SumFunctionOnSet(f, V) + SumFunctionOnSet(f, T)
    <2> HIDE DEF V
    <2>1. QED
      BY <1>1, <1>5
  <1>7. /\ SumFunctionOnSet(f, U \cup T) = f[x] + SumFunctionOnSet(f, V \cup T)
        /\ SumFunctionOnSet(f, U) = f[x] + SumFunctionOnSet(f, V)
    BY <1>2, <1>4, <1>5, SumWithout
  <1>8. f[x] \in Int /\ SumFunctionOnSet(f, V) \in Int
    BY <1>2, <1>4, <1>5, FS_Subset, SumIsInteger
  <1>9. QED
    BY <1>3, <1>6, <1>7, <1>8

-------------------------------------------------------------------------------
(***************************************************************************)
(* The same for a function's sum over its domain, as the ledger's          *)
(* functions change: a row is added, one row's value changes.              *)
(***************************************************************************)
LEMMA SumOverDomain ==
  ASSUME NEW f
  PROVE  SumFunction(f) = SumFunctionOnSet(f, DOMAIN f)
  BY DEF SumFunction, FoldFunction, SumFunctionOnSet

LEMMA SumFunctionIsInteger ==
  ASSUME NEW S, IsFiniteSet(S), NEW f \in [S -> Int]
  PROVE  SumFunction(f) \in Int
  BY SumOverDomain, SumIsInteger

LEMMA SumOfOneMore ==
  ASSUME NEW S, IsFiniteSet(S), NEW x, x \notin S,
         NEW f \in [S -> Int], NEW g \in [S \cup {x} -> Int],
         \A y \in S : g[y] = f[y]
  PROVE  SumFunction(g) = SumFunction(f) + g[x]
  <1>1. (S \cup {x}) \ {x} = S
    OBVIOUS
  <1>2. IsFiniteSet(S \cup {x})
    BY FS_AddElement
  <1>3. SumFunctionOnSet(g, S \cup {x}) = g[x] + SumFunctionOnSet(g, S)
    BY <1>1, <1>2, SumWithout
  <1>4. SumFunctionOnSet(g, S) = SumFunctionOnSet(f, S)
    BY SumOfSame
  <1>5. SumFunctionOnSet(f, S) \in Int
    BY SumIsInteger
  <1>6. QED
    BY <1>3, <1>4, <1>5, SumOverDomain

LEMMA SumOfChanged ==
  ASSUME NEW S, IsFiniteSet(S), NEW x \in S,
         NEW f \in [S -> Int], NEW g \in [S -> Int],
         \A y \in S \ {x} : g[y] = f[y]
  PROVE  SumFunction(g) = SumFunction(f) - f[x] + g[x]
  <1>1. /\ SumFunctionOnSet(f, S) = f[x] + SumFunctionOnSet(f, S \ {x})
        /\ SumFunctionOnSet(g, S) = g[x] + SumFunctionOnSet(g, S \ {x})
    BY SumWithout
  <1>2. IsFiniteSet(S \ {x})
    BY FS_Subset
  <1>3. SumFunctionOnSet(g, S \ {x}) = SumFunctionOnSet(f, S \ {x})
    BY <1>2, SumOfSame
  <1>4. SumFunctionOnSet(f, S \ {x}) \in Int
    BY <1>2, SumIsInteger
  <1>5. QED
    BY <1>1, <1>3, <1>4, SumOverDomain
===============================================================================
