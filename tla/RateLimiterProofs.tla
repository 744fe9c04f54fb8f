-------------------------- MODULE RateLimiterProofs --------------------------
(***************************************************************************)
(* Theorems about LoginRateLimiter, for every limit, window and host.      *)
(* Counted says that behind an attempt's count stand that many attempts of *)
(* its window: it holds whatever Redis loses.  Spaced and Numbered say how *)
(* windows and counts tell attempts apart where Redis has lost no key.     *)
(***************************************************************************)
EXTENDS LoginRateLimiter, FunctionTheorems, FiniteSetTheorems, TLAPS

Timed ==
  \A h \in Hosts :
    /\ since[h] <= now
    /\ IsFiniteSet(attempts[h])
    /\ \A a \in attempts[h] :
         a.at <= now /\ a.since <= a.at /\ a.at <= a.since + Window

Counted ==
  \A h \in Hosts :
    /\ \A n \in 1 .. current[h] : \E b \in attempts[h] :
         b.since = since[h] /\ b.current = n
    /\ \A a \in attempts[h] : \A n \in 1 .. a.current : \E b \in attempts[h] :
         b.since = a.since /\ b.current = n /\ b.at <= a.at

CountInv == TypeOK /\ Timed /\ Counted

Latest ==
  \A h \in Hosts \ lost : \A a \in attempts[h] :
    /\ current[h] > 0
    /\ a.since <= since[h]
    /\ a.since = since[h] => a.current <= current[h]

Spaced ==
  \A h \in Hosts \ lost : \A a, b \in attempts[h] :
    a.since < b.since => a.since + Window < b.since

Numbered ==
  \A h \in Hosts \ lost : \A a, b \in attempts[h] :
    a.since = b.since /\ a.current = b.current => a = b

WindowInv == Latest /\ Spaced /\ Numbered

-----------------------------------------------------------------------------
LEMMA InitCount == Init => CountInv
<1> USE LimiterAssumption DEF Init
<1>1. Init => TypeOK
  BY DEF TypeOK
<1>2. Init => Timed
  BY FS_EmptySet DEF Timed
<1>3. Init => Counted
  BY DEF Counted
<1> QED BY <1>1, <1>2, <1>3 DEF CountInv

\* What an attempt writes, for its own host and for the others.
LEMMA AttemptWrites ==
  ASSUME TypeOK, NEW h \in Hosts, Attempt(h)
  PROVE  LET new == [at |-> now, since |-> Expire(h), current |-> Incr(h)] IN
         /\ now' = now
         /\ now \in 0 .. MaxTime
         /\ Expire(h) \in 0 .. MaxTime
         /\ Incr(h) \in 1 .. MaxCurrent
         /\ current'[h] = Incr(h) /\ since'[h] = Expire(h)
         /\ attempts'[h] = attempts[h] \cup {new}
         /\ \A g \in Hosts \ {h} :
              /\ current'[g] = current[g]
              /\ since'[g] = since[g]
              /\ attempts'[g] = attempts[g]
  BY LimiterAssumption DEF TypeOK, Attempt, Incr, Expire, Live

LEMMA TypeStep == TypeOK /\ [Next]_vars => TypeOK'
<1> SUFFICES ASSUME TypeOK, [Next]_vars PROVE TypeOK'
  OBVIOUS
<1> USE LimiterAssumption
<1>1. CASE Tick
  BY <1>1 DEF TypeOK, Tick
<1>2. ASSUME NEW h \in Hosts, Attempt(h) PROVE TypeOK'
  <2> DEFINE new == [at |-> now, since |-> Expire(h), current |-> Incr(h)]
  <2>1. /\ now \in 0 .. MaxTime /\ Expire(h) \in 0 .. MaxTime
        /\ Incr(h) \in 1 .. MaxCurrent
    BY <1>2, AttemptWrites
  <2>2. current' \in [Hosts -> 0 .. MaxCurrent] /\ since' \in [Hosts -> 0 .. MaxTime]
    BY <1>2, <2>1 DEF TypeOK, Attempt
  <2>3. new \in [at : 0 .. MaxTime, since : 0 .. MaxTime, current : 1 .. MaxCurrent]
    BY <2>1
  <2>4. attempts' \in [Hosts -> SUBSET [at : 0 .. MaxTime, since : 0 .. MaxTime,
                                        current : 1 .. MaxCurrent]]
    BY <1>2, <2>3 DEF TypeOK, Attempt
  <2> QED BY <1>2, <2>2, <2>4 DEF TypeOK, Attempt
<1>3. ASSUME NEW h \in Hosts, Forget(h) PROVE TypeOK'
  BY <1>3 DEF TypeOK, Forget
<1>4. CASE UNCHANGED vars
  BY <1>4 DEF TypeOK, vars
<1> QED BY <1>1, <1>2, <1>3, <1>4 DEF Next

LEMMA TimedStep == CountInv /\ [Next]_vars => Timed'
<1> SUFFICES ASSUME CountInv, [Next]_vars PROVE Timed'
  OBVIOUS
<1> USE LimiterAssumption DEF CountInv
<1>1. CASE Tick
  BY <1>1 DEF TypeOK, Timed, Tick
<1>2. ASSUME NEW h \in Hosts, Attempt(h) PROVE Timed'
  <2> DEFINE new == [at |-> now, since |-> Expire(h), current |-> Incr(h)]
  <2>1. Expire(h) <= now /\ now <= Expire(h) + Window
    BY DEF TypeOK, Timed, Expire, Incr, Live, Expired
  <2>2. IsFiniteSet(attempts'[h])
    <3>1. IsFiniteSet(attempts[h])
      BY DEF Timed
    <3>2. IsFiniteSet(attempts[h] \cup {new})
      BY <3>1, FS_AddElement
    <3> QED BY <1>2, <3>2, AttemptWrites
  <2>3. ASSUME NEW a \in attempts'[h]
        PROVE  a.at <= now /\ a.since <= a.at /\ a.at <= a.since + Window
    BY <1>2, <2>1, AttemptWrites DEF Timed
  <2> QED BY <1>2, <2>1, <2>2, <2>3, AttemptWrites DEF Timed
<1>3. ASSUME NEW h \in Hosts, Forget(h) PROVE Timed'
  BY <1>3 DEF Timed, Forget
<1>4. CASE UNCHANGED vars
  BY <1>4 DEF Timed, vars
<1> QED BY <1>1, <1>2, <1>3, <1>4 DEF Next

LEMMA CountedStep == CountInv /\ [Next]_vars => Counted'
<1> SUFFICES ASSUME CountInv, [Next]_vars PROVE Counted'
  OBVIOUS
<1> USE LimiterAssumption DEF CountInv
<1>1. CASE Tick
  BY <1>1 DEF Counted, Tick
<1>2. ASSUME NEW h \in Hosts, Attempt(h) PROVE Counted'
  <2> DEFINE new == [at |-> now, since |-> Expire(h), current |-> Incr(h)]
  <2> HIDE DEF new
  <2>0. new.at = now /\ new.since = Expire(h) /\ new.current = Incr(h)
    BY DEF new
  <2>1. attempts'[h] = attempts[h] \cup {new}
    BY <1>2, AttemptWrites DEF new
  <2>2. ASSUME NEW n \in 1 .. Incr(h)
        PROVE  \E b \in attempts'[h] : b.since = Expire(h) /\ b.current = n /\ b.at <= now
    <3>1. CASE n = Incr(h)
      BY <2>0, <2>1, <3>1 DEF TypeOK
    <3>2. CASE n # Incr(h)
      <4>1. Live(h) /\ n \in 1 .. current[h] /\ Expire(h) = since[h]
        BY <1>2, <3>2 DEF Incr, Expire, Live, TypeOK
      <4>2. PICK b \in attempts[h] : b.since = since[h] /\ b.current = n
        BY <4>1 DEF Counted
      <4> QED BY <2>1, <4>1, <4>2 DEF Timed
    <3> QED BY <3>1, <3>2
  <2>3. ASSUME NEW a \in attempts'[h], NEW n \in 1 .. a.current
        PROVE  \E b \in attempts'[h] : b.since = a.since /\ b.current = n /\ b.at <= a.at
    <3>1. CASE a = new
      BY <2>0, <2>2, <3>1
    <3>2. CASE a \in attempts[h]
      BY <2>1, <3>2 DEF Counted
    <3> QED BY <2>1, <3>1, <3>2
  <2> QED BY <1>2, <2>2, <2>3, AttemptWrites DEF Counted
<1>3. ASSUME NEW h \in Hosts, Forget(h) PROVE Counted'
  <2>1. ASSUME NEW g \in Hosts
        PROVE  /\ attempts'[g] = attempts[g] /\ since'[g] = since[g]
               /\ 1 .. current'[g] \subseteq 1 .. current[g]
    BY <1>3 DEF Forget, TypeOK
  <2> QED BY <2>1 DEF Counted
<1>4. CASE UNCHANGED vars
  BY <1>4 DEF Counted, vars
<1> QED BY <1>1, <1>2, <1>3, <1>4 DEF Next

LEMMA CountInvariant == Spec => []CountInv
<1>1. CountInv /\ [Next]_vars => CountInv'
  BY TypeStep, TimedStep, CountedStep DEF CountInv
<1> QED BY InitCount, <1>1, PTL DEF Spec

-----------------------------------------------------------------------------
\* An attempt over the limit has, in its window, one attempt of each count
\* up to the limit, none of them earlier than Window before it.
LEMMA CountedAdmits ==
  ASSUME CountInv, NEW h \in Hosts, NEW a \in attempts[h], ~Allowed(a),
         NEW n \in 1 .. Limit
  PROVE  \E b \in Admitted(h) : b.at \in a.at - Window .. a.at /\ b.current = n
<1> USE LimiterAssumption DEF CountInv
<1>1. /\ a.at \in Int /\ a.since \in Int /\ a.current \in Int
      /\ a.at <= a.since + Window
  BY DEF TypeOK, Timed
<1>2. n \in 1 .. a.current
  BY <1>1 DEF Allowed
<1>3. PICK b \in attempts[h] : b.since = a.since /\ b.current = n /\ b.at <= a.at
  BY <1>2 DEF Counted
<1>4. b.at \in Int /\ b.since <= b.at
  BY <1>3 DEF TypeOK, Timed
<1>5. b.at \in a.at - Window .. a.at
  BY <1>1, <1>3, <1>4
<1> QED BY <1>3, <1>5 DEF Admitted, Allowed

\* A login is refused only when as many as the limit were admitted within the
\* Window before it, even if Redis loses keys (services/rate_limiter.py:36).
THEOREM RefusalIsDeserved == Spec => []RefusedOnlyAfterLimit
<1>1. CountInv => RefusedOnlyAfterLimit
  <2> SUFFICES ASSUME CountInv, NEW h \in Hosts, NEW a \in attempts[h], ~Allowed(a)
               PROVE  Cardinality({b \in Admitted(h) :
                                     b.at \in a.at - Window .. a.at}) >= Limit
    BY DEF RefusedOnlyAfterLimit
  <2> DEFINE T == {b \in Admitted(h) : b.at \in a.at - Window .. a.at}
             f == [n \in 1 .. Limit |-> CHOOSE b \in T : b.current = n]
  <2> HIDE DEF T
  <2>1. IsFiniteSet(T)
    <3>1. T \in SUBSET attempts[h]
      BY DEF T, Admitted
    <3>2. IsFiniteSet(attempts[h])
      BY DEF CountInv, Timed
    <3> QED BY <3>1, <3>2, FS_Subset
  <2>2. ASSUME NEW n \in 1 .. Limit PROVE f[n] \in T /\ f[n].current = n
    <3>1. \E b \in T : b.current = n
      BY CountedAdmits DEF T
    <3> QED BY <3>1
  <2>3. f \in Injection(1 .. Limit, T)
    <3>1. f \in [1 .. Limit -> T]
      BY <2>2
    <3>2. \A m, n \in 1 .. Limit : f[m] = f[n] => m = n
      BY <2>2
    <3> QED BY <3>1, <3>2 DEF Injection, IsInjective
  <2>4. Cardinality(1 .. Limit) <= Cardinality(T) /\ Cardinality(1 .. Limit) = Limit
    BY <2>1, <2>3, FS_Injection, FS_Interval, LimiterAssumption
  <2>5. Cardinality(T) \in Nat
    BY <2>1, FS_CardinalityType
  <2> QED BY <2>4, <2>5, LimiterAssumption DEF T
<1> QED BY <1>1, CountInvariant, PTL

\* An attempt made more than Retry-After after every earlier one is admitted,
\* even if Redis loses keys (api/deps.py:164).
THEOREM WaitSuffices == Spec => []RetryAfterSuffices
<1>1. CountInv => RetryAfterSuffices
  <2> SUFFICES ASSUME CountInv, NEW h \in Hosts, NEW a \in attempts[h], ~Allowed(a)
               PROVE  \E b \in attempts[h] \ {a} :
                        ~(b.at > a.at \/ b.at < a.at - Window)
    BY DEF RetryAfterSuffices
  <2>1. PICK b \in Admitted(h) : b.at \in a.at - Window .. a.at /\ b.current = 1
    BY CountedAdmits, LimiterAssumption
  <2>2. b \in attempts[h] \ {a}
    BY <2>1 DEF Admitted
  <2>3. a.at \in Int
    BY DEF CountInv, TypeOK
  <2> QED BY <2>1, <2>2, <2>3, LimiterAssumption
<1> QED BY <1>1, CountInvariant, PTL

-----------------------------------------------------------------------------
LEMMA InitWindows == Init => WindowInv
  BY DEF Init, WindowInv, Latest, Spaced, Numbered

LEMMA WindowStep == CountInv /\ WindowInv /\ [Next]_vars => WindowInv'
<1> SUFFICES ASSUME CountInv, WindowInv, [Next]_vars PROVE WindowInv'
  OBVIOUS
<1> USE LimiterAssumption DEF CountInv, WindowInv
<1>1. CASE Tick
  BY <1>1 DEF Tick, Latest, Spaced, Numbered
<1>0. ASSUME NEW h \in Hosts, Attempt(h), h \in lost PROVE WindowInv'
  BY <1>0, AttemptWrites DEF Attempt, Latest, Spaced, Numbered
<1>2. ASSUME NEW h \in Hosts \ lost, Attempt(h) PROVE WindowInv'
  <2>9. lost' = lost
    BY <1>2 DEF Attempt
  <2> DEFINE new == [at |-> now, since |-> Expire(h), current |-> Incr(h)]
  <2> HIDE DEF new
  <2>0. new.at = now /\ new.since = Expire(h) /\ new.current = Incr(h)
    BY DEF new
  <2>1. attempts'[h] = attempts[h] \cup {new}
    BY <1>2, AttemptWrites DEF new
  <2>2. /\ now \in Int /\ since[h] \in Int /\ current[h] \in Nat
        /\ Expire(h) \in Int /\ Incr(h) \in Int /\ Incr(h) > 0
        /\ \A a \in attempts[h] : a.since \in Int /\ a.current \in Int
    BY <1>2, AttemptWrites DEF TypeOK
  \* Either the window goes on, or the new one begins after the last has ended.
  <2>3. ASSUME NEW a \in attempts[h]
        PROVE  \/ /\ Expire(h) = since[h] /\ Incr(h) = current[h] + 1
                  /\ a.since = Expire(h) => a.current < Incr(h)
                  /\ a.since < Expire(h) => a.since + Window < Expire(h)
                  /\ a.since <= Expire(h)
               \/ a.since + Window < Expire(h)
    <3>1. current[h] > 0 /\ a.since <= since[h]
      BY DEF Latest
    <3>2. CASE Live(h)
      <4>1. Expire(h) = since[h] /\ Incr(h) = current[h] + 1
        BY <2>2, <3>1, <3>2 DEF Expire, Incr
      <4>2. a.since < since[h] => a.since + Window < since[h]
        <5>1. PICK b \in attempts[h] : b.since = since[h]
          BY <2>2, <3>1 DEF Counted
        <5> QED BY <5>1 DEF Spaced
      <4> QED BY <2>2, <3>1, <4>1, <4>2 DEF Latest
    <3>3. CASE ~Live(h)
      BY <2>2, <3>1, <3>3 DEF Expire, Incr, Live, Expired
    <3> QED BY <3>2, <3>3
  <2>4. Latest'
    <3>1. ASSUME NEW a \in attempts'[h]
          PROVE  /\ current'[h] > 0 /\ a.since <= since'[h]
                 /\ a.since = since'[h] => a.current <= current'[h]
      BY <1>2, <2>0, <2>1, <2>2, <2>3, AttemptWrites
    <3> QED BY <1>2, <2>9, <3>1, AttemptWrites DEF Latest
  <2>5. Spaced'
    <3>1. ASSUME NEW a \in attempts'[h], NEW b \in attempts'[h], a.since < b.since
          PROVE  a.since + Window < b.since
      BY <2>0, <2>1, <2>2, <2>3, <3>1 DEF Spaced
    <3> QED BY <1>2, <2>9, <3>1, AttemptWrites DEF Spaced
  <2>6. Numbered'
    <3>1. ASSUME NEW a \in attempts'[h], NEW b \in attempts'[h],
                 a.since = b.since, a.current = b.current
          PROVE  a = b
      BY <2>0, <2>1, <2>2, <2>3, <3>1 DEF Numbered
    <3> QED BY <1>2, <2>9, <3>1, AttemptWrites DEF Numbered
  <2> QED BY <2>4, <2>5, <2>6
<1>3. ASSUME NEW h \in Hosts, Forget(h) PROVE WindowInv'
  BY <1>3 DEF Forget, Latest, Spaced, Numbered
<1>4. CASE UNCHANGED vars
  BY <1>4 DEF vars, Latest, Spaced, Numbered
<1> QED BY <1>0, <1>1, <1>2, <1>3, <1>4 DEF Next

\* The attempts of one span belong to two windows.
LEMMA TwoWindows ==
  ASSUME CountInv, WindowInv, NEW h \in Hosts \ lost, NEW s \in 0 .. MaxTime
  PROVE  \E p, q \in Int : \A a \in AdmittedFrom(h, s) : a.since \in {p, q}
<1> DEFINE A == AdmittedFrom(h, s)
<1> USE LimiterAssumption DEF CountInv, WindowInv
<1>1. ASSUME NEW a \in A
      PROVE  /\ a \in attempts[h] /\ a.since \in Int
             /\ s - Window <= a.since /\ a.since <= s + Window
  BY DEF AdmittedFrom, Admitted, Timed, TypeOK
<1>2. CASE A = {}
  BY <1>2
<1>3. CASE A # {}
  <2>1. PICK x \in A : TRUE
    BY <1>3
  <2>2. CASE \A a \in A : a.since = x.since
    BY <1>1, <2>2
  <2>3. CASE \E a \in A : a.since # x.since
    <3>1. PICK y \in A : y.since # x.since
      BY <2>3
    <3>2. ASSUME NEW z \in A PROVE z.since \in {x.since, y.since}
      <4> SUFFICES ASSUME z.since # x.since, z.since # y.since PROVE FALSE
        OBVIOUS
      <4>1. \A a, b \in {x, y, z} : a.since < b.since => a.since + Window < b.since
        BY <1>1, <3>1 DEF Spaced
      <4> QED BY <1>1, <3>1, <4>1
    <3> QED BY <1>1, <3>1, <3>2
  <2> QED BY <2>2, <2>3
<1> QED BY <1>2, <1>3

\* No span as long as the window admits more than twice the limit, unless
\* Redis lost the host's key (services/rate_limiter.py:3-11).
THEOREM BurstsAreBounded == Spec => []BurstBounded
<1>1. CountInv /\ WindowInv => BurstBounded
  <2> SUFFICES ASSUME CountInv, WindowInv, NEW h \in Hosts \ lost, NEW s \in 0 .. MaxTime
               PROVE  Cardinality(AdmittedFrom(h, s)) <= 2 * Limit
    BY DEF BurstBounded
  <2> DEFINE A == AdmittedFrom(h, s)
  <2>1. PICK p, q \in Int : \A a \in A : a.since \in {p, q}
    BY TwoWindows
  <2>2. ASSUME NEW a \in A
        PROVE  a \in attempts[h] /\ a.current \in 1 .. Limit
    BY LimiterAssumption DEF AdmittedFrom, Admitted, Allowed, CountInv, TypeOK
  <2> HIDE DEF A
  <2> DEFINE f == [a \in A |-> IF a.since = p THEN a.current ELSE Limit + a.current]
  <2>3. f \in [A -> 1 .. 2 * Limit]
    BY <2>2, LimiterAssumption
  <2>4. ASSUME NEW a \in A, NEW b \in A, f[a] = f[b] PROVE a = b
    <3>1. a.since = b.since /\ a.current = b.current
      BY <2>1, <2>2, <2>4, LimiterAssumption
    <3> QED BY <2>2, <3>1 DEF WindowInv, Numbered
  <2>5. f \in Injection(A, 1 .. 2 * Limit)
    BY <2>3, <2>4 DEF Injection, IsInjective
  <2>6. IsFiniteSet(1 .. 2 * Limit) /\ Cardinality(1 .. 2 * Limit) = 2 * Limit
    BY FS_Interval, LimiterAssumption
  <2> QED BY <2>5, <2>6, FS_Injection DEF A
<1>2. Spec => []WindowInv
  BY InitWindows, WindowStep, CountInvariant, PTL DEF Spec
<1> QED BY <1>1, <1>2, CountInvariant, PTL
==============================================================================
