--------------------------- MODULE LoginRateLimiter ---------------------------
(***************************************************************************)
(* The login rate limiter: one Redis counter per client host, incremented  *)
(* by a script that also sets the key's expiry when it creates the key     *)
(* (services/rate_limiter.py), asked by a dependency of POST /auth/login   *)
(* (api/deps.py) before the credentials are looked at.  Redis runs the     *)
(* script as one step, by its own clock.  A refused attempt is counted     *)
(* like any other.                                                         *)
(***************************************************************************)
EXTENDS Integers, FiniteSets

CONSTANTS
  Hosts,          \* what request.client.host may be
  Limit,          \* settings.login_rate_limit_requests
  Window,         \* settings.login_rate_limit_window_seconds
  MaxTime,        \* bound of the model on the clock
  MaxCurrent      \* bound of the model on a counter

ASSUME LimiterAssumption ==
  /\ Limit \in Nat \ {0}
  /\ Window \in Nat \ {0}
  /\ MaxTime \in Nat
  /\ MaxCurrent \in Nat

VARIABLES
  now,        \* the clock of Redis
  current,    \* the counter of each host's key
  since,      \* when the key was created: it expires Window later
  attempts,   \* history: the logins that asked, with what the script saw
  lost        \* history: the hosts whose key Redis has lost

vars == <<now, current, since, attempts, lost>>

Init ==
  /\ now = 0
  /\ current = [h \in Hosts |-> 0]
  /\ since = [h \in Hosts |-> 0]
  /\ attempts = [h \in Hosts |-> {}]
  /\ lost = {}

\* Mutant: a crash between INCR and EXPIRE leaves a key that never expires.
ExpiredNever(h) == FALSE

\* Redis expires a key when the clock is past its time, not at it.
Expired(h) == now > since[h] + Window

\* Whether a key exists, which INCR continues.
Live(h) == current[h] > 0 /\ ~Expired(h)

\* What INCR returns: a missing key counts from zero.
Incr(h) == IF Live(h) THEN current[h] + 1 ELSE 1

\* Mutant: the expiry set at every attempt, so that a refusal renews the block.
ExpireAlways(h) == now

\* EXPIRE is called for the first attempt only; later ones leave it alone.
Expire(h) == IF Incr(h) = 1 THEN now ELSE since[h]

\* Mutant: one attempt too many.
AllowedOneMore(a) == a.current <= Limit + 1

Allowed(a) == a.current <= Limit

Attempt(h) ==
  /\ Incr(h) <= MaxCurrent
  /\ current' = [current EXCEPT ![h] = Incr(h)]
  /\ since' = [since EXCEPT ![h] = Expire(h)]
  /\ attempts' = [attempts EXCEPT ![h] = @ \cup
       {[at |-> now, since |-> Expire(h), current |-> Incr(h)]}]
  /\ UNCHANGED <<now, lost>>

\* Redis is killed and comes back from a snapshot without the key.
Forget(h) ==
  /\ Live(h)
  /\ current' = [current EXCEPT ![h] = 0]
  /\ lost' = lost \cup {h}
  /\ UNCHANGED <<now, since, attempts>>

Tick ==
  /\ now < MaxTime
  /\ now' = now + 1
  /\ UNCHANGED <<current, since, attempts, lost>>

Next == Tick \/ \E h \in Hosts : Attempt(h) \/ Forget(h)

Spec == Init /\ [][Next]_vars

\* Time passes.
FairSpec == Spec /\ WF_vars(Tick)

-----------------------------------------------------------------------------
Admitted(h) == {a \in attempts[h] : Allowed(a)}

\* The logins admitted in the Window that begins at s.
AdmittedFrom(h, s) == {a \in Admitted(h) : a.at \in s .. s + Window}

TypeOK ==
  /\ now \in 0 .. MaxTime
  /\ current \in [Hosts -> 0 .. MaxCurrent]
  /\ since \in [Hosts -> 0 .. MaxTime]
  /\ attempts \in [Hosts -> SUBSET [at : 0 .. MaxTime, since : 0 .. MaxTime,
                                    current : 1 .. MaxCurrent]]
  /\ lost \subseteq Hosts

\* A fixed window, not a sliding one: whatever the order of attempts and
\* expiries, no span as long as the window admits more than two windows'
\* worth of one host's logins, unless Redis lost the host's key
\* (services/rate_limiter.py:3-11).
BurstBounded ==
  \A h \in Hosts \ lost : \A s \in 0 .. MaxTime :
    Cardinality(AdmittedFrom(h, s)) <= 2 * Limit

\* A login is refused only when as many as the limit of its host's were
\* admitted within the Window before it, although refused attempts go on
\* counting: a client that went over the limit is not shut out for longer
\* (services/rate_limiter.py:6, 36).
RefusedOnlyAfterLimit ==
  \A h \in Hosts : \A a \in attempts[h] :
    ~Allowed(a) => Cardinality({b \in Admitted(h) :
                                  b.at \in a.at - Window .. a.at}) >= Limit

\* Retry-After is long enough: an attempt made later than that after every
\* earlier one of its host is admitted (api/deps.py:164).
RetryAfterSuffices ==
  \A h \in Hosts : \A a \in attempts[h] :
    (\A b \in attempts[h] \ {a} : b.at > a.at \/ b.at < a.at - Window)
       => Allowed(a)

\* A block ends by itself, whatever the blocked host goes on sending: every
\* key expires (services/rate_limiter.py:7).
BlockEnds ==
  \A h \in Hosts :
    (Live(h) /\ now < MaxTime - Window) ~> ~Live(h)
==============================================================================
