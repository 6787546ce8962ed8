---------------------------- MODULE LoginLimiter ----------------------------
(***************************************************************************)
(* LoginRateLimiter (tumult-api/src/auth/rate_limit.rs) as login uses it:  *)
(* an attempt looks at its bucket, spends its argon2 time, and pays or     *)
(* clears the bucket afterwards, each time under the lock.                 *)
(***************************************************************************)
EXTENDS Naturals, FiniteSets

CONSTANTS
    LoginKeys,     \* ip|username
    Attempts,      \* logins the server works on at once
    LoginBurst,    \* LOGIN_BURST, in whole attempts
    MaxBuckets,    \* MAX_LOGIN_BUCKETS
    LoginMaxTicks  \* bound: tokens the clock gives back

ASSUME LoginAssumption ==
    /\ LoginBurst \in Nat \ {0} /\ MaxBuckets \in Nat \ {0} /\ LoginMaxTicks \in Nat
    /\ IsFiniteSet(Attempts)

VARIABLES
    loginBucket,   \* buckets, a map from keys
    loginTry,      \* the key of each attempt between throttled and its outcome
    loginTicks     \* ticks so far, for the bound

loginVars == <<loginBucket, loginTry, loginTicks>>

\* failed and refills: history, what happened to the bucket since it was made.
FreshBucket == [tokens |-> LoginBurst, failed |-> 0, refills |-> 0]
NoBuckets == [k \in {} |-> FreshBucket]

LoginInit ==
    /\ loginBucket = NoBuckets
    /\ loginTry = [a \in Attempts |-> {}]
    /\ loginTicks = 0

\* The entry of a key; at the bound every bucket is forgotten first.
Touched(k) ==
    LET kept == IF Cardinality(DOMAIN loginBucket) >= MaxBuckets
                  THEN NoBuckets ELSE loginBucket
    IN  [l \in DOMAIN kept \cup {k} |-> IF l \in DOMAIN kept THEN kept[l] ELSE FreshBucket]

\* throttled: a key without a token is answered 429 and costs nothing.
LoginThrottled(a, k) ==
    /\ loginTry[a] = {}
    /\ loginBucket' = Touched(k)
    /\ loginTry' = [loginTry EXCEPT ![a] =
                      IF Touched(k)[k].tokens < 1 THEN {} ELSE {k}]
    /\ UNCHANGED loginTicks

\* Mutant: a failed attempt is not paid for.
LoginPenalize_Free(a, k) ==
    /\ k \in loginTry[a]
    /\ loginBucket' = [Touched(k) EXCEPT ![k].failed = @ + 1]
    /\ loginTry' = [loginTry EXCEPT ![a] = {}]
    /\ UNCHANGED loginTicks

LoginPenalize(a, k) ==
    /\ k \in loginTry[a]
    /\ loginBucket' = [Touched(k) EXCEPT ![k].tokens = IF @ > 0 THEN @ - 1 ELSE 0,
                                         ![k].failed = @ + 1]
    /\ loginTry' = [loginTry EXCEPT ![a] = {}]
    /\ UNCHANGED loginTicks

\* reset, after a login that succeeds.
LoginReset(a, k) ==
    /\ k \in loginTry[a]
    /\ loginBucket' = [l \in DOMAIN loginBucket \ {k} |-> loginBucket[l]]
    /\ loginTry' = [loginTry EXCEPT ![a] = {}]
    /\ UNCHANGED loginTicks

\* refill: tokens come back with the time that has passed, up to the burst.
LoginRefill ==
    /\ loginTicks < LoginMaxTicks /\ loginTicks' = loginTicks + 1
    /\ loginBucket' = [k \in DOMAIN loginBucket |->
         IF loginBucket[k].tokens < LoginBurst
           THEN [loginBucket[k] EXCEPT !.tokens = @ + 1, !.refills = @ + 1]
           ELSE loginBucket[k]]
    /\ UNCHANGED loginTry

LoginNext ==
    \/ LoginRefill
    \/ \E a \in Attempts, k \in LoginKeys :
         LoginThrottled(a, k) \/ LoginPenalize(a, k) \/ LoginReset(a, k)

-----------------------------------------------------------------------------
(* The limiter bounds the guesses although it looks before argon2 and pays
   after it, and although a bucket has no debts: the attempts that fail on one
   bucket are its burst and what the clock gave back, and each time it runs
   dry the attempts that had already passed it come on top. *)
LoginGuessesBounded ==
    \A k \in DOMAIN loginBucket : LET b == loginBucket[k] IN
        b.failed <= LoginBurst + b.refills
                    + (Cardinality(Attempts) - 1) * (1 + b.refills)

=============================================================================
