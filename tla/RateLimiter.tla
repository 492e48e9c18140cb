------------------------------- MODULE RateLimiter -------------------------------
(***************************************************************************)
(* Fixed-window limits of the calls of a client, per scope. The processes  *)
(* of a deployment with Redis share one counter per key; without Redis     *)
(* each process has buckets of its own.                                    *)
(*                                                                         *)
(* A bucket is written with the time it has left, so that time may pass    *)
(* for ever. A key is a scope together with a client.                      *)
(***************************************************************************)
EXTENDS Integers, FiniteSets

CONSTANTS
  Keys,
  Processes,     \* API processes
  Shared,        \* the counters in Redis
  Limit, Window  \* RateLimitRule

ASSUME LimiterAssumption ==
  /\ Shared \notin Processes
  /\ Limit \in Nat \ {0} /\ Window \in Nat \ {0}

VARIABLES
  redis,   \* whether Redis is configured
  bucket,  \* the buckets of Redis and of each process
  recent   \* calls admitted within the last window, with their ages, per bucket

limiterVars == <<redis, bucket, recent>>

-----------------------------------------------------------------------------
Backends == Processes \cup {Shared}

\* _rate_limiter_for
BackendOf(p) == IF redis THEN Shared ELSE p

\* A bucket past its window is as good as none.
Empty == [count |-> 0, left |-> 0]

Ages == 0..(Window - 1)

\* An admitted call is told from others of its age by its number.
Calls == [age : Ages, nth : Nat]

Newest(calls) == {c \in calls : c.age = 0}

Older(calls) == {[c EXCEPT !.age = @ + 1] : c \in {x \in calls : x.age + 1 < Window}}

LimiterInit ==
  /\ redis \in BOOLEAN
  /\ bucket = [b \in Backends |-> [k \in Keys |-> Empty]]
  /\ recent = [b \in Backends |-> [k \in Keys |-> {}]]

Store(b, k, new) == bucket' = [bucket EXCEPT ![b][k] = new]

\* Fault: every increment renews the expiry.
IncrementRenewing(old) ==
  [count |-> IF old.count > Limit THEN old.count ELSE old.count + 1, left |-> Window]

\* The Redis script: INCR, and EXPIRE on the first. The count of refused calls is cut
\* at Limit + 1.
Increment(old) ==
  IF old.left = 0 THEN [count |-> 1, left |-> Window]
  ELSE [old EXCEPT !.count = IF @ > Limit THEN @ ELSE @ + 1]

\* Fault: the comparison lets one more through.
FitsOneMore(count) == count <= Limit + 1

Fits(count) == count <= Limit

Admit(b, k) ==
  recent' = [recent EXCEPT ![b][k] = @ \cup {[age |-> 0, nth |-> Cardinality(Newest(@)) + 1]}]

\* RedisFixedWindowRateLimiter.check. Redis may fail before or after it counted: the
\* call is refused.
CheckRedis(k, allowed) ==
  LET new == Increment(bucket[Shared][k]) IN
  \/ /\ Store(Shared, k, new)
     /\ allowed = Fits(new.count)
     /\ IF allowed THEN Admit(Shared, k) ELSE UNCHANGED recent
  \/ /\ ~allowed
     /\ Store(Shared, k, new) \/ UNCHANGED bucket
     /\ UNCHANGED recent

\* InMemoryFixedWindowRateLimiter.check: a refused call is not counted.
CheckMemory(p, k, allowed) ==
  LET old == bucket[p][k] IN
  \/ /\ allowed
     /\ \/ old.left = 0 /\ Store(p, k, [count |-> 1, left |-> Window])
        \/ /\ old.left > 0 /\ old.count < Limit
           /\ Store(p, k, [old EXCEPT !.count = @ + 1])
     /\ Admit(p, k)
  \/ /\ ~allowed
     /\ old.left > 0 /\ old.count >= Limit
     /\ UNCHANGED <<bucket, recent>>

\* The rate limiter of process p is asked for a key.
Check(p, k, allowed) ==
  /\ IF redis THEN CheckRedis(k, allowed) ELSE CheckMemory(p, k, allowed)
  /\ UNCHANGED redis

\* One unit of time passes.
Pass(old) == IF old.left <= 1 THEN Empty ELSE [old EXCEPT !.left = @ - 1]

TimePasses ==
  /\ bucket' = [b \in Backends |-> [k \in Keys |-> Pass(bucket[b][k])]]
  /\ recent' = [b \in Backends |-> [k \in Keys |-> Older(recent[b][k])]]
  /\ UNCHANGED redis

-----------------------------------------------------------------------------
Allow(p, k) == Check(p, k, TRUE)

Refuse(p, k) == Check(p, k, FALSE)

LimiterNext == \/ \E p \in Processes, k \in Keys : Allow(p, k) \/ Refuse(p, k)
               \/ TimePasses

\* The client of key k keeps calling process p, and Redis does not fail it for ever.
Retries(p, k) == WF_limiterVars(Refuse(p, k)) /\ SF_limiterVars(Allow(p, k))

LimiterSpec ==
  /\ LimiterInit /\ [][LimiterNext]_limiterVars
  /\ WF_limiterVars(TimePasses)
  /\ \A p \in Processes, k \in Keys : Retries(p, k)

-----------------------------------------------------------------------------
(* Properties.                                                               *)

\* Whatever the moment a window starts, and with every process that shares Redis,
\* a span of one window admits fewer than two full windows of calls: the end of one,
\* without the call that opened it, and the beginning of the next.
BurstBound == \A b \in Backends, k \in Keys : Cardinality(recent[b][k]) < 2 * Limit

\* A client that keeps calling is admitted again and again: refused calls count, and
\* must not keep its window open.
AdmittedAgain ==
  \A k \in Keys :
    []<>(\E b \in Backends : Newest(recent[b][k]) # {})
=============================================================================
