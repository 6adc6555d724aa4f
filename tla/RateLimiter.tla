---------------------------- MODULE RateLimiter ----------------------------
(***************************************************************************)
(* SlidingWindowRateLimiter of core/gateway.py: per key, the times of the  *)
(* requests it admitted, oldest first.  A request drops the times that     *)
(* have left the window, and is admitted, and recorded, when fewer than    *)
(* MaxRequests are left.  Time is counted in ticks.                        *)
(***************************************************************************)
EXTENDS Integers, Sequences, FiniteSets

CONSTANTS ClientKeys,    \* API keys, or peer addresses of clients without one
          MaxRequests,   \* rate_limit_requests; 0 or less: no limit
          Window         \* rate_limit_window_s

LimiterAssumption == MaxRequests \in Int /\ Window \in Nat

VARIABLE hits
limiterVars == <<hits>>

LimiterInit == hits = [k \in ClientKeys |-> <<>>]

\* (mutant) A time exactly one window ago still counts.
RecentTooLong(bucket, time) == SelectSeq(bucket, LAMBDA t : t >= time - Window)

\* The deque after its loop, which stops at the first time inside the window.
Recent(bucket, time) ==
    LET left == {i \in DOMAIN bucket : \A j \in 1 .. i : bucket[j] <= time - Window}
    IN  SubSeq(bucket, Cardinality(left) + 1, Len(bucket))

Admits(key, time) == MaxRequests <= 0 \/ Len(Recent(hits[key], time)) < MaxRequests

Allow(key, time) ==
    /\ Admits(key, time)
    /\ hits' = IF MaxRequests <= 0 THEN hits
               ELSE [hits EXCEPT ![key] = Append(Recent(@, time), time)]

Refuse(key, time) ==
    /\ ~Admits(key, time)
    /\ hits' = [hits EXCEPT ![key] = Recent(@, time)]
=============================================================================
