--------------------------- MODULE CircuitBreaker ---------------------------
(***************************************************************************)
(* The per-agent circuit breaker of core/resilience/circuit_breaker.py.    *)
(*                                                                         *)
(* One breaker is shared by every call an MCP pool makes to one agent.     *)
(* Calls overlap: the guard runs when a call enters CircuitBreaker.run,    *)
(* the outcome is recorded when it leaves, and other calls enter and leave *)
(* in between.  `running' is the set of calls between the two.             *)
(*                                                                         *)
(* Abstractions.  The monotonic clock and _opened_at appear only as the    *)
(* time since the last trip, which the code compares with the cooldown;    *)
(* it stops at Cooldown.  The failure counter is only compared with the    *)
(* threshold, so it stops there as well.                                   *)
(***************************************************************************)
EXTENDS Naturals

CONSTANTS Calls,             \* callers of this agent
          FailureThreshold,  \* consecutive failures that trip the breaker
          Cooldown           \* ticks the breaker stays open before it probes

\* __init__ clamps the threshold to at least one and the cooldown to at least 0.
ASSUME BreakerAssumption == /\ FailureThreshold \in Nat \ {0}
                            /\ Cooldown \in Nat

VARIABLES state,     \* _state
          failures,  \* _consecutive_failures
          elapsed,   \* clock() - _opened_at while open, else 0
          running    \* the calls inside run()

breakerVars == <<state, failures, elapsed, running>>

BreakerState == {"closed", "open", "half_open"}

BreakerTypeOK == /\ state \in BreakerState
                 /\ failures \in 0 .. FailureThreshold
                 /\ elapsed \in 0 .. Cooldown
                 /\ running \subseteq Calls

BreakerInit == /\ state = "closed"
               /\ failures = 0
               /\ elapsed = 0
               /\ running = {}

-----------------------------------------------------------------------------
\* (mutant) guard reads the state as it stands
AdmittingStale == state # "open"

\* guard() lets a call through in every state but an open one that still cools.
Admitting == state = "open" => elapsed >= Cooldown

\* _maybe_half_open: reading the state after the cooldown moves it to half-open.
MaybeHalfOpen == /\ state' = IF state = "open" /\ elapsed >= Cooldown
                               THEN "half_open" ELSE state
                 /\ elapsed' = IF state = "open" /\ elapsed >= Cooldown
                                 THEN 0 ELSE elapsed
                 /\ UNCHANGED failures

\* _trip: open, and start the cooldown again even when already open.
Trip == state' = "open" /\ elapsed' = 0

\* (mutant) the counter survives a success
RecordSuccessCounting == /\ state' = "closed"
                         /\ elapsed' = 0
                         /\ UNCHANGED failures

RecordSuccess == /\ state' = "closed"
                 /\ failures' = 0
                 /\ elapsed' = 0

\* A probe that fails trips at once; otherwise the failure is counted first.
RecordFailure ==
    \/ /\ state = "half_open"
       /\ Trip
       /\ UNCHANGED failures
    \/ /\ state # "half_open"
       /\ failures + 1 >= FailureThreshold
       /\ Trip
       /\ failures' = FailureThreshold
    \/ /\ state # "half_open"
       /\ failures + 1 < FailureThreshold
       /\ failures' = failures + 1
       /\ UNCHANGED <<state, elapsed>>

-----------------------------------------------------------------------------
\* run(): the guard, evaluated when the call enters.
Admit(c) == /\ c \notin running
            /\ Admitting
            /\ MaybeHalfOpen
            /\ running' = running \cup {c}

\* run(): the factory returned.
Succeed(c) == /\ c \in running
              /\ RecordSuccess
              /\ running' = running \ {c}

\* run(): the factory raised one of _FAILURE_TYPES.
Fail(c) == /\ c \in running
           /\ RecordFailure
           /\ running' = running \ {c}

\* run(): any other exception, or the cancellation of the caller, is not counted.
Escape(c) == /\ c \in running
             /\ running' = running \ {c}
             /\ UNCHANGED <<state, failures, elapsed>>

\* snapshot(), called by health checks: reads the state, which may half-open it.
Snapshot == /\ state = "open" /\ elapsed >= Cooldown
            /\ MaybeHalfOpen
            /\ UNCHANGED running

\* Time passes; nothing but an open breaker looks at it.
Tick == /\ state = "open"
        /\ elapsed < Cooldown
        /\ elapsed' = elapsed + 1
        /\ UNCHANGED <<state, failures, running>>

BreakerNext == \/ \E c \in Calls : Admit(c) \/ Succeed(c) \/ Fail(c) \/ Escape(c)
               \/ Snapshot
               \/ Tick

\* What the breaker promises on its own; SessionPool is checked against it.
BreakerSpec == BreakerInit /\ [][BreakerNext]_breakerVars

-----------------------------------------------------------------------------
(* The breaker refuses and probes exactly while its counter stands at the   *)
(* threshold: no interleaving of late successes, late failures and probes   *)
(* leaves it closed with a full counter or open with a partial one.         *)
TrippedIffAtThreshold == state # "closed" <=> failures = FailureThreshold

(* Failing fast is never permanent: late failures restart the cooldown, but *)
(* only calls admitted before the trip can do so, hence it ends.            *)
FailFastEnds == []<>Admitting
=============================================================================
