---------------------------- MODULE SessionPool ----------------------------
(***************************************************************************)
(* The MCP session pool of core/resilience/session_pool.py for one agent,  *)
(* with the retry helper (core/resilience/retry.py) and the circuit        *)
(* breaker every call goes through.                                        *)
(*                                                                         *)
(* A call runs attempts one after another, each in an asyncio task of its  *)
(* own.  When the per-attempt timer expires the task is cancelled and,     *)
(* after a grace period, abandoned: an MCP read may swallow the            *)
(* cancellation, so an abandoned attempt goes on, beside the later         *)
(* attempts of its call and beside other calls.  One step runs from one    *)
(* await to the next; the critical sections under _cond contain no await   *)
(* and are one step each.                                                  *)
(*                                                                         *)
(* Abstractions.  _idle is a set: which idle session is taken and the      *)
(* wake-up order of waiters are left open (no session is ever put in       *)
(* twice, see SessionExclusive).  Session identities are reused once       *)
(* nothing refers to them.  Call statistics, tracing and metrics are left  *)
(* out, and so is the parsing of a result: a tool error is raised after    *)
(* the breaker has recorded success.                                       *)
(***************************************************************************)
EXTENDS CircuitBreaker, FiniteSets

CONSTANTS Sessions,     \* session identities
          NoSession,
          MaxSize,      \* max_sessions_per_agent
          RetryCount,   \* per call: its extra attempts
          OuterTimed,   \* the calls whose caller has a timer of its own around them
          MayClose      \* bound: is the pool ever closed?

ASSUME PoolAssumption == /\ MaxSize \in Nat \ {0}
                         /\ RetryCount \in [Calls -> Nat]
                         /\ OuterTimed \subseteq Calls
                         /\ MayClose \in BOOLEAN
                         /\ NoSession \notin Sessions
                         /\ IsFiniteSet(Sessions) /\ IsFiniteSet(Calls)

VARIABLES idle,        \* bucket: _idle
          live,        \* bucket: _live
          size,        \* bucket: _size
          calls,       \* the frame of call() per caller
          attempts,    \* the tasks await_with_timeout_retry created
          discards,    \* sessions whose detached drop has not run yet
          poolClosed,  \* pool: _closed
          hasBucket,   \* the agent has an entry in pool._buckets
          drifted      \* history: an event has happened that breaks the accounting

bucketVars == <<idle, live, size>>
poolVars == <<idle, live, size, calls, attempts, discards, poolClosed, hasBucket, drifted>>
vars == <<breakerVars, poolVars>>

Attempts == UNION {{c} \X (0 .. RetryCount[c]) : c \in Calls}

\* held is in_flight, the sessions to reclaim when the call fails.
Call == [pc : {"ready", "await", "grace"}, try : Nat, held : SUBSET Sessions]
Ready == [pc |-> "ready", try |-> 0, held |-> {}]

Outcome == {"ok", "transient", "other"}
\* reused: on an idle session, so that a failure is retried once; retried: it was;
\* orphan: the bucket it works on was closed under it; cancelled: its task was
\* cancelled at the await where it is.
Attempt == [pc : {"none", "spawned", "acquire", "open", "invoke", "drop", "close"} \cup Outcome,
            session : Sessions \cup {NoSession},
            reused : BOOLEAN, retried : BOOLEAN, orphan : BOOLEAN, cancelled : BOOLEAN]
NoAttempt == [pc |-> "none", session |-> NoSession,
              reused |-> FALSE, retried |-> FALSE, orphan |-> FALSE, cancelled |-> FALSE]

TypeOK == /\ BreakerTypeOK
          /\ idle \subseteq Sessions
          /\ live \subseteq Sessions
          /\ size \in 0 .. MaxSize
          /\ calls \in [Calls -> Call]
          /\ \A c \in Calls : calls[c].try <= RetryCount[c]
          /\ attempts \in [Attempts -> Attempt]
          /\ discards \subseteq Sessions
          /\ poolClosed \in BOOLEAN
          /\ hasBucket \in BOOLEAN
          /\ drifted \in BOOLEAN

Init == /\ BreakerInit
        /\ idle = {}
        /\ live = {}
        /\ size = 0
        /\ calls = [c \in Calls |-> Ready]
        /\ attempts = [t \in Attempts |-> NoAttempt]
        /\ discards = {}
        /\ poolClosed = FALSE
        /\ hasBucket = FALSE
        /\ drifted = FALSE

-----------------------------------------------------------------------------
Active(c) == calls[c].pc # "ready"
Current(c) == <<c, calls[c].try>>
Awaited(t) == calls[t[1]].pc = "await" /\ t = Current(t[1])
Finished(t) == attempts[t].pc \in Outcome
Unfinished(t) == ~Finished(t) /\ attempts[t].pc # "none"

\* An idle session, one in use, one to be reclaimed: still referred to.
Referenced == idle \cup live \cup discards \cup {attempts[t].session : t \in Attempts}
                \cup (UNION {calls[c].held : c \in Calls})

\* max(0, size - n)
Dec(n) == IF size < n THEN 0 ELSE size - n

\* The attempt goes on to its next await; a cancellation it swallowed is gone.
Goto(t, pc, session) == [attempts[t] EXCEPT !.pc = pc, !.session = session, !.cancelled = FALSE]

\* The result of an attempt nobody awaits any more is lost with the task.
EndedAs(t, outcome) == IF Awaited(t) THEN [NoAttempt EXCEPT !.pc = outcome] ELSE NoAttempt

\* in_flight.append and _untrack; the list of a call that has ended is garbage.
Track(t, s) == calls' = [calls EXCEPT ![t[1]].held = IF Active(t[1]) THEN @ \cup {s} ELSE @]
\* (mutant) a session given back stays in in_flight
UntrackNothing(t, s) == UNCHANGED calls
Untrack(t, s) == calls' = [calls EXCEPT ![t[1]].held = @ \ {s}]

\* The critical section of drop: the slot is given back whether or not the
\* session still had one.
DropFromBucket(s) == /\ live' = live \ {s}
                     /\ idle' = idle \ {s}
                     /\ size' = Dec(1)
                     /\ drifted' = (drifted \/ s \notin live)

-----------------------------------------------------------------------------
(* One attempt: _call_with_session.                                         *)

\* Steps of an attempt whose bucket is (still) the pool's; the first one
\* creates the bucket when there is none.
OnBucket(t) == ~attempts[t].orphan /\ hasBucket' = TRUE

\* acquire on a closed bucket.
AcquireClosed(t) ==
    /\ attempts[t].pc = "acquire" /\ attempts[t].orphan
    /\ attempts' = [attempts EXCEPT ![t] = EndedAs(t, "transient")]
    /\ UNCHANGED <<breakerVars, bucketVars, calls, discards, poolClosed, hasBucket, drifted>>

\* (mutant) the queue is peeked, not popped
TakeIdleShared(t, s) ==
    /\ attempts[t].pc \in {"spawned", "acquire"}
    /\ OnBucket(t)
    /\ s \in idle
    /\ attempts' = [attempts EXCEPT ![t] = [Goto(t, "invoke", s) EXCEPT !.reused = ~attempts[t].retried]]
    /\ Track(t, s)
    /\ UNCHANGED <<breakerVars, bucketVars, discards, poolClosed, drifted>>

TakeIdle(t, s) ==
    /\ attempts[t].pc \in {"spawned", "acquire"}
    /\ OnBucket(t)
    /\ s \in idle
    /\ idle' = idle \ {s}
    /\ attempts' = [attempts EXCEPT ![t] = [Goto(t, "invoke", s) EXCEPT !.reused = ~attempts[t].retried]]
    /\ Track(t, s)
    /\ UNCHANGED <<breakerVars, live, size, discards, poolClosed, drifted>>

\* (mutant) the bound is off by one
ReserveSlotPastBound(t) ==
    /\ attempts[t].pc \in {"spawned", "acquire"}
    /\ OnBucket(t)
    /\ idle = {} /\ size <= MaxSize
    /\ size' = size + 1
    /\ attempts' = [attempts EXCEPT ![t] = Goto(t, "open", NoSession)]
    /\ UNCHANGED <<breakerVars, idle, live, calls, discards, poolClosed, drifted>>

ReserveSlot(t) ==
    /\ attempts[t].pc \in {"spawned", "acquire"}
    /\ OnBucket(t)
    /\ idle = {} /\ size < MaxSize
    /\ size' = size + 1
    /\ attempts' = [attempts EXCEPT ![t] = Goto(t, "open", NoSession)]
    /\ UNCHANGED <<breakerVars, idle, live, calls, discards, poolClosed, drifted>>

\* No session and no slot: wait on the condition for at most timeout_s.
Wait(t) ==
    /\ attempts[t].pc = "spawned"
    /\ OnBucket(t)
    /\ idle = {} /\ size >= MaxSize
    /\ attempts' = [attempts EXCEPT ![t] = Goto(t, "acquire", NoSession)]
    /\ UNCHANGED <<breakerVars, bucketVars, calls, discards, poolClosed, drifted>>

\* The deadline passed; the state is looked at once more before giving up.
Exhausted(t) ==
    /\ attempts[t].pc = "acquire"
    /\ OnBucket(t)
    /\ idle = {} /\ size >= MaxSize
    /\ attempts' = [attempts EXCEPT ![t] = EndedAs(t, "transient")]
    /\ UNCHANGED <<breakerVars, bucketVars, calls, discards, poolClosed, drifted>>

\* The opener returned.  A bucket closed meanwhile gets the session closed.
OpenSucceeds(t) ==
    /\ attempts[t].pc = "open" /\ ~attempts[t].orphan
    /\ Sessions \ Referenced # {}
    /\ LET s == CHOOSE x \in Sessions \ Referenced : TRUE
       IN /\ live' = live \cup {s}
          /\ attempts' = [attempts EXCEPT ![t] = Goto(t, "invoke", s)]
          /\ Track(t, s)
    /\ UNCHANGED <<breakerVars, idle, size, discards, poolClosed, hasBucket, drifted>>

OpenSucceedsClosed(t) ==
    /\ attempts[t].pc = "open" /\ attempts[t].orphan
    /\ attempts' = [attempts EXCEPT ![t] = EndedAs(t, "transient")]
    /\ UNCHANGED <<breakerVars, bucketVars, calls, discards, poolClosed, hasBucket, drifted>>

\* (mutant) the slot reserved for the session is not given back
OpenFailsKeepingSlot(t) ==
    /\ attempts[t].pc = "open"
    /\ \E kind \in {"transient", "other"} :
          attempts' = [attempts EXCEPT ![t] = EndedAs(t, kind)]
    /\ UNCHANGED <<breakerVars, bucketVars, calls, discards, poolClosed, hasBucket, drifted>>

OpenFails(t) ==
    /\ attempts[t].pc = "open"
    /\ size' = IF attempts[t].orphan THEN size ELSE Dec(1)
    /\ \E kind \in {"transient", "other"} :
          attempts' = [attempts EXCEPT ![t] = EndedAs(t, kind)]
    /\ UNCHANGED <<breakerVars, idle, live, calls, discards, poolClosed, hasBucket, drifted>>

\* The tool answered: release and untrack in one step.
ToolReturns(t) ==
    /\ attempts[t].pc = "invoke" /\ ~attempts[t].orphan
    /\ LET s == attempts[t].session
       IN /\ idle' = idle \cup {s}
          /\ Untrack(t, s)
          /\ drifted' = (drifted \/ s \notin live \ discards)
    /\ attempts' = [attempts EXCEPT ![t] = EndedAs(t, "ok")]
    /\ UNCHANGED <<breakerVars, live, size, discards, poolClosed, hasBucket>>

\* release on a closed bucket closes the session before untracking it.
ToolReturnsClosed(t) ==
    /\ attempts[t].pc = "invoke" /\ attempts[t].orphan
    /\ attempts' = [attempts EXCEPT ![t] = Goto(t, "close", attempts[t].session)]
    /\ UNCHANGED <<breakerVars, bucketVars, calls, discards, poolClosed, hasBucket, drifted>>

ReleaseCloses(t) ==
    /\ attempts[t].pc = "close"
    /\ Untrack(t, attempts[t].session)
    /\ attempts' = [attempts EXCEPT ![t] = EndedAs(t, "ok")]
    /\ UNCHANGED <<breakerVars, bucketVars, discards, poolClosed, hasBucket, drifted>>

\* The tool call raised: drop, then await the closing of the session.
ToolRaises(t) ==
    /\ attempts[t].pc = "invoke"
    /\ IF attempts[t].orphan THEN UNCHANGED <<bucketVars, drifted>>
                             ELSE DropFromBucket(attempts[t].session)
    /\ attempts' = [attempts EXCEPT ![t] = Goto(t, "drop", attempts[t].session)]
    /\ UNCHANGED <<breakerVars, calls, discards, poolClosed, hasBucket>>

\* The dropped session is closed.  A session from the idle queue was stale:
\* purge that queue and acquire once more; otherwise the exception goes up.
DropCloses(t) ==
    /\ attempts[t].pc = "drop"
    /\ Untrack(t, attempts[t].session)
    /\ IF attempts[t].reused
         THEN /\ attempts' = [attempts EXCEPT ![t] = [Goto(t, "acquire", NoSession)
                                    EXCEPT !.reused = FALSE, !.retried = TRUE]]
              /\ IF attempts[t].orphan
                   THEN UNCHANGED bucketVars
                   ELSE /\ live' = live \ idle
                        /\ idle' = {}
                        /\ size' = Dec(Cardinality(idle))
         ELSE /\ \E kind \in {"transient", "other"} :
                    attempts' = [attempts EXCEPT ![t] = EndedAs(t, kind)]
              /\ UNCHANGED bucketVars
    /\ UNCHANGED <<breakerVars, discards, poolClosed, hasBucket, drifted>>

\* CancelledError ends the attempt at its await: the cancellation of _abandon,
\* or a cancel scope of the session it uses unwinding (the opener turns such a
\* scope's cancellation into a ConnectionError).  Neither the handler around the
\* opener nor the one around the tool call catches it.
Cancelled(t) ==
    /\ \/ Unfinished(t) /\ attempts[t].cancelled
       \/ attempts[t].pc = "invoke"
    /\ drifted' = \/ drifted
                  \/ /\ ~attempts[t].orphan
                     /\ \/ attempts[t].pc = "open"
                        \/ attempts[t].session \in live \ (calls[t[1]].held \cup discards)
    /\ attempts' = [attempts EXCEPT ![t] = EndedAs(t, "transient")]
    /\ UNCHANGED <<breakerVars, bucketVars, calls, discards, poolClosed, hasBucket>>

-----------------------------------------------------------------------------
(* The caller: AgentSessionPool.call and await_with_timeout_retry.          *)

\* (mutant) the guard is forgotten
CallToolUnguarded(c) ==
    /\ ~poolClosed
    /\ \A t \in Attempts : t[1] = c => attempts[t].pc = "none"
    /\ running' = running \cup {c}
    /\ UNCHANGED <<state, failures, elapsed>>
    /\ calls' = [calls EXCEPT ![c] = [Ready EXCEPT !.pc = "await"]]
    /\ attempts' = [attempts EXCEPT ![<<c, 0>>] = [NoAttempt EXCEPT !.pc = "spawned"]]
    /\ UNCHANGED <<bucketVars, discards, poolClosed, hasBucket, drifted>>

CallTool(c) ==
    /\ ~poolClosed
    /\ \A t \in Attempts : t[1] = c => attempts[t].pc = "none"
    /\ Admit(c)
    /\ calls' = [calls EXCEPT ![c] = [Ready EXCEPT !.pc = "await"]]
    /\ attempts' = [attempts EXCEPT ![<<c, 0>>] = [NoAttempt EXCEPT !.pc = "spawned"]]
    /\ UNCHANGED <<bucketVars, discards, poolClosed, hasBucket, drifted>>

\* Retry: the loop goes round with a new task.  `forgotten' clears the old one.
NextAttempt(c, forgotten) ==
    /\ calls[c].try < RetryCount[c]
    /\ calls' = [calls EXCEPT ![c].pc = "await", ![c].try = @ + 1]
    /\ attempts' = [forgotten EXCEPT ![<<c, calls[c].try + 1>>] = [NoAttempt EXCEPT !.pc = "spawned"]]
    /\ UNCHANGED <<breakerVars, bucketVars, discards, poolClosed, hasBucket, drifted>>

\* The last attempt failed: the breaker counts it and every session still in
\* flight is discarded, on whatever bucket the agent has by now.
RaiseUnavailable(c, forgotten) ==
    /\ calls[c].try = RetryCount[c]
    /\ Fail(c)
    /\ discards' = IF hasBucket THEN discards \cup calls[c].held ELSE discards
    /\ calls' = [calls EXCEPT ![c] = Ready]
    /\ attempts' = forgotten
    /\ UNCHANGED <<bucketVars, poolClosed, hasBucket, drifted>>

\* Leaving call() in a way that discards nothing.
LeaveCall(c, forgotten) ==
    /\ calls' = [calls EXCEPT ![c] = Ready]
    /\ attempts' = forgotten
    /\ drifted' = (drifted \/ calls[c].held # {})
    /\ UNCHANGED <<bucketVars, discards, poolClosed, hasBucket>>

\* asyncio.wait returned with the task done: its result decides.
ReadResult(c) ==
    /\ calls[c].pc = "await" /\ Finished(Current(c))
    /\ LET forgotten == [attempts EXCEPT ![Current(c)] = NoAttempt]
       IN \/ /\ attempts[Current(c)].pc = "ok"
             /\ Succeed(c)
             /\ LeaveCall(c, forgotten)
          \/ /\ attempts[Current(c)].pc = "transient"
             /\ NextAttempt(c, forgotten) \/ RaiseUnavailable(c, forgotten)
          \/ /\ attempts[Current(c)].pc = "other"
             /\ Escape(c)
             /\ LeaveCall(c, forgotten)

\* The per-attempt timer: _abandon cancels the task and waits a moment.
TimerExpires(c) ==
    /\ calls[c].pc = "await" /\ ~Finished(Current(c))
    /\ calls' = [calls EXCEPT ![c].pc = "grace"]
    /\ attempts' = [attempts EXCEPT ![Current(c)].cancelled = TRUE]
    /\ UNCHANGED <<breakerVars, bucketVars, discards, poolClosed, hasBucket, drifted>>

\* (mutant) asyncio.wait_for: the timeout waits for the task to end
GraceEndsWithTask(c) ==
    /\ calls[c].pc = "grace" /\ attempts[Current(c)].pc = "none"
    /\ NextAttempt(c, attempts) \/ RaiseUnavailable(c, attempts)

\* The grace period is over, with or without the task: TimeoutError.
GraceEnds(c) ==
    /\ calls[c].pc = "grace"
    /\ NextAttempt(c, attempts) \/ RaiseUnavailable(c, attempts)

\* The caller's own task is cancelled by a timer around call().  The attempt's
\* task is not: asyncio.wait leaves what it waits for alone.
CallerCancelled(c) ==
    /\ c \in OuterTimed
    /\ Active(c)
    /\ Escape(c)
    /\ LET forgotten == IF Finished(Current(c))
                          THEN [attempts EXCEPT ![Current(c)] = NoAttempt] ELSE attempts
       IN LeaveCall(c, forgotten)

\* discard_nowait's detached drop.
DiscardRuns(s) ==
    /\ s \in discards
    /\ DropFromBucket(s)
    /\ discards' = discards \ {s}
    /\ UNCHANGED <<breakerVars, calls, attempts, poolClosed, hasBucket>>

\* aclose: the bucket is forgotten and emptied.  Attempts and detached drops
\* that work on it are left with a closed bucket of size 0.
ClosePool ==
    /\ MayClose
    /\ ~poolClosed
    /\ poolClosed' = TRUE
    /\ hasBucket' = FALSE
    /\ idle' = {} /\ live' = {} /\ size' = 0
    /\ discards' = {}
    /\ attempts' = [t \in Attempts |->
                      IF Unfinished(t) /\ attempts[t].pc # "spawned"
                        THEN [attempts[t] EXCEPT !.orphan = TRUE] ELSE attempts[t]]
    /\ UNCHANGED <<breakerVars, calls, drifted>>

BreakerClock == (Snapshot \/ Tick) /\ UNCHANGED poolVars

-----------------------------------------------------------------------------
AttemptStep(t) ==
    \/ AcquireClosed(t) \/ ReserveSlot(t) \/ Wait(t) \/ Exhausted(t)
    \/ \E s \in Sessions : TakeIdle(t, s)
    \/ OpenSucceeds(t) \/ OpenSucceedsClosed(t) \/ OpenFails(t)
    \/ ToolReturns(t) \/ ToolReturnsClosed(t) \/ ReleaseCloses(t)
    \/ ToolRaises(t) \/ DropCloses(t) \/ Cancelled(t)

CallStep(c) == ReadResult(c) \/ TimerExpires(c) \/ GraceEnds(c)

Next == \/ \E c \in Calls : CallTool(c) \/ CallStep(c) \/ CallerCancelled(c)
        \/ \E t \in Attempts : AttemptStep(t)
        \/ \E s \in Sessions : DiscardRuns(s)
        \/ ClosePool
        \/ BreakerClock

\* A tool may hang for ever, so attempts are not fair.  The event loop runs
\* the callers' timers and time passes.
Fairness == /\ \A c \in Calls : WF_vars(CallStep(c))
            /\ WF_vars(Tick /\ UNCHANGED poolVars)

Spec == Init /\ [][Next]_vars /\ Fairness

-----------------------------------------------------------------------------
(* A session serves one attempt at a time and is never handed out while it  *)
(* is in use, whatever timers, cancellations, late answers of abandoned     *)
(* attempts and shutdowns do.  (MCP sessions are not multiplexed.)          *)
SessionExclusive ==
    /\ \A t, u \in Attempts :
          t # u /\ attempts[t].session # NoSession => attempts[t].session # attempts[u].session
    /\ \A t \in Attempts : attempts[t].session \notin idle

Opening == {t \in Attempts : attempts[t].pc = "open" /\ ~attempts[t].orphan}
InUse == {attempts[t].session : t \in {u \in Attempts : attempts[u].pc = "invoke"}}
InFlight == UNION {calls[c].held : c \in Calls}

(* The counter behind the pool bound is the number of live and opening      *)
(* sessions, and every live session is idle, in use or about to be          *)
(* reclaimed, unless one of the events in `drifted' has happened: an opener  *)
(* cancelled, a slot given back twice, a session released after its slot    *)
(* was reclaimed, a session left behind by a call that did not fail.        *)
SlotAccounting ==
    ~drifted => /\ size = Cardinality(live) + Cardinality(Opening)
                   /\ idle \subseteq live
                   /\ live \subseteq idle \cup InUse \cup InFlight \cup discards

(* Without such an event the pool never closes a session under a caller     *)
(* that still waits for its answer.                                         *)
NotClosedInUse ==
    ~drifted => \A t \in Attempts :
       Awaited(t) /\ attempts[t].pc = "invoke" /\ ~attempts[t].orphan
          => attempts[t].session \in live

(* Every call answers: with a result, an error, or by failing fast.         *)
CallsAnswer == \A c \in Calls : Active(c) ~> ~Active(c)

(* The calls of the pool use the breaker as the breaker's own module says.  *)
BreakerUsed == BreakerSpec
=============================================================================
