------------------------- MODULE SessionPoolProofs -------------------------
(***************************************************************************)
(* What holds of the circuit breaker for every threshold, cooldown and set *)
(* of calls, and of the session pool for every number of calls, retries,   *)
(* sessions and slots, with and without outer timers and shutdown.         *)
(*                                                                         *)
(*   0. The breaker on its own.                                            *)
(*   1. The pool uses the breaker as CircuitBreaker specifies, so what is  *)
(*      proved of the breaker holds in the pool.                           *)
(*   2. Types, with the session an attempt in progress holds.              *)
(*   3. A session serves one attempt at a time.                            *)
(*   4. The slot counter counts the live sessions and the opening ones, no *)
(*      live session is lost, and none is closed under a waiting caller.   *)
(***************************************************************************)
EXTENDS SessionPool, FiniteSetTheorems, TLAPS

-----------------------------------------------------------------------------
(* 0. The breaker on its own.                                               *)

BreakerInv == BreakerTypeOK /\ TrippedIffAtThreshold

(* The two facts about run()'s bookkeeping that every step uses: whatever    *)
(* the state, recording an outcome keeps the types and the agreement between *)
(* the state and the counter (record_success and record_failure).            *)
LEMMA RecordSuccessKeeps ==
  ASSUME BreakerInv, RecordSuccess
  PROVE  /\ state' \in BreakerState /\ failures' \in 0 .. FailureThreshold
         /\ elapsed' \in 0 .. Cooldown
         /\ state' # "closed" <=> failures' = FailureThreshold
BY BreakerAssumption DEF RecordSuccess, BreakerState

LEMMA RecordFailureKeeps ==
  ASSUME BreakerInv, RecordFailure
  PROVE  /\ state' \in BreakerState /\ failures' \in 0 .. FailureThreshold
         /\ elapsed' \in 0 .. Cooldown
         /\ state' # "closed" <=> failures' = FailureThreshold
<1> USE BreakerAssumption DEF BreakerInv, BreakerTypeOK, BreakerState, TrippedIffAtThreshold
<1>1. CASE state = "half_open"
  BY <1>1 DEF RecordFailure, Trip
<1>2. CASE state # "half_open" /\ failures + 1 >= FailureThreshold
  BY <1>2 DEF RecordFailure, Trip
<1>3. CASE state # "half_open" /\ failures + 1 < FailureThreshold
  BY <1>3 DEF RecordFailure
<1>4. QED
  BY <1>1, <1>2, <1>3

LEMMA BreakerInvInit == BreakerInit => BreakerInv
BY BreakerAssumption
   DEF BreakerInit, BreakerInv, BreakerTypeOK, BreakerState, TrippedIffAtThreshold

LEMMA BreakerInvNext == BreakerInv /\ [BreakerNext]_breakerVars => BreakerInv'
<1> SUFFICES ASSUME BreakerInv, [BreakerNext]_breakerVars
             PROVE  BreakerInv'
  OBVIOUS
<1> USE BreakerAssumption DEF BreakerInv, BreakerTypeOK, TrippedIffAtThreshold
<1>1. ASSUME NEW c \in Calls, Admit(c)
      PROVE  BreakerInv'
  BY <1>1 DEF Admit, Admitting, MaybeHalfOpen, BreakerState
<1>2. ASSUME NEW c \in Calls, Succeed(c)
      PROVE  BreakerInv'
  BY <1>2, RecordSuccessKeeps DEF Succeed
<1>3. ASSUME NEW c \in Calls, Fail(c)
      PROVE  BreakerInv'
  BY <1>3, RecordFailureKeeps DEF Fail
<1>4. ASSUME NEW c \in Calls, Escape(c)
      PROVE  BreakerInv'
  BY <1>4 DEF Escape
<1>5. CASE Snapshot
  BY <1>5 DEF Snapshot, MaybeHalfOpen, BreakerState
<1>6. CASE Tick
  BY <1>6 DEF Tick
<1>7. CASE UNCHANGED breakerVars
  BY <1>7 DEF breakerVars
<1>8. QED
  BY <1>1, <1>2, <1>3, <1>4, <1>5, <1>6, <1>7 DEF BreakerNext

(* The breaker's variables stay in their types.                              *)
THEOREM BreakerTyped == BreakerSpec => []BreakerTypeOK
<1>1. BreakerInv => BreakerTypeOK
  BY DEF BreakerInv
<1>2. QED
  BY <1>1, BreakerInvInit, BreakerInvNext, PTL DEF BreakerSpec

(* CircuitBreaker refuses or probes exactly while its failure counter stands *)
(* at the threshold, for every threshold and any number of overlapping calls. *)
THEOREM BreakerTrippedIffAtThreshold == BreakerSpec => []TrippedIffAtThreshold
<1>1. BreakerInv => TrippedIffAtThreshold
  BY DEF BreakerInv
<1>2. QED
  BY <1>1, BreakerInvInit, BreakerInvNext, PTL DEF BreakerSpec

-----------------------------------------------------------------------------
(* 1. The breaker inside the pool.                                          *)

LEMMA PoolStepIsBreakerStep == [Next]_vars => [BreakerNext]_breakerVars
<1> SUFFICES ASSUME [Next]_vars PROVE [BreakerNext]_breakerVars
  OBVIOUS
<1>1. ASSUME NEW c \in Calls, CallTool(c)
      PROVE  BreakerNext
  BY <1>1 DEF CallTool, BreakerNext
<1>2. ASSUME NEW c \in Calls, CallStep(c)
      PROVE  [BreakerNext]_breakerVars
  <2>1. ASSUME NEW f, NextAttempt(c, f)
        PROVE  UNCHANGED breakerVars
    BY <2>1 DEF NextAttempt
  <2>2. ASSUME NEW f, RaiseUnavailable(c, f)
        PROVE  BreakerNext
    BY <2>2 DEF RaiseUnavailable, BreakerNext
  <2>3. CASE ReadResult(c)
    BY <2>1, <2>2, <2>3 DEF ReadResult, BreakerNext
  <2>4. CASE TimerExpires(c)
    BY <2>4 DEF TimerExpires
  <2>5. CASE GraceEnds(c)
    BY <2>1, <2>2, <2>5 DEF GraceEnds
  <2>6. QED
    BY <1>2, <2>3, <2>4, <2>5 DEF CallStep
<1>3. ASSUME NEW c \in Calls, CallerCancelled(c)
      PROVE  BreakerNext
  BY <1>3 DEF CallerCancelled, BreakerNext
<1>4. ASSUME NEW t \in Attempts, AttemptStep(t)
      PROVE  UNCHANGED breakerVars
  BY <1>4 DEF AttemptStep, AcquireClosed, TakeIdle, ReserveSlot, Wait, Exhausted,
              OpenSucceeds, OpenSucceedsClosed, OpenFails, ToolReturns, ToolReturnsClosed,
              ReleaseCloses, ToolRaises, DropCloses, Cancelled
<1>5. ASSUME NEW s \in Sessions, DiscardRuns(s)
      PROVE  UNCHANGED breakerVars
  BY <1>5 DEF DiscardRuns
<1>6. CASE ClosePool
  BY <1>6 DEF ClosePool
<1>7. CASE BreakerClock
  BY <1>7 DEF BreakerClock, BreakerNext
<1>8. CASE UNCHANGED vars
  BY <1>8 DEF vars
<1>9. QED
  BY <1>1, <1>2, <1>3, <1>4, <1>5, <1>6, <1>7, <1>8 DEF Next

(* Every behaviour of the pool is, on the breaker's variables, a behaviour   *)
(* of the breaker: call() never enters run() past an open guard and records  *)
(* every outcome it must.                                                    *)
THEOREM PoolImplementsBreaker == Spec => BreakerUsed
<1>1. Init => BreakerInit
  BY DEF Init
<1>2. QED
  BY <1>1, PoolStepIsBreakerStep, PTL DEF Spec, BreakerUsed, BreakerSpec

(* In the pool, too, the breaker trips exactly at the threshold.             *)
THEOREM PoolTrippedIffAtThreshold == Spec => []TrippedIffAtThreshold
BY PoolImplementsBreaker, BreakerTrippedIffAtThreshold, PTL DEF BreakerUsed

-----------------------------------------------------------------------------
(* 2. Types.                                                                *)

\* Where an attempt awaits with a session in hand.
HoldsSession == \A t \in Attempts :
                   attempts[t].pc \in {"invoke", "drop", "close"} => attempts[t].session \in Sessions

\* No session is in the hands of two attempts, or idle and in the hands of one.
OneHolder == \A t, u \in Attempts :
               t # u /\ attempts[t].session # NoSession => attempts[t].session # attempts[u].session
NotIdle == \A t \in Attempts : attempts[t].session \notin idle

\* Inductive together with the breaker's part, BreakerInv.
PoolInv == TypeOK /\ HoldsSession /\ OneHolder /\ NotIdle

LEMMA AttemptFacts ==
  /\ \A t \in Attempts : t[1] \in Calls
  /\ \A c \in Calls : \A i \in 0 .. RetryCount[c] : <<c, i>> \in Attempts
BY DEF Attempts

LEMMA RecordFacts ==
  /\ NoAttempt \in Attempt /\ Ready \in Call
  /\ \A a \in Attempt : a.session \in Sessions \cup {NoSession}
BY DEF NoAttempt, Attempt, Ready, Call

\* max(0, size - n) stays a size.
LEMMA DecTyped == ASSUME size \in 0 .. MaxSize, NEW n \in Nat
                  PROVE  Dec(n) \in 0 .. MaxSize
BY PoolAssumption DEF Dec

LEMMA IdleCount == ASSUME idle \subseteq Sessions PROVE Cardinality(idle) \in Nat
BY PoolAssumption, FS_Subset, FS_CardinalityType

\* The values an attempt moves to are attempts, and hold a session where they must.
LEMMA GotoTyped ==
  ASSUME TypeOK, NEW t \in Attempts,
         NEW pc \in {"acquire", "open", "invoke", "drop", "close"},
         NEW s \in Sessions \cup {NoSession}
  PROVE  /\ Goto(t, pc, s) \in Attempt
         /\ Goto(t, pc, s).pc = pc
         /\ Goto(t, pc, s).session = s
BY DEF Goto, TypeOK, Attempt

LEMMA EndedTyped ==
  ASSUME NEW t \in Attempts, NEW outcome \in Outcome
  PROVE  /\ EndedAs(t, outcome) \in Attempt
         /\ EndedAs(t, outcome).pc \in {"none"} \cup Outcome
         /\ EndedAs(t, outcome).session = NoSession
BY DEF EndedAs, NoAttempt, Attempt, Outcome


\* One attempt changes: what has to be shown of its new value.
LEMMA UpdateAttempt ==
  ASSUME TypeOK, HoldsSession, OneHolder,
         NEW t \in Attempts, NEW a \in Attempt,
         attempts' = [attempts EXCEPT ![t] = a],
         a.pc \in {"invoke", "drop", "close"} => a.session \in Sessions,
         a.session # NoSession => \A u \in Attempts : u # t => attempts[u].session # a.session
  PROVE  attempts' \in [Attempts -> Attempt] /\ HoldsSession' /\ OneHolder'
<1>1. /\ attempts' \in [Attempts -> Attempt]
      /\ \A u \in Attempts : attempts'[u] = IF u = t THEN a ELSE attempts[u]
  BY DEF TypeOK
<1>2. HoldsSession'
  BY <1>1 DEF HoldsSession
<1>3. OneHolder'
  BY <1>1 DEF OneHolder
<1>4. QED
  BY <1>1, <1>2, <1>3

\* in_flight changes at one call only, and only by one session.
LEMMA TrackTyped ==
  ASSUME TypeOK, NEW t \in Attempts, NEW s \in Sessions \cup {NoSession},
         (Track(t, s) /\ s \in Sessions) \/ Untrack(t, s)
  PROVE  calls' \in [Calls -> Call] /\ \A c \in Calls : calls'[c].try = calls[c].try
BY AttemptFacts DEF TypeOK, Track, Untrack, Call

\* drop's critical section.
LEMMA DropTyped ==
  ASSUME TypeOK, NEW s, DropFromBucket(s)
  PROVE  /\ idle' \subseteq idle /\ live' \subseteq live
         /\ size' \in 0 .. MaxSize /\ drifted' \in BOOLEAN
BY DecTyped DEF TypeOK, DropFromBucket

\* What is left of PoolInv' once the breaker's variables are dealt with.
PoolInvRest == /\ idle \subseteq Sessions /\ live \subseteq Sessions
               /\ size \in 0 .. MaxSize
               /\ calls \in [Calls -> Call]
               /\ \A c \in Calls : calls[c].try <= RetryCount[c]
               /\ attempts \in [Attempts -> Attempt]
               /\ discards \subseteq Sessions
               /\ poolClosed \in BOOLEAN /\ hasBucket \in BOOLEAN /\ drifted \in BOOLEAN
               /\ HoldsSession /\ OneHolder /\ NotIdle

LEMMA RestIsRest == PoolInv <=> BreakerTypeOK /\ PoolInvRest
BY DEF PoolInv, PoolInvRest, TypeOK

LEMMA PoolInvInit == Init => PoolInv
<1>1. \A t \in Attempts : [u \in Attempts |-> NoAttempt][t] = NoAttempt
  OBVIOUS
<1>2. 0 \in 0 .. MaxSize /\ \A c \in Calls : 0 <= RetryCount[c]
  BY PoolAssumption
<1>3. ASSUME Init PROVE PoolInv
  BY <1>1, <1>2, <1>3, BreakerInvInit, RecordFacts
     DEF Init, PoolInv, TypeOK, HoldsSession, OneHolder, NotIdle, BreakerInv, NoAttempt, Ready
<1>4. QED
  BY <1>3

\* The steps of one attempt.
LEMMA AttemptStepKeeps ==
  ASSUME PoolInv, NEW t \in Attempts, AttemptStep(t)
  PROVE  PoolInvRest'
<1> USE DEF PoolInv
<1>0. /\ t[1] \in Calls /\ attempts[t] \in Attempt
      /\ attempts[t].session \in Sessions \cup {NoSession}
  BY AttemptFacts, RecordFacts DEF TypeOK
<1>1. \A outcome \in Outcome : /\ EndedAs(t, outcome) \in Attempt
                              /\ EndedAs(t, outcome).pc \notin {"invoke", "drop", "close"}
                              /\ EndedAs(t, outcome).session = NoSession
  BY EndedTyped DEF Outcome
<1>2. NoSession \notin Sessions /\ \A u \in Attempts : attempts[u].session \notin idle
  BY PoolAssumption DEF NotIdle
\* An attempt that ends, with the idle sessions at most its own more.
<1>3. ASSUME NEW outcome \in Outcome,
             attempts' = [attempts EXCEPT ![t] = EndedAs(t, outcome)],
             idle' \subseteq idle \cup ({attempts[t].session} \ {NoSession})
      PROVE  attempts' \in [Attempts -> Attempt] /\ HoldsSession' /\ OneHolder' /\ NotIdle'
  <2>1. attempts' \in [Attempts -> Attempt] /\ HoldsSession' /\ OneHolder'
    BY <1>1, <1>3, UpdateAttempt
  <2>2. \A u \in Attempts : attempts'[u].session =
                            IF u = t THEN NoSession ELSE attempts[u].session
    BY <1>1, <1>3 DEF TypeOK
  <2>3. NotIdle'
    BY <1>2, <1>3, <2>2 DEF NotIdle, OneHolder, TypeOK
  <2>4. QED
    BY <2>1, <2>3
\* An attempt that goes on with the session it has, or without one.
<1>4. ASSUME NEW a \in Attempt, attempts' = [attempts EXCEPT ![t] = a],
             a.pc \in {"invoke", "drop", "close"} => a.session \in Sessions,
             a.session \in {attempts[t].session, NoSession},
             idle' \subseteq idle
      PROVE  attempts' \in [Attempts -> Attempt] /\ HoldsSession' /\ OneHolder' /\ NotIdle'
  <2>1. attempts' \in [Attempts -> Attempt] /\ HoldsSession' /\ OneHolder'
    BY <1>4, UpdateAttempt DEF OneHolder
  <2>2. \A u \in Attempts : attempts'[u].session \in {attempts[u].session, NoSession}
    BY <1>4 DEF TypeOK
  <2>3. NotIdle'
    BY <1>2, <1>4, <2>2 DEF NotIdle, TypeOK
  <2>4. QED
    BY <2>1, <2>3
<1>5. CASE AcquireClosed(t)
  BY <1>3, <1>5 DEF AcquireClosed, bucketVars, Outcome, TypeOK, PoolInvRest
<1>6. CASE ReserveSlot(t)
  <2>1. Goto(t, "open", NoSession) \in Attempt /\ Goto(t, "open", NoSession).pc = "open"
        /\ Goto(t, "open", NoSession).session = NoSession
    BY GotoTyped
  <2>2. size' \in 0 .. MaxSize
    BY <1>6, PoolAssumption DEF ReserveSlot, TypeOK
  <2>3. attempts' \in [Attempts -> Attempt] /\ HoldsSession' /\ OneHolder' /\ NotIdle'
    BY <1>4, <1>6, <2>1 DEF ReserveSlot
  <2>4. QED
    BY <1>6, <2>2, <2>3 DEF ReserveSlot, OnBucket, TypeOK, PoolInvRest
<1>7. CASE Wait(t)
  <2>1. Goto(t, "acquire", NoSession) \in Attempt /\ Goto(t, "acquire", NoSession).pc = "acquire"
        /\ Goto(t, "acquire", NoSession).session = NoSession
    BY GotoTyped
  <2>2. attempts' \in [Attempts -> Attempt] /\ HoldsSession' /\ OneHolder' /\ NotIdle'
    BY <1>4, <1>7, <2>1 DEF Wait, bucketVars
  <2>3. QED
    BY <1>7, <2>2 DEF Wait, OnBucket, bucketVars, TypeOK, PoolInvRest
<1>8. CASE Exhausted(t)
  BY <1>3, <1>8 DEF Exhausted, OnBucket, bucketVars, Outcome, TypeOK, PoolInvRest
<1>9. ASSUME NEW s \in Sessions, TakeIdle(t, s)
      PROVE  PoolInvRest'
  <2> DEFINE a == [Goto(t, "invoke", s) EXCEPT !.reused = ~attempts[t].retried]
  <2>1. a \in Attempt /\ a.pc = "invoke" /\ a.session = s
    <3>1. \A g \in Attempt, b \in BOOLEAN :
             LET x == [g EXCEPT !.reused = b]
             IN  x \in Attempt /\ x.pc = g.pc /\ x.session = g.session
      BY DEF Attempt
    <3>2. (~attempts[t].retried) \in BOOLEAN
      OBVIOUS
    <3>3. Goto(t, "invoke", s) \in Attempt /\ Goto(t, "invoke", s).pc = "invoke"
          /\ Goto(t, "invoke", s).session = s
      BY GotoTyped
    <3>4. QED
      BY <3>1, <3>2, <3>3, Zenon
  <2>2. \A u \in Attempts : attempts[u].session # s
    BY <1>2, <1>9 DEF TakeIdle
  <2>3. attempts' = [attempts EXCEPT ![t] = a]
    BY <1>9 DEF TakeIdle
  <2>4. attempts' \in [Attempts -> Attempt] /\ HoldsSession' /\ OneHolder'
    BY <2>1, <2>2, <2>3, UpdateAttempt
  <2>5. \A u \in Attempts : attempts'[u].session = IF u = t THEN s ELSE attempts[u].session
    BY <2>1, <2>3 DEF TypeOK
  <2>6. NotIdle'
    BY <1>2, <1>9, <2>5 DEF TakeIdle, NotIdle
  <2>7. calls' \in [Calls -> Call] /\ \A c \in Calls : calls'[c].try = calls[c].try
    BY <1>9, TrackTyped DEF TakeIdle
  <2>8. /\ idle' \subseteq Sessions /\ live' = live /\ size' = size /\ discards' = discards
        /\ poolClosed' = poolClosed /\ hasBucket' = TRUE /\ drifted' = drifted
    BY <1>9 DEF TakeIdle, OnBucket, TypeOK
  <2>9. QED
    BY <2>4, <2>6, <2>7, <2>8 DEF TypeOK, PoolInvRest
<1>10. CASE OpenSucceeds(t)
  <2> DEFINE s == CHOOSE x \in Sessions \ Referenced : TRUE
  <2>1. s \in Sessions /\ s \notin Referenced
    BY <1>10 DEF OpenSucceeds
  <2> HIDE DEF s
  <2>2. s \notin idle /\ \A u \in Attempts : attempts[u].session # s
    <3>1. \A u \in Attempts : attempts[u].session \in {attempts[v].session : v \in Attempts}
      OBVIOUS
    <3>2. /\ idle \subseteq Referenced
          /\ {attempts[v].session : v \in Attempts} \subseteq Referenced
      BY DEF Referenced
    <3>3. QED
      BY <2>1, <3>1, <3>2
  <2>3. /\ attempts' = [attempts EXCEPT ![t] = Goto(t, "invoke", s)]
        /\ live' = live \cup {s} /\ Track(t, s) /\ idle' = idle
    BY <1>10 DEF OpenSucceeds, s
  <2>4. /\ Goto(t, "invoke", s) \in Attempt /\ Goto(t, "invoke", s).pc = "invoke"
        /\ Goto(t, "invoke", s).session = s
    BY <2>1, GotoTyped
  <2>5. attempts' \in [Attempts -> Attempt] /\ HoldsSession' /\ OneHolder'
    BY <2>1, <2>2, <2>3, <2>4, UpdateAttempt
  <2>6. \A u \in Attempts : attempts'[u].session = IF u = t THEN s ELSE attempts[u].session
    BY <2>3, <2>4 DEF TypeOK
  <2>7. NotIdle'
    BY <1>2, <2>2, <2>3, <2>6 DEF NotIdle
  <2>8. calls' \in [Calls -> Call] /\ \A c \in Calls : calls'[c].try = calls[c].try
    BY <2>1, <2>3, TrackTyped
  <2>9. /\ size' = size /\ discards' = discards
        /\ poolClosed' = poolClosed /\ hasBucket' = hasBucket /\ drifted' = drifted
    BY <1>10 DEF OpenSucceeds
  <2>10. QED
    BY <2>1, <2>3, <2>5, <2>7, <2>8, <2>9 DEF TypeOK, PoolInvRest
<1>11. CASE OpenSucceedsClosed(t)
  BY <1>3, <1>11 DEF OpenSucceedsClosed, bucketVars, Outcome, TypeOK, PoolInvRest
<1>12. CASE OpenFails(t)
  <2>1. size' \in 0 .. MaxSize
    BY <1>12, DecTyped DEF OpenFails, TypeOK
  <2>2. attempts' \in [Attempts -> Attempt] /\ HoldsSession' /\ OneHolder' /\ NotIdle'
    BY <1>3, <1>12 DEF OpenFails, Outcome
  <2>3. QED
    BY <1>12, <2>1, <2>2 DEF OpenFails, TypeOK, PoolInvRest
<1>13. CASE ToolReturns(t)
  <2>1. attempts[t].session \in Sessions /\ attempts[t].session # NoSession
    BY <1>2, <1>13 DEF ToolReturns, HoldsSession
  <2>2. attempts' \in [Attempts -> Attempt] /\ HoldsSession' /\ OneHolder' /\ NotIdle'
    BY <1>3, <1>13, <2>1 DEF ToolReturns, Outcome
  <2>3. calls' \in [Calls -> Call] /\ \A c \in Calls : calls'[c].try = calls[c].try
    BY <1>13, <2>1, TrackTyped DEF ToolReturns
  <2>4. QED
    BY <1>13, <2>1, <2>2, <2>3 DEF ToolReturns, TypeOK, PoolInvRest
<1>14. CASE ToolReturnsClosed(t)
  <2>1. attempts[t].session \in Sessions
    BY <1>14 DEF ToolReturnsClosed, HoldsSession
  <2> DEFINE a == Goto(t, "close", attempts[t].session)
  <2>2. a \in Attempt /\ a.session = attempts[t].session
    BY <2>1, GotoTyped
  <2>3. attempts' \in [Attempts -> Attempt] /\ HoldsSession' /\ OneHolder' /\ NotIdle'
    BY <1>4, <1>14, <2>1, <2>2 DEF ToolReturnsClosed, bucketVars
  <2>4. QED
    BY <1>14, <2>3 DEF ToolReturnsClosed, bucketVars, TypeOK, PoolInvRest
<1>15. CASE ReleaseCloses(t)
  <2>1. attempts' \in [Attempts -> Attempt] /\ HoldsSession' /\ OneHolder' /\ NotIdle'
    BY <1>3, <1>15 DEF ReleaseCloses, bucketVars, Outcome
  <2>2. calls' \in [Calls -> Call] /\ \A c \in Calls : calls'[c].try = calls[c].try
    BY <1>0, <1>15, TrackTyped DEF ReleaseCloses
  <2>3. QED
    BY <1>15, <2>1, <2>2 DEF ReleaseCloses, bucketVars, TypeOK, PoolInvRest
<1>16. CASE ToolRaises(t)
  <2>1. attempts[t].session \in Sessions
    BY <1>16 DEF ToolRaises, HoldsSession
  <2> DEFINE a == Goto(t, "drop", attempts[t].session)
  <2>2. a \in Attempt /\ a.session = attempts[t].session
    BY <2>1, GotoTyped
  <2>3. /\ idle' \subseteq idle /\ live' \subseteq live
        /\ size' \in 0 .. MaxSize /\ drifted' \in BOOLEAN
    BY <1>16, DropTyped DEF ToolRaises, bucketVars, TypeOK
  <2>4. attempts' \in [Attempts -> Attempt] /\ HoldsSession' /\ OneHolder' /\ NotIdle'
    BY <1>4, <1>16, <2>1, <2>2, <2>3 DEF ToolRaises
  <2>5. QED
    BY <1>16, <2>3, <2>4 DEF ToolRaises, TypeOK, PoolInvRest
<1>17. CASE DropCloses(t)
  <2>1. /\ idle' \subseteq idle /\ live' \subseteq live /\ size' \in 0 .. MaxSize
    BY <1>17, DecTyped, IdleCount DEF DropCloses, bucketVars, TypeOK
  <2>2. calls' \in [Calls -> Call] /\ \A c \in Calls : calls'[c].try = calls[c].try
    BY <1>0, <1>17, TrackTyped DEF DropCloses
  <2>3. attempts' \in [Attempts -> Attempt] /\ HoldsSession' /\ OneHolder' /\ NotIdle'
    <3>1. CASE attempts[t].reused
      <4> DEFINE a == [Goto(t, "acquire", NoSession) EXCEPT !.reused = FALSE, !.retried = TRUE]
      <4>1. a \in Attempt /\ a.pc = "acquire" /\ a.session = NoSession
        <5>1. \A g \in Attempt : LET x == [g EXCEPT !.reused = FALSE, !.retried = TRUE]
                                 IN  x \in Attempt /\ x.pc = g.pc /\ x.session = g.session
          BY DEF Attempt
        <5>2. /\ Goto(t, "acquire", NoSession) \in Attempt
              /\ Goto(t, "acquire", NoSession).pc = "acquire"
              /\ Goto(t, "acquire", NoSession).session = NoSession
          BY GotoTyped
        <5>3. QED
          BY <5>1, <5>2, Zenon
      <4>2. attempts' = [attempts EXCEPT ![t] = a]
        BY <1>17, <3>1 DEF DropCloses
      <4>3. a.pc \notin {"invoke", "drop", "close"}
        BY <4>1
      <4> HIDE DEF a
      <4>4. QED
        BY <1>4, <2>1, <4>1, <4>2, <4>3
    <3>2. CASE ~attempts[t].reused
      BY <1>3, <1>17, <2>1, <3>2 DEF DropCloses, Outcome
    <3>3. QED
      BY <3>1, <3>2
  <2>4. QED
    BY <1>17, <2>1, <2>2, <2>3 DEF DropCloses, TypeOK, PoolInvRest
<1>18. CASE Cancelled(t)
  <2>1. attempts' \in [Attempts -> Attempt] /\ HoldsSession' /\ OneHolder' /\ NotIdle'
    BY <1>3, <1>18 DEF Cancelled, bucketVars, Outcome
  <2>2. QED
    BY <1>18, <2>1 DEF Cancelled, bucketVars, TypeOK, PoolInvRest
<1>19. QED
  BY <1>5, <1>6, <1>7, <1>8, <1>9, <1>10, <1>11, <1>12, <1>13, <1>14, <1>15, <1>16,
     <1>17, <1>18 DEF AttemptStep

\* A call moves on: the attempts forgotten or spawned hold no session.
LEMMA ForgetKeeps ==
  ASSUME PoolInv,
         attempts' \in [Attempts -> Attempt],
         \A t \in Attempts : \/ attempts'[t].pc = attempts[t].pc /\ attempts'[t].session = attempts[t].session
                             \/ attempts'[t].pc \in {"none", "spawned"} /\ attempts'[t].session = NoSession,
         idle' \subseteq idle
  PROVE  HoldsSession' /\ OneHolder' /\ NotIdle'
<1>1. NoSession \notin idle
  BY PoolAssumption DEF PoolInv, TypeOK
<1>2. HoldsSession'
  BY DEF PoolInv, HoldsSession
<1>3. OneHolder'
  BY DEF PoolInv, OneHolder
<1>4. NotIdle'
  BY <1>1 DEF PoolInv, NotIdle
<1>5. QED
  BY <1>2, <1>3, <1>4

\* A new task for call c.
LEMMA SpawnKeeps ==
  ASSUME PoolInv, NEW c \in Calls, NEW i \in 0 .. RetryCount[c],
         NEW old \in [Attempts -> Attempt],
         \A t \in Attempts : \/ old[t] = attempts[t] \/ old[t] = NoAttempt,
         attempts' = [old EXCEPT ![<<c, i>>] = [NoAttempt EXCEPT !.pc = "spawned"]],
         idle' \subseteq idle
  PROVE  attempts' \in [Attempts -> Attempt] /\ HoldsSession' /\ OneHolder' /\ NotIdle'
<1> DEFINE a == [NoAttempt EXCEPT !.pc = "spawned"]
<1>1. a \in Attempt /\ a.pc = "spawned" /\ a.session = NoSession
  BY DEF Attempt, NoAttempt
<1>2. NoAttempt.pc = "none" /\ NoAttempt.session = NoSession
  BY DEF NoAttempt
<1> HIDE DEF a
<1>3. attempts' = [old EXCEPT ![<<c, i>>] = a]
  BY DEF a
<1>4. attempts' \in [Attempts -> Attempt]
  BY <1>1, <1>3
<1>5. \A t \in Attempts : \/ attempts'[t].pc = attempts[t].pc /\ attempts'[t].session = attempts[t].session
                          \/ attempts'[t].pc \in {"none", "spawned"} /\ attempts'[t].session = NoSession
  BY <1>1, <1>2, <1>3
<1>6. QED
  BY <1>4, <1>5, ForgetKeeps

\* The three ways a call goes on from the attempts it has not forgotten.
LEMMA CallMovesKeep ==
  ASSUME PoolInv, NEW c \in Calls,
         NEW old \in [Attempts -> Attempt],
         \A t \in Attempts : old[t] = attempts[t] \/ old[t] = NoAttempt,
         UNCHANGED <<bucketVars, poolClosed, hasBucket>>,
         \/ NextAttempt(c, old) \/ RaiseUnavailable(c, old)
         \/ LeaveCall(c, old)
  PROVE  PoolInvRest'
<1> USE DEF PoolInv
<1>1. NoAttempt.pc = "none" /\ NoAttempt.session = NoSession /\ Ready \in Call /\ Ready.try = 0
  BY RecordFacts DEF NoAttempt, Ready
<1>2. /\ RetryCount[c] \in Nat /\ calls[c] \in Call /\ calls[c].try \in Nat /\ calls[c].held \subseteq Sessions
      /\ \A d \in Calls : 0 <= RetryCount[d]
  BY PoolAssumption DEF TypeOK, Call
<1>3. idle' = idle /\ live' = live /\ size' = size
  BY DEF bucketVars
<1>4. ASSUME attempts' = old
      PROVE  attempts' \in [Attempts -> Attempt] /\ HoldsSession' /\ OneHolder' /\ NotIdle'
  BY <1>1, <1>3, <1>4, ForgetKeeps
<1>5. CASE NextAttempt(c, old)
  <2>1. calls[c].try + 1 \in 0 .. RetryCount[c]
    BY <1>2, <1>5 DEF NextAttempt
  <2>2. attempts' \in [Attempts -> Attempt] /\ HoldsSession' /\ OneHolder' /\ NotIdle'
    BY <1>3, <1>5, <2>1, SpawnKeeps DEF NextAttempt
  <2>3. calls' \in [Calls -> Call] /\ \A d \in Calls : calls'[d].try <= RetryCount[d]
    BY <1>2, <1>5, <2>1 DEF NextAttempt, TypeOK, Call
  <2>4. QED
    BY <1>3, <1>5, <2>2, <2>3 DEF NextAttempt, TypeOK, PoolInvRest
<1>6. CASE RaiseUnavailable(c, old)
  <2>1. discards' \subseteq Sessions
    BY <1>2, <1>6 DEF RaiseUnavailable, TypeOK
  <2>2. calls' \in [Calls -> Call] /\ \A d \in Calls : calls'[d].try <= RetryCount[d]
    BY <1>1, <1>2, <1>6 DEF RaiseUnavailable, TypeOK
  <2>3. QED
    BY <1>3, <1>4, <1>6, <2>1, <2>2 DEF RaiseUnavailable, TypeOK, PoolInvRest
<1>7. CASE LeaveCall(c, old)
  <2>1. calls' \in [Calls -> Call] /\ \A d \in Calls : calls'[d].try <= RetryCount[d]
    BY <1>1, <1>2, <1>7 DEF LeaveCall, TypeOK
  <2>2. QED
    BY <1>3, <1>4, <1>7, <2>1 DEF LeaveCall, TypeOK, PoolInvRest
<1>8. QED
  BY <1>5, <1>6, <1>7

\* The steps of the callers.
LEMMA CallStepKeeps ==
  ASSUME PoolInv, NEW c \in Calls, CallTool(c) \/ CallStep(c) \/ CallerCancelled(c)
  PROVE  PoolInvRest'
<1> USE DEF PoolInv
<1>1. Current(c) \in Attempts
  BY AttemptFacts, PoolAssumption DEF TypeOK, Call, Current
<1>2. attempts \in [Attempts -> Attempt] /\ NoAttempt \in Attempt /\ Ready \in Call
  BY RecordFacts DEF TypeOK
<1> DEFINE forgotten == [attempts EXCEPT ![Current(c)] = NoAttempt]
<1>3. /\ forgotten \in [Attempts -> Attempt]
      /\ \A t \in Attempts : forgotten[t] = attempts[t] \/ forgotten[t] = NoAttempt
  BY <1>2
<1>4. CASE CallTool(c)
  <2>1. /\ 0 \in 0 .. RetryCount[c] /\ \A d \in Calls : 0 <= RetryCount[d]
    BY PoolAssumption
  <2>2. attempts' \in [Attempts -> Attempt] /\ HoldsSession' /\ OneHolder' /\ NotIdle'
    BY <1>2, <1>4, <2>1, SpawnKeeps DEF CallTool, bucketVars
  <2>3. calls' \in [Calls -> Call] /\ \A d \in Calls : calls'[d].try <= RetryCount[d]
    BY <1>4, <2>1 DEF CallTool, TypeOK, Call, Ready
  <2>4. QED
    BY <1>4, <2>2, <2>3 DEF CallTool, bucketVars, TypeOK, PoolInvRest
<1>5. CASE ReadResult(c)
  <2> HIDE DEF forgotten
  <2>1. UNCHANGED <<bucketVars, poolClosed, hasBucket>>
    BY <1>5 DEF ReadResult, LeaveCall, NextAttempt, RaiseUnavailable
  <2>2. NextAttempt(c, forgotten) \/ RaiseUnavailable(c, forgotten) \/ LeaveCall(c, forgotten)
    BY <1>5 DEF ReadResult, forgotten
  <2>3. QED
    BY <1>3, <2>1, <2>2, CallMovesKeep
<1>6. CASE TimerExpires(c)
  <2>1. attempts' \in [Attempts -> Attempt]
    BY <1>2, <1>6 DEF TimerExpires, Attempt
  <2>2. \A t \in Attempts : attempts'[t].pc = attempts[t].pc /\ attempts'[t].session = attempts[t].session
    BY <1>2, <1>6 DEF TimerExpires, Attempt
  <2>3. HoldsSession' /\ OneHolder' /\ NotIdle'
    BY <1>6, <2>1, <2>2, ForgetKeeps DEF TimerExpires, bucketVars
  <2>4. calls' \in [Calls -> Call] /\ \A d \in Calls : calls'[d].try = calls[d].try
    BY <1>6 DEF TimerExpires, TypeOK, Call
  <2>5. QED
    BY <1>6, <2>1, <2>3, <2>4 DEF TimerExpires, bucketVars, TypeOK, PoolInvRest
<1>7. CASE GraceEnds(c)
  <2>1. UNCHANGED <<bucketVars, poolClosed, hasBucket>>
    BY <1>7 DEF GraceEnds, NextAttempt, RaiseUnavailable
  <2>2. QED
    BY <1>2, <1>7, <2>1, CallMovesKeep DEF GraceEnds
<1>8. CASE CallerCancelled(c)
  <2> HIDE DEF forgotten
  <2>1. UNCHANGED <<bucketVars, poolClosed, hasBucket>>
    BY <1>8 DEF CallerCancelled, LeaveCall
  <2>2. LeaveCall(c, forgotten) \/ LeaveCall(c, attempts)
    BY <1>8 DEF CallerCancelled, forgotten
  <2>3. QED
    BY <1>2, <1>3, <2>1, <2>2, CallMovesKeep
<1>9. QED
  BY <1>4, <1>5, <1>6, <1>7, <1>8 DEF CallStep

\* The rest: detached drops, shutdown, the breaker's clock.
LEMMA OtherStepKeeps ==
  ASSUME PoolInv,
         \/ \E s \in Sessions : DiscardRuns(s)
         \/ ClosePool \/ BreakerClock \/ UNCHANGED vars
  PROVE  PoolInvRest'
<1> USE DEF PoolInv
<1>1. attempts \in [Attempts -> Attempt]
  BY DEF TypeOK
<1>2. ASSUME NEW s \in Sessions, DiscardRuns(s)
      PROVE  PoolInvRest'
  <2>1. /\ idle' \subseteq idle /\ live' \subseteq live
        /\ size' \in 0 .. MaxSize /\ drifted' \in BOOLEAN
    BY <1>2, DropTyped DEF DiscardRuns
  <2>2. HoldsSession' /\ OneHolder' /\ NotIdle'
    BY <1>1, <1>2, <2>1, ForgetKeeps DEF DiscardRuns
  <2>3. QED
    BY <1>2, <2>1, <2>2 DEF DiscardRuns, TypeOK, PoolInvRest
<1>3. CASE ClosePool
  <2>1. attempts' \in [Attempts -> Attempt]
    BY <1>1, <1>3 DEF ClosePool, Attempt
  <2>2. \A t \in Attempts : attempts'[t].pc = attempts[t].pc /\ attempts'[t].session = attempts[t].session
    BY <1>1, <1>3 DEF ClosePool, Attempt
  <2>3. idle' = {} /\ live' = {} /\ discards' = {} /\ size' = 0 /\ 0 \in 0 .. MaxSize
    BY <1>3, PoolAssumption DEF ClosePool
  <2>4. HoldsSession' /\ OneHolder' /\ NotIdle'
    BY <2>1, <2>2, <2>3, ForgetKeeps
  <2>5. QED
    BY <1>3, <2>1, <2>3, <2>4 DEF ClosePool, TypeOK, PoolInvRest
<1>4. CASE UNCHANGED poolVars
  BY <1>4 DEF poolVars, TypeOK, PoolInvRest, HoldsSession, OneHolder, NotIdle
<1>5. QED
  BY <1>2, <1>3, <1>4 DEF BreakerClock, vars

LEMMA PoolInvNext == BreakerInv /\ PoolInv /\ [Next]_vars => PoolInv'
<1> SUFFICES ASSUME BreakerInv, PoolInv, [Next]_vars PROVE PoolInv'
  OBVIOUS
<1>1. BreakerTypeOK'
  BY PoolStepIsBreakerStep, BreakerInvNext DEF BreakerInv
<1>2. PoolInvRest'
  BY AttemptStepKeeps, CallStepKeeps, OtherStepKeeps DEF Next
<1>3. PoolInv' <=> BreakerTypeOK' /\ PoolInvRest'
  BY DEF PoolInv, PoolInvRest, TypeOK
<1>4. QED
  BY <1>1, <1>2, <1>3

LEMMA PoolInvAlways == Spec => []PoolInv
<1>1. BreakerSpec => []BreakerInv
  BY BreakerInvInit, BreakerInvNext, PTL DEF BreakerSpec
<1>2. Spec => []BreakerInv
  BY <1>1, PoolImplementsBreaker, PTL DEF BreakerUsed
<1>3. QED
  BY <1>2, PoolInvInit, PoolInvNext, PTL DEF Spec

(* Every state of the pool has its type: in particular the slot counter     *)
(* stays within the pool bound, whatever is dropped twice or never.         *)
THEOREM PoolTyped == Spec => []TypeOK
BY PoolInvAlways, PTL DEF PoolInv

-----------------------------------------------------------------------------
(* 3. A session serves one attempt at a time and is never idle meanwhile,   *)
(* for any number of calls, retries and sessions.  The only ways a session  *)
(* comes into an attempt's hands are the idle queue, which gives it away,   *)
(* and the opener, whose session nobody refers to yet.                      *)
THEOREM PoolSessionExclusive == Spec => []SessionExclusive
<1>1. PoolInv => SessionExclusive
  BY DEF PoolInv, OneHolder, NotIdle, SessionExclusive
<1>2. QED
  BY <1>1, PoolInvAlways, PTL

-----------------------------------------------------------------------------
(* 4. The slots.                                                            *)

Quiet == {"none", "spawned"} \cup Outcome

\* An attempt whose bucket was closed, or that is closing its session, has a
\* session that is not among the live ones of the bucket there is now.
OutOfLive == \A t \in Attempts :
                 attempts[t].orphan \/ attempts[t].pc \in {"drop", "close"} => attempts[t].session \notin live
Closing == \A t \in Attempts : attempts[t].pc = "close" => attempts[t].orphan
BucketExists ==
    /\ ~hasBucket => live = {}
    /\ \A t \in Attempts : attempts[t].pc \notin Quiet /\ ~attempts[t].orphan => hasBucket

\* A call under way is one the breaker runs; one that is not has nothing in
\* flight; attempts that a call has not come to do not exist.
Frames ==
    /\ \A c \in Calls : /\ Active(c) => c \in running
                        /\ ~Active(c) => calls[c].held = {}
    /\ \A t \in Attempts : Active(t[1]) /\ t[2] > calls[t[1]].try => attempts[t].pc = "none"

\* What a call has in flight is not idle and in no other call's hands.
InFlightOwn == \A c \in Calls :
    /\ calls[c].held \cap idle = {}
    /\ \A t \in Attempts : attempts[t].session \in calls[c].held => t[1] = c

\* SlotAccounting and NotClosedInUse, and what keeps the detached drops away
\* from sessions that are idle or waited for.
Located(s) == \/ s \in idle \cup discards
              \/ \E t \in Attempts : attempts[t].pc = "invoke" /\ attempts[t].session = s
              \/ \E c \in Calls : s \in calls[c].held
Counted == size = Cardinality(live) + Cardinality(Opening)
Kept == /\ idle \subseteq live \ discards
        /\ \A s \in live : Located(s)
        /\ \A t \in Attempts : Awaited(t) /\ attempts[t].pc = "invoke" /\ ~attempts[t].orphan
                                  => attempts[t].session \in live \ discards

Holding == OutOfLive /\ Closing /\ BucketExists /\ Frames /\ InFlightOwn
SlotInv == Holding /\ (~drifted => Counted /\ Kept)

LEMMA AttemptsFinite == IsFiniteSet(Attempts) /\ IsFiniteSet(Opening) /\ Cardinality(Opening) \in Nat
<1> DEFINE f == [c \in Calls |-> {c} \X (0 .. RetryCount[c])]
           T == {{c} \X (0 .. RetryCount[c]) : c \in Calls}
<1>1. f \in Surjection(Calls, T)
  BY DEF Surjection
<1>2. IsFiniteSet(T)
  <2> HIDE DEF f, T
  <2>1. QED
    BY <1>1, FS_Surjection, PoolAssumption
<1>3. ASSUME NEW c \in Calls
      PROVE  IsFiniteSet({c} \X (0 .. RetryCount[c]))
  <2>1. IsFiniteSet(0 .. RetryCount[c])
    BY FS_Interval, PoolAssumption
  <2>2. QED
    BY <2>1, FS_Singleton, FS_Product
<1>4. IsFiniteSet(UNION T)
  <2>1. \A U \in T : IsFiniteSet(U)
    BY <1>3
  <2> HIDE DEF T
  <2>2. QED
    BY <1>2, <2>1, FS_UNION
<1>5. IsFiniteSet(Attempts)
  BY <1>4 DEF Attempts
<1>6. Opening \in SUBSET Attempts
  BY DEF Opening
<1>7. QED
  BY <1>5, <1>6, FS_Subset, FS_CardinalityType

LEMMA LiveCount == ASSUME live \subseteq Sessions
                   PROVE  IsFiniteSet(live) /\ Cardinality(live) \in Nat
BY PoolAssumption, FS_Subset, FS_CardinalityType

LEMMA AttemptPair == \A t \in Attempts : /\ t[1] \in Calls /\ t[2] \in 0 .. RetryCount[t[1]]
                                         /\ t = <<t[1], t[2]>>
BY DEF Attempts

\* What an attempt's new values are, apart from their types.
LEMMA GotoShape ==
  ASSUME PoolInv, NEW t \in Attempts,
         NEW pc \in {"acquire", "open", "invoke", "drop", "close"}, NEW s \in Sessions \cup {NoSession}
  PROVE  /\ Goto(t, pc, s).pc = pc /\ Goto(t, pc, s).session = s
         /\ Goto(t, pc, s).orphan = attempts[t].orphan
BY DEF Goto, PoolInv, TypeOK, Attempt

LEMMA EndedShape ==
  ASSUME NEW t \in Attempts, NEW outcome \in Outcome
  PROVE  /\ EndedAs(t, outcome).pc \in Quiet /\ EndedAs(t, outcome).session = NoSession
         /\ EndedAs(t, outcome).orphan = FALSE
BY DEF EndedAs, NoAttempt, Quiet

\* in_flight after Track and Untrack.
LEMMA TrackEffect ==
  ASSUME PoolInv, NEW t \in Attempts, NEW s
  PROVE  /\ Track(t, s) =>
              /\ \A c \in Calls : /\ calls'[c].pc = calls[c].pc /\ calls'[c].try = calls[c].try
                                  /\ c # t[1] \/ ~Active(c) => calls'[c].held = calls[c].held
                                  /\ calls'[c].held \subseteq calls[c].held \cup {s}
                                  /\ calls[c].held \subseteq calls'[c].held
              /\ Active(t[1]) => s \in calls'[t[1]].held
         /\ Untrack(t, s) =>
              \A c \in Calls : /\ calls'[c].pc = calls[c].pc /\ calls'[c].try = calls[c].try
                               /\ c # t[1] => calls'[c].held = calls[c].held
                               /\ calls'[t[1]].held = calls[t[1]].held \ {s}
<1>1. t[1] \in Calls /\ calls \in [Calls -> Call]
  BY AttemptPair DEF PoolInv, TypeOK
<1>2. ASSUME Track(t, s)
      PROVE  /\ \A c \in Calls : /\ calls'[c].pc = calls[c].pc /\ calls'[c].try = calls[c].try
                                 /\ c # t[1] \/ ~Active(c) => calls'[c].held = calls[c].held
                                 /\ calls'[c].held \subseteq calls[c].held \cup {s}
                                 /\ calls[c].held \subseteq calls'[c].held
             /\ Active(t[1]) => s \in calls'[t[1]].held
  BY <1>1, <1>2 DEF Track, Active, Call
<1>3. ASSUME Untrack(t, s)
      PROVE  \A c \in Calls : /\ calls'[c].pc = calls[c].pc /\ calls'[c].try = calls[c].try
                              /\ c # t[1] => calls'[c].held = calls[c].held
                              /\ calls'[t[1]].held = calls[t[1]].held \ {s}
  BY <1>1, <1>3 DEF Untrack, Call
<1>4. QED
  BY <1>2, <1>3

LEMMA AttemptChange ==
  ASSUME PoolInv, NEW t \in Attempts, NEW a, attempts' = [attempts EXCEPT ![t] = a]
  PROVE  /\ attempts'[t] = a /\ \A u \in Attempts \ {t} : attempts'[u] = attempts[u]
         /\ Opening' = IF a.pc = "open" /\ ~a.orphan THEN Opening \cup {t} ELSE Opening \ {t}
<1>1. attempts'[t] = a /\ \A u \in Attempts \ {t} : attempts'[u] = attempts[u]
  BY DEF PoolInv, TypeOK
<1>2. QED
  BY <1>1 DEF Opening

\* The bucket after one attempt has changed.
LEMMA BucketKept ==
  ASSUME PoolInv, Holding, NEW t \in Attempts, NEW a, attempts' = [attempts EXCEPT ![t] = a],
         \A u \in Attempts \ {t} : attempts[u].session \in live' => attempts[u].session \in live,
         a.orphan \/ a.pc \in {"drop", "close"} => a.session \notin live',
         a.pc = "close" => a.orphan,
         a.pc \notin Quiet /\ ~a.orphan => hasBucket',
         hasBucket => hasBucket', ~hasBucket' => live' = {}
  PROVE  OutOfLive' /\ Closing' /\ BucketExists'
<1>1. attempts'[t] = a /\ \A u \in Attempts \ {t} : attempts'[u] = attempts[u]
  BY AttemptChange
<1>2. QED
  BY <1>1 DEF Holding, OutOfLive, Closing, BucketExists

LEMMA FramesKept ==
  ASSUME PoolInv, Holding, NEW t \in Attempts, NEW a, attempts' = [attempts EXCEPT ![t] = a],
         attempts[t].pc # "none", UNCHANGED running,
         \A c \in Calls : /\ calls'[c].pc = calls[c].pc /\ calls'[c].try = calls[c].try
                          /\ ~Active(c) => calls'[c].held = calls[c].held
  PROVE  Frames'
<1>1. attempts'[t] = a /\ \A u \in Attempts \ {t} : attempts'[u] = attempts[u]
  BY AttemptChange
<1>2. ASSUME NEW u \in Attempts, Active(u[1])', u[2] > calls'[u[1]].try
      PROVE  attempts'[u].pc = "none"
  <2>1. attempts[u].pc = "none"
    BY <1>2, AttemptPair DEF Holding, Frames, Active
  <2>2. QED
    BY <1>1, <2>1
<1>3. QED
  BY <1>2 DEF Holding, Frames, Active

\* An attempt that goes on with its session or ends, and takes none.
LEMMA HoldingKept ==
  ASSUME PoolInv, Holding, NEW t \in Attempts, NEW a, attempts' = [attempts EXCEPT ![t] = a],
         attempts[t].pc # "none", UNCHANGED running, idle' \subseteq idle, live' \subseteq live,
         \A c \in Calls : /\ calls'[c].pc = calls[c].pc /\ calls'[c].try = calls[c].try
                          /\ calls'[c].held \subseteq calls[c].held,
         a.session \in {attempts[t].session, NoSession},
         a.orphan \/ a.pc \in {"drop", "close"} => a.session \notin live',
         a.pc = "close" => a.orphan,
         a.pc \notin Quiet /\ ~a.orphan => hasBucket',
         hasBucket => hasBucket'
  PROVE  Holding'
<1>1. OutOfLive' /\ Closing' /\ BucketExists'
  <2>1. ~hasBucket' => live' = {}
    BY DEF Holding, BucketExists
  <2>2. QED
    BY <2>1, BucketKept
<1>2. Frames'
  <2>1. \A c \in Calls : ~Active(c) => calls'[c].held = calls[c].held
    BY DEF Holding, Frames
  <2>2. QED
    BY <2>1, FramesKept
<1>3. InFlightOwn'
  <2>1. attempts'[t] = a /\ \A u \in Attempts \ {t} : attempts'[u] = attempts[u]
    BY AttemptChange
  <2>2. \A c \in Calls : NoSession \notin calls[c].held
    BY PoolAssumption DEF PoolInv, TypeOK, Call
  <2>3. \A u \in Attempts : attempts'[u].session \in {attempts[u].session, NoSession}
    BY <2>1
  <2>4. QED
    BY <2>2, <2>3 DEF Holding, InFlightOwn
<1>4. QED
  BY <1>1, <1>2, <1>3 DEF Holding

\* What has to be shown of the sessions when one attempt changes.
LEMMA KeptKept ==
  ASSUME PoolInv, Holding, Kept, NEW t \in Attempts, NEW a, attempts' = [attempts EXCEPT ![t] = a],
         discards' = discards, idle' \subseteq live' \ discards,
         live \subseteq live' \cup idle \cup {attempts[t].session},
         \A c \in Calls : /\ calls'[c].pc = calls[c].pc /\ calls'[c].try = calls[c].try
                          /\ calls[c].held \subseteq calls'[c].held \cup {attempts[t].session},
         \A s \in live' : s \notin live \/ s \in idle \ idle' \/ s = attempts[t].session => Located(s)',
         a.pc = "invoke" /\ ~a.orphan => a.session \in live' \ discards
  PROVE  Kept'
<1>1. attempts'[t] = a /\ \A u \in Attempts \ {t} : attempts'[u] = attempts[u]
  BY AttemptChange
<1>2. ASSUME NEW s \in live', s \in live, s \notin idle \ idle', s # attempts[t].session
      PROVE  Located(s)'
  <2>1. Located(s)
    BY <1>2 DEF Kept
  <2>2. CASE \E u \in Attempts : attempts[u].pc = "invoke" /\ attempts[u].session = s
    BY <1>1, <1>2, <2>2 DEF Located
  <2>3. CASE s \in idle \cup discards \/ \E c \in Calls : s \in calls[c].held
    BY <1>2, <2>3 DEF Located
  <2>4. QED
    BY <2>1, <2>2, <2>3 DEF Located
<1>3. ASSUME NEW u \in Attempts, Awaited(u)', attempts'[u].pc = "invoke", ~attempts'[u].orphan
      PROVE  attempts'[u].session \in live' \ discards'
  <2>1. CASE u = t
    BY <1>1, <1>3, <2>1
  <2>2. CASE u # t
    <3>1. Awaited(u)
      BY <1>3, AttemptPair DEF Awaited, Current
    <3>2. attempts[u].session \in live \ discards
      BY <1>1, <1>3, <2>2, <3>1 DEF Kept
    <3>3. attempts[u].session \notin idle /\ attempts[u].session # attempts[t].session
      BY <2>2, <3>2, PoolAssumption DEF PoolInv, TypeOK, OneHolder, NotIdle
    <3>4. QED
      BY <1>1, <2>2, <3>2, <3>3
  <2>3. QED
    BY <2>1, <2>2
<1>4. QED
  BY <1>2, <1>3 DEF Kept

\* An attempt ends with nothing done to the bucket but for its own session,
\* or its slot, and is not what keeps its session located.
LEMMA EndKeeps ==
  ASSUME PoolInv, SlotInv, NEW t \in Attempts, NEW outcome \in Outcome,
         attempts' = [attempts EXCEPT ![t] = EndedAs(t, outcome)],
         attempts[t].pc # "none",
         UNCHANGED <<running, idle, live, calls, discards>>,
         hasBucket => hasBucket', drifted => drifted',
         ~drifted' /\ t \in Opening => size' = size - 1,
         ~drifted' /\ t \notin Opening => size' = size,
         ~drifted' /\ attempts[t].pc = "invoke" /\ attempts[t].session \in live =>
            attempts[t].session \in calls[t[1]].held \cup discards
  PROVE  SlotInv'
<1> DEFINE a == EndedAs(t, outcome)
<1>1. a.pc \in Quiet /\ a.session = NoSession /\ a.orphan = FALSE
  BY EndedShape
<1>2. a.pc \notin {"invoke", "open", "drop", "close"}
  BY <1>1 DEF Quiet, Outcome
<1> HIDE DEF a
<1>3. attempts' = [attempts EXCEPT ![t] = a]
  BY DEF a
<1>4. Holding'
  BY <1>1, <1>2, <1>3, HoldingKept DEF SlotInv
<1>5. ASSUME ~drifted'
      PROVE  Counted' /\ Kept'
  <2>1. Counted /\ Kept
    BY <1>5 DEF SlotInv
  <2>2. Opening' = Opening \ {t}
    BY <1>2, <1>3, AttemptChange
  <2>3. /\ IsFiniteSet(Opening) /\ Cardinality(Opening) \in Nat
        /\ IsFiniteSet(live) /\ Cardinality(live) \in Nat
    BY AttemptsFinite, LiveCount DEF PoolInv, TypeOK
  <2>4. Counted'
    <3>1. Cardinality(Opening') = IF t \in Opening THEN Cardinality(Opening) - 1 ELSE Cardinality(Opening)
      BY <2>2, <2>3, FS_RemoveElement
    <3>2. size = Cardinality(live) + Cardinality(Opening) /\ Cardinality(live') = Cardinality(live)
      BY <2>1 DEF Counted
    <3>3. size' = Cardinality(live') + Cardinality(Opening')
      BY <1>5, <2>3, <3>1, <3>2
    <3>4. QED
      BY <3>3 DEF Counted
  <2>5. t[1] \in Calls /\ NoSession \notin live
    BY AttemptPair, PoolAssumption DEF PoolInv, TypeOK
  <2>6. attempts'[t] = a /\ \A u \in Attempts \ {t} : attempts'[u] = attempts[u]
    BY <1>3, AttemptChange
  <2>7. ASSUME NEW s \in live, s = attempts[t].session
        PROVE  Located(s)'
    <3>1. Located(s)
      BY <2>1, <2>7 DEF Kept
    <3>2. attempts[t].pc # "invoke" =>
             ~ \E u \in Attempts : attempts[u].pc = "invoke" /\ attempts[u].session = s
      BY <2>5, <2>7 DEF PoolInv, OneHolder
    <3>3. s \in idle \cup discards \/ \E c \in Calls : s \in calls[c].held
      BY <1>5, <2>5, <2>7, <3>1, <3>2 DEF Located
    <3>4. QED
      BY <3>3 DEF Located
  <2>8. \A s \in live' : s \notin live \/ s \in idle \ idle' \/ s = attempts[t].session => Located(s)'
    BY <2>7
  <2>9. idle' \subseteq live' \ discards
    BY <2>1 DEF Kept
  <2>10. Kept'
    BY <1>2, <1>3, <2>1, <2>8, <2>9, KeptKept DEF SlotInv
  <2>11. QED
    BY <2>4, <2>10
<1>6. QED
  BY <1>4, <1>5 DEF SlotInv

\* A session leaves the live ones and its slot is given back.
LEMMA DropCount ==
  ASSUME PoolInv, NEW s, DropFromBucket(s), Counted, ~drifted'
  PROVE  ~drifted /\ s \in live /\ size' = Cardinality(live') + Cardinality(Opening)
<1>1. s \in live /\ ~drifted
  BY DEF DropFromBucket
<1>2. /\ Cardinality(Opening) \in Nat /\ Cardinality(live) \in Nat
      /\ IsFiniteSet(live)
  BY AttemptsFinite, LiveCount DEF PoolInv, TypeOK
<1>3. Cardinality(live') = Cardinality(live) - 1 /\ Cardinality(live) # 0
  BY <1>1, <1>2, FS_RemoveElement, FS_EmptySet DEF DropFromBucket
<1>4. QED
  BY <1>1, <1>2, <1>3 DEF DropFromBucket, Dec, Counted

LEMMA TakeIdleSlots ==
  ASSUME PoolInv, SlotInv, NEW t \in Attempts, NEW s \in Sessions, TakeIdle(t, s)
  PROVE  SlotInv'
<1> DEFINE a == [Goto(t, "invoke", s) EXCEPT !.reused = ~attempts[t].retried]
<1>1. a.pc = "invoke" /\ a.session = s /\ a.orphan = attempts[t].orphan
  BY GotoShape DEF Goto
<1>2. attempts' = [attempts EXCEPT ![t] = a]
  BY DEF TakeIdle
<1> HIDE DEF a
<1>3. /\ attempts[t].pc \in {"spawned", "acquire"} /\ ~attempts[t].orphan /\ hasBucket'
      /\ s \in idle /\ idle' = idle \ {s} /\ Track(t, s)
      /\ UNCHANGED <<running, live, size, discards, drifted>>
  BY DEF TakeIdle, OnBucket, breakerVars
<1>4. /\ t[1] \in Calls
      /\ \A c \in Calls : /\ calls'[c].pc = calls[c].pc /\ calls'[c].try = calls[c].try
                          /\ c # t[1] \/ ~Active(c) => calls'[c].held = calls[c].held
                          /\ calls'[c].held \subseteq calls[c].held \cup {s}
                          /\ calls[c].held \subseteq calls'[c].held
  BY <1>3, TrackEffect, AttemptPair
<1>5. attempts'[t] = a /\ \A u \in Attempts \ {t} : attempts'[u] = attempts[u]
  BY <1>2, AttemptChange
<1>6. Holding'
  <2>1. OutOfLive' /\ Closing' /\ BucketExists'
    BY <1>1, <1>2, <1>3, BucketKept DEF SlotInv, Quiet
  <2>2. Frames'
    <3>1. attempts[t].pc # "none"
      BY <1>3
    <3>2. QED
      BY <1>2, <1>3, <1>4, <3>1, FramesKept DEF SlotInv
  <2>3. InFlightOwn'
    <3>1. \A u \in Attempts \ {t} : attempts[u].session # s
      BY <1>3 DEF PoolInv, NotIdle
    <3>2. \A c \in Calls : s \notin calls[c].held
      BY <1>3 DEF SlotInv, Holding, InFlightOwn
    <3>3. \A c \in Calls : calls'[c].held \subseteq calls[c].held \cup (IF c = t[1] THEN {s} ELSE {})
      BY <1>4
    <3>4. QED
      BY <1>1, <1>3, <1>5, <3>1, <3>2, <3>3 DEF SlotInv, Holding, InFlightOwn
  <2>4. QED
    BY <2>1, <2>2, <2>3 DEF Holding
<1>7. ASSUME ~drifted'
      PROVE  Counted' /\ Kept'
  <2>1. Counted /\ Kept
    BY <1>3, <1>7 DEF SlotInv
  <2>2. Opening' = Opening
    BY <1>1, <1>2, <1>3, AttemptChange DEF Opening
  <2>3. Counted'
    BY <1>3, <2>1, <2>2 DEF Counted
  <2>4. Located(s)'
    BY <1>1, <1>5 DEF Located
  <2>5. ASSUME NEW x \in live, x = attempts[t].session
        PROVE  Located(x)'
    <3>1. Located(x)
      BY <2>1 DEF Kept
    <3>2. ~ \E u \in Attempts : attempts[u].pc = "invoke" /\ attempts[u].session = x
      BY <1>3, <2>5, PoolAssumption DEF PoolInv, TypeOK, OneHolder
    <3>3. x \notin idle
      BY <2>5 DEF PoolInv, NotIdle
    <3>4. QED
      BY <1>3, <1>4, <3>1, <3>2, <3>3 DEF Located
  <2>6. \A x \in live' : x \notin live \/ x \in idle \ idle' \/ x = attempts[t].session => Located(x)'
    BY <1>3, <2>4, <2>5
  <2>7. idle' \subseteq live' \ discards /\ s \in live' \ discards
    BY <1>3, <2>1 DEF Kept
  <2>8. Kept'
    BY <1>1, <1>2, <1>3, <1>4, <2>1, <2>6, <2>7, KeptKept DEF SlotInv
  <2>9. QED
    BY <2>3, <2>8
<1>8. QED
  BY <1>6, <1>7 DEF SlotInv

LEMMA ReserveSlotSlots ==
  ASSUME PoolInv, SlotInv, NEW t \in Attempts, ReserveSlot(t)
  PROVE  SlotInv'
<1> DEFINE a == Goto(t, "open", NoSession)
<1>1. a.pc = "open" /\ a.session = NoSession /\ a.orphan = attempts[t].orphan
  BY GotoShape
<1>2. attempts' = [attempts EXCEPT ![t] = a]
  BY DEF ReserveSlot
<1> HIDE DEF a
<1>3. /\ attempts[t].pc \in {"spawned", "acquire"} /\ ~attempts[t].orphan /\ hasBucket'
      /\ size' = size + 1 /\ size < MaxSize
      /\ UNCHANGED <<running, idle, live, calls, discards, drifted>>
  BY DEF ReserveSlot, OnBucket, breakerVars
<1>4. NoSession \notin live /\ NoSession \notin idle
  BY PoolAssumption DEF PoolInv, TypeOK
<1>5. Holding'
  <2>1. attempts[t].pc # "none" /\ a.pc \notin {"drop", "close"} /\ ~a.orphan
    BY <1>1, <1>3
  <2>2. QED
    BY <1>1, <1>2, <1>3, <2>1, HoldingKept DEF SlotInv
<1>6. ASSUME ~drifted'
      PROVE  Counted' /\ Kept'
  <2>1. Counted /\ Kept
    BY <1>3, <1>6 DEF SlotInv
  <2>2. Opening' = Opening \cup {t} /\ t \notin Opening
    BY <1>1, <1>2, <1>3, AttemptChange DEF Opening
  <2>3. /\ IsFiniteSet(Opening) /\ Cardinality(Opening) \in Nat /\ Cardinality(live) \in Nat
    BY AttemptsFinite, LiveCount DEF PoolInv, TypeOK
  <2>4. Cardinality(Opening') = Cardinality(Opening) + 1
    BY <2>2, <2>3, FS_AddElement
  <2>5. Counted'
    BY <1>3, <2>1, <2>3, <2>4 DEF Counted
  <2>6. ASSUME NEW x \in live, x = attempts[t].session
        PROVE  Located(x)'
    <3>1. Located(x)
      BY <2>1 DEF Kept
    <3>2. ~ \E u \in Attempts : attempts[u].pc = "invoke" /\ attempts[u].session = x
      BY <1>3, <1>4, <2>6 DEF PoolInv, OneHolder
    <3>3. QED
      BY <1>3, <3>1, <3>2 DEF Located
  <2>7. idle' \subseteq live' \ discards
    BY <1>3, <2>1 DEF Kept
  <2>8. Kept'
    BY <1>1, <1>2, <1>3, <2>1, <2>6, <2>7, KeptKept DEF SlotInv
  <2>9. QED
    BY <2>5, <2>8
<1>7. QED
  BY <1>5, <1>6 DEF SlotInv

LEMMA WaitSlots ==
  ASSUME PoolInv, SlotInv, NEW t \in Attempts, Wait(t)
  PROVE  SlotInv'
<1> DEFINE a == Goto(t, "acquire", NoSession)
<1>1. a.pc = "acquire" /\ a.session = NoSession /\ a.orphan = attempts[t].orphan
  BY GotoShape
<1>2. attempts' = [attempts EXCEPT ![t] = a]
  BY DEF Wait
<1> HIDE DEF a
<1>3. /\ attempts[t].pc = "spawned" /\ ~attempts[t].orphan /\ hasBucket'
      /\ UNCHANGED <<running, idle, live, size, calls, discards, drifted>>
  BY DEF Wait, OnBucket, breakerVars, bucketVars
<1>4. NoSession \notin live
  BY PoolAssumption DEF PoolInv, TypeOK
<1>5. Holding'
  BY <1>1, <1>2, <1>3, HoldingKept DEF SlotInv
<1>6. ASSUME ~drifted'
      PROVE  Counted' /\ Kept'
  <2>1. Counted /\ Kept
    BY <1>3, <1>6 DEF SlotInv
  <2>2. Opening' = Opening
    BY <1>1, <1>2, <1>3, AttemptChange DEF Opening
  <2>3. Counted'
    BY <1>3, <2>1, <2>2 DEF Counted
  <2>4. ASSUME NEW x \in live, x = attempts[t].session
        PROVE  Located(x)'
    <3>1. Located(x)
      BY <2>1 DEF Kept
    <3>2. ~ \E u \in Attempts : attempts[u].pc = "invoke" /\ attempts[u].session = x
      BY <1>3, <1>4, <2>4 DEF PoolInv, OneHolder
    <3>3. QED
      BY <1>3, <3>1, <3>2 DEF Located
  <2>5. idle' \subseteq live' \ discards
    BY <1>3, <2>1 DEF Kept
  <2>6. Kept'
    BY <1>1, <1>2, <1>3, <2>1, <2>4, <2>5, KeptKept DEF SlotInv
  <2>7. QED
    BY <2>3, <2>6
<1>7. QED
  BY <1>5, <1>6 DEF SlotInv

LEMMA OpenSucceedsSlots ==
  ASSUME PoolInv, SlotInv, NEW t \in Attempts, OpenSucceeds(t)
  PROVE  SlotInv'
<1>1. PICK s \in Sessions :
         /\ s \notin Referenced
         /\ live' = live \cup {s} /\ attempts' = [attempts EXCEPT ![t] = Goto(t, "invoke", s)] /\ Track(t, s)
         /\ attempts[t].pc = "open" /\ ~attempts[t].orphan
         /\ UNCHANGED <<running, idle, size, discards, hasBucket, drifted>>
  BY DEF OpenSucceeds, breakerVars
<1> DEFINE a == Goto(t, "invoke", s)
<1>2. a.pc = "invoke" /\ a.session = s /\ a.orphan = attempts[t].orphan
  BY <1>1, GotoShape
<1>0. attempts' = [attempts EXCEPT ![t] = a]
  BY <1>1
<1> HIDE DEF a
<1>3. /\ s \notin live \cup idle \cup discards
      /\ \A u \in Attempts : attempts[u].session # s
      /\ \A c \in Calls : s \notin calls[c].held
  BY <1>1 DEF Referenced
<1>4. /\ t[1] \in Calls
      /\ \A c \in Calls : /\ calls'[c].pc = calls[c].pc /\ calls'[c].try = calls[c].try
                          /\ c # t[1] \/ ~Active(c) => calls'[c].held = calls[c].held
                          /\ calls'[c].held \subseteq calls[c].held \cup {s}
                          /\ calls[c].held \subseteq calls'[c].held
  BY <1>1, TrackEffect, AttemptPair
<1>5. attempts'[t] = a /\ \A u \in Attempts \ {t} : attempts'[u] = attempts[u]
  BY <1>0, AttemptChange
<1>6. hasBucket
  BY <1>1 DEF SlotInv, Holding, BucketExists, Quiet, Outcome
<1>7. Holding'
  <2>1. OutOfLive' /\ Closing' /\ BucketExists'
    <3>1. \A u \in Attempts \ {t} : attempts[u].session \in live' => attempts[u].session \in live
      BY <1>1, <1>3
    <3>2. a.pc \notin {"drop", "close"} /\ ~a.orphan /\ hasBucket'
      BY <1>1, <1>2, <1>6
    <3>3. QED
      BY <1>0, <3>1, <3>2, BucketKept DEF SlotInv
  <2>2. Frames'
    BY <1>0, <1>1, <1>4, FramesKept DEF SlotInv
  <2>3. InFlightOwn'
    <3>1. \A c \in Calls : calls'[c].held \subseteq calls[c].held \cup (IF c = t[1] THEN {s} ELSE {})
      BY <1>4
    <3>2. QED
      BY <1>1, <1>2, <1>3, <1>5, <3>1 DEF SlotInv, Holding, InFlightOwn
  <2>4. QED
    BY <2>1, <2>2, <2>3 DEF Holding
<1>8. ASSUME ~drifted'
      PROVE  Counted' /\ Kept'
  <2>1. Counted /\ Kept
    BY <1>1, <1>8 DEF SlotInv
  <2>2. Opening' = Opening \ {t} /\ t \in Opening
    BY <1>0, <1>1, <1>2, AttemptChange DEF Opening
  <2>3. /\ IsFiniteSet(Opening) /\ Cardinality(Opening) \in Nat
        /\ IsFiniteSet(live) /\ Cardinality(live) \in Nat
    BY AttemptsFinite, LiveCount DEF PoolInv, TypeOK
  <2>4. Cardinality(Opening') = Cardinality(Opening) - 1
    BY <2>2, <2>3, FS_RemoveElement
  <2>5. Cardinality(live') = Cardinality(live) + 1
    BY <1>1, <1>3, <2>3, FS_AddElement
  <2>6. Counted'
    BY <1>1, <2>1, <2>3, <2>4, <2>5 DEF Counted
  <2>7. Located(s)'
    BY <1>2, <1>5 DEF Located
  <2>8. ASSUME NEW x \in live, x = attempts[t].session
        PROVE  Located(x)'
    <3>1. Located(x)
      BY <2>1 DEF Kept
    <3>2. ~ \E u \in Attempts : attempts[u].pc = "invoke" /\ attempts[u].session = x
      BY <1>1, <2>8, PoolAssumption DEF PoolInv, TypeOK, OneHolder
    <3>3. QED
      BY <1>1, <1>4, <3>1, <3>2 DEF Located
  <2>9. \A x \in live' : x \notin live \/ x \in idle \ idle' \/ x = attempts[t].session => Located(x)'
    BY <1>1, <2>7, <2>8
  <2>10. idle' \subseteq live' \ discards /\ s \in live' \ discards
    BY <1>1, <1>3, <2>1 DEF Kept
  <2>11. Kept'
    <3>1. /\ live \subseteq live' \cup idle \cup {attempts[t].session}
          /\ discards' = discards /\ Holding
      BY <1>1 DEF SlotInv
    <3>2. \A c \in Calls : calls[c].held \subseteq calls'[c].held \cup {attempts[t].session}
      BY <1>4
    <3>3. QED
      BY <1>0, <1>2, <1>4, <2>1, <2>9, <2>10, <3>1, <3>2, KeptKept
  <2>12. QED
    BY <2>6, <2>11
<1>9. QED
  BY <1>7, <1>8 DEF SlotInv

\* The steps that end an attempt and leave the bucket's sets alone.
LEMMA QuietEndSlots ==
  ASSUME PoolInv, SlotInv, NEW t \in Attempts,
         AcquireClosed(t) \/ Exhausted(t) \/ OpenSucceedsClosed(t) \/ OpenFails(t) \/ Cancelled(t)
  PROVE  SlotInv'
<1> USE DEF breakerVars, bucketVars
<1>1. CASE AcquireClosed(t)
  <2>1. t \notin Opening /\ attempts[t].pc = "acquire"
    BY <1>1 DEF AcquireClosed, Opening
  <2>2. "transient" \in Outcome
    BY DEF Outcome
  <2>3. QED
    BY <1>1, <2>1, <2>2, EndKeeps DEF AcquireClosed
<1>2. CASE Exhausted(t)
  <2>1. t \notin Opening /\ attempts[t].pc = "acquire"
    BY <1>2 DEF Exhausted, Opening
  <2>2. "transient" \in Outcome
    BY DEF Outcome
  <2>3. QED
    BY <1>2, <2>1, <2>2, EndKeeps DEF Exhausted, OnBucket
<1>3. CASE OpenSucceedsClosed(t)
  <2>1. t \notin Opening /\ attempts[t].pc = "open"
    BY <1>3 DEF OpenSucceedsClosed, Opening
  <2>2. "transient" \in Outcome
    BY DEF Outcome
  <2>3. QED
    BY <1>3, <2>1, <2>2, EndKeeps DEF OpenSucceedsClosed
<1>4. CASE OpenFails(t)
  <2>1. PICK kind \in {"transient", "other"} : attempts' = [attempts EXCEPT ![t] = EndedAs(t, kind)]
    BY <1>4 DEF OpenFails
  <2>2. kind \in Outcome
    BY DEF Outcome
  <2>3. /\ attempts[t].pc = "open" /\ (t \in Opening <=> ~attempts[t].orphan)
        /\ size' = IF attempts[t].orphan THEN size ELSE Dec(1)
    BY <1>4 DEF OpenFails, Opening
  <2>4. ASSUME ~drifted', t \in Opening
        PROVE  size' = size - 1
    <3>1. size = Cardinality(live) + Cardinality(Opening)
      BY <1>4, <2>4 DEF OpenFails, SlotInv, Counted
    <3>2. /\ IsFiniteSet(Opening) /\ Cardinality(Opening) \in Nat /\ Cardinality(live) \in Nat
      BY AttemptsFinite, LiveCount DEF PoolInv, TypeOK
    <3>3. Cardinality(Opening) # 0
      BY <2>4, <3>2, FS_EmptySet
    <3>4. QED
      BY <2>3, <2>4, <3>1, <3>2, <3>3 DEF Dec
  <2>5. QED
    BY <1>4, <2>1, <2>2, <2>3, <2>4, EndKeeps DEF OpenFails
<1>5. CASE Cancelled(t)
  <2>1. attempts[t].pc # "none" /\ "transient" \in Outcome
    BY <1>5 DEF Cancelled, Unfinished, Outcome
  <2>2. drifted' \/ t \notin Opening
    BY <1>5 DEF Cancelled, Opening
  <2>3. ~drifted' /\ attempts[t].pc = "invoke" /\ attempts[t].session \in live =>
           attempts[t].session \in calls[t[1]].held \cup discards
    BY <1>5 DEF Cancelled, SlotInv, Holding, OutOfLive
  <2>4. drifted => drifted'
    BY <1>5 DEF Cancelled
  <2>5. QED
    BY <1>5, <2>1, <2>2, <2>3, <2>4, EndKeeps DEF Cancelled
<1>6. QED
  BY <1>1, <1>2, <1>3, <1>4, <1>5

LEMMA ToolReturnsSlots ==
  ASSUME PoolInv, SlotInv, NEW t \in Attempts, ToolReturns(t)
  PROVE  SlotInv'
<1> DEFINE a == EndedAs(t, "ok")
<1>1. a.pc \notin {"invoke", "open", "drop", "close"} /\ a.pc \in Quiet /\ a.session = NoSession /\ a.orphan = FALSE
  <2>1. "ok" \in Outcome
    BY DEF Outcome
  <2>2. QED
    BY <2>1, EndedShape DEF Quiet, Outcome
<1>2. attempts' = [attempts EXCEPT ![t] = a]
  BY DEF ToolReturns
<1> HIDE DEF a
<1>3. PICK s \in Sessions : s = attempts[t].session
  BY DEF ToolReturns, PoolInv, HoldsSession
<1>4. /\ attempts[t].pc = "invoke" /\ ~attempts[t].orphan
      /\ idle' = idle \cup {s} /\ Untrack(t, s)
      /\ drifted' = (drifted \/ s \notin live \ discards)
      /\ UNCHANGED <<running, live, size, discards, hasBucket>>
  BY <1>3 DEF ToolReturns, breakerVars
<1>5. /\ t[1] \in Calls
      /\ \A c \in Calls : /\ calls'[c].pc = calls[c].pc /\ calls'[c].try = calls[c].try
                          /\ c # t[1] => calls'[c].held = calls[c].held
                          /\ calls'[t[1]].held = calls[t[1]].held \ {s}
  BY <1>4, TrackEffect, AttemptPair
<1>6. attempts'[t] = a /\ \A u \in Attempts \ {t} : attempts'[u] = attempts[u]
  BY <1>2, AttemptChange
<1>7. NoSession \notin live
  BY PoolAssumption DEF PoolInv, TypeOK
<1>8. Holding'
  <2>1. OutOfLive' /\ Closing' /\ BucketExists'
    BY <1>1, <1>2, <1>4, <1>7, BucketKept DEF SlotInv, Holding, BucketExists
  <2>2. Frames'
    <3>1. \A c \in Calls : ~Active(c) => calls'[c].held = calls[c].held
      BY <1>5 DEF SlotInv, Holding, Frames
    <3>2. QED
      BY <1>2, <1>4, <1>5, <3>1, FramesKept DEF SlotInv
  <2>3. InFlightOwn'
    <3>1. \A c \in Calls : calls'[c].held \subseteq calls[c].held /\ s \notin calls'[c].held
      BY <1>3, <1>5 DEF SlotInv, Holding, InFlightOwn
    <3>2. \A c \in Calls : NoSession \notin calls[c].held
      BY PoolAssumption DEF PoolInv, TypeOK, Call
    <3>3. QED
      BY <1>1, <1>4, <1>6, <3>1, <3>2 DEF SlotInv, Holding, InFlightOwn
  <2>4. QED
    BY <2>1, <2>2, <2>3 DEF Holding
<1>9. ASSUME ~drifted'
      PROVE  Counted' /\ Kept'
  <2>1. Counted /\ Kept /\ s \in live \ discards
    BY <1>4, <1>9 DEF SlotInv
  <2>2. Opening' = Opening
    BY <1>1, <1>2, <1>4, AttemptChange DEF Opening
  <2>3. Counted'
    BY <1>4, <2>1, <2>2 DEF Counted
  <2>4. \A x \in live' : x \notin live \/ x \in idle \ idle' \/ x = attempts[t].session => Located(x)'
    BY <1>3, <1>4 DEF Located
  <2>5. idle' \subseteq live' \ discards
    BY <1>4, <2>1 DEF Kept
  <2>6. Kept'
    <3>1. \A c \in Calls : calls[c].held \subseteq calls'[c].held \cup {attempts[t].session}
      BY <1>3, <1>5
    <3>2. Holding /\ discards' = discards /\ live \subseteq live'
      BY <1>4 DEF SlotInv
    <3>3. QED
      BY <1>1, <1>2, <1>5, <2>1, <2>4, <2>5, <3>1, <3>2, KeptKept
  <2>7. QED
    BY <2>3, <2>6
<1>10. QED
  BY <1>8, <1>9 DEF SlotInv

\* An attempt on a closed bucket, or one that has dropped its session, moves on
\* with nothing done to the bucket; it may give up its session.
LEMMA OutsideSlots ==
  ASSUME PoolInv, SlotInv, NEW t \in Attempts, NEW a, attempts' = [attempts EXCEPT ![t] = a],
         attempts[t].pc \notin {"none", "open"}, a.pc \notin {"invoke", "open"},
         attempts[t].session \notin live,
         UNCHANGED <<running, bucketVars, discards, hasBucket, drifted>>,
         UNCHANGED calls \/ Untrack(t, attempts[t].session),
         a.session \in {attempts[t].session, NoSession},
         a.pc = "close" => a.orphan,
         a.pc \notin Quiet /\ ~a.orphan => hasBucket
  PROVE  SlotInv'
<1>1. UNCHANGED <<running, idle, live, size, discards, hasBucket, drifted>>
  BY DEF bucketVars
<1>2. NoSession \notin live
  BY PoolAssumption DEF PoolInv, TypeOK
<1>3. \A c \in Calls : /\ calls'[c].pc = calls[c].pc /\ calls'[c].try = calls[c].try
                       /\ calls'[c].held \subseteq calls[c].held
                       /\ calls[c].held \subseteq calls'[c].held \cup {attempts[t].session}
  <2>1. CASE UNCHANGED calls
    BY <2>1
  <2>2. CASE Untrack(t, attempts[t].session)
    BY <2>2, TrackEffect
  <2>3. QED
    BY <2>1, <2>2
<1>4. Holding'
  <2>1. idle' \subseteq idle /\ live' \subseteq live /\ a.session \notin live'
    BY <1>1, <1>2
  <2>2. attempts[t].pc # "none" /\ UNCHANGED running /\ Holding
    BY <1>1 DEF SlotInv
  <2>3. (hasBucket => hasBucket') /\ (a.pc \notin Quiet /\ ~a.orphan => hasBucket')
    BY <1>1
  <2>4. a.orphan \/ a.pc \in {"drop", "close"} => a.session \notin live'
    BY <2>1
  <2>5. QED
    BY <1>3, <2>1, <2>2, <2>3, <2>4, HoldingKept
<1>5. ASSUME ~drifted'
      PROVE  Counted' /\ Kept'
  <2>1. Counted /\ Kept
    BY <1>1, <1>5 DEF SlotInv
  <2>2. Opening' = Opening
    BY AttemptChange DEF Opening
  <2>3. Counted'
    BY <1>1, <2>1, <2>2 DEF Counted
  <2>4. \A x \in live' : x \notin live \/ x \in idle \ idle' \/ x = attempts[t].session => Located(x)'
    BY <1>1
  <2>5. idle' \subseteq live' \ discards /\ live \subseteq live'
    BY <1>1, <2>1 DEF Kept
  <2>6. Kept'
    BY <1>1, <1>3, <2>1, <2>4, <2>5, KeptKept DEF SlotInv
  <2>7. QED
    BY <2>3, <2>6
<1>6. QED
  BY <1>4, <1>5 DEF SlotInv

\* release on a closed bucket, in its two steps.
LEMMA ReleaseSlots ==
  ASSUME PoolInv, SlotInv, NEW t \in Attempts, ToolReturnsClosed(t) \/ ReleaseCloses(t)
  PROVE  SlotInv'
<1>1. CASE ToolReturnsClosed(t)
  <2> DEFINE a == Goto(t, "close", attempts[t].session)
  <2>1. /\ attempts[t].pc = "invoke" /\ attempts[t].orphan /\ attempts' = [attempts EXCEPT ![t] = a]
        /\ UNCHANGED <<running, bucketVars, discards, hasBucket, drifted>> /\ UNCHANGED calls
    BY <1>1 DEF ToolReturnsClosed, breakerVars
  <2>2. a.pc = "close" /\ a.session = attempts[t].session /\ a.orphan = attempts[t].orphan
    <3>1. attempts[t].session \in Sessions \cup {NoSession}
      BY DEF PoolInv, TypeOK, Attempt
    <3>2. QED
      BY <3>1, GotoShape
  <2>3. attempts[t].session \notin live
    BY <2>1 DEF SlotInv, Holding, OutOfLive
  <2> HIDE DEF a
  <2>4. QED
    BY <2>1, <2>2, <2>3, OutsideSlots
<1>2. CASE ReleaseCloses(t)
  <2> DEFINE a == EndedAs(t, "ok")
  <2>1. /\ attempts[t].pc = "close" /\ attempts' = [attempts EXCEPT ![t] = a]
        /\ UNCHANGED <<running, bucketVars, discards, hasBucket, drifted>>
        /\ Untrack(t, attempts[t].session)
    BY <1>2 DEF ReleaseCloses, breakerVars
  <2>2. a.pc \in Quiet /\ a.session = NoSession
    <3>1. "ok" \in Outcome
      BY DEF Outcome
    <3>2. QED
      BY <3>1, EndedShape
  <2>3. attempts[t].session \notin live
    BY <2>1 DEF SlotInv, Holding, OutOfLive
  <2>4. a.pc \notin {"invoke", "open", "close"}
    BY <2>2 DEF Quiet, Outcome
  <2> HIDE DEF a
  <2>5. QED
    BY <2>1, <2>2, <2>3, <2>4, OutsideSlots
<1>3. QED
  BY <1>1, <1>2

LEMMA ToolRaisesSlots ==
  ASSUME PoolInv, SlotInv, NEW t \in Attempts, ToolRaises(t)
  PROVE  SlotInv'
<1> DEFINE a == Goto(t, "drop", attempts[t].session)
<1>1. PICK s \in Sessions : s = attempts[t].session
  BY DEF ToolRaises, PoolInv, HoldsSession
<1>2. a.pc = "drop" /\ a.session = s /\ a.orphan = attempts[t].orphan
  BY <1>1, GotoShape
<1>3. /\ attempts[t].pc = "invoke" /\ attempts' = [attempts EXCEPT ![t] = a]
      /\ UNCHANGED <<running, calls, discards, hasBucket>>
  BY DEF ToolRaises, breakerVars
<1> HIDE DEF a
<1>4. CASE attempts[t].orphan
  <2>1. s \notin live /\ UNCHANGED <<bucketVars, drifted>>
    BY <1>1, <1>4 DEF SlotInv, Holding, OutOfLive, ToolRaises
  <2>2. UNCHANGED <<running, bucketVars, discards, hasBucket, drifted>> /\ UNCHANGED calls
    BY <1>3, <2>1
  <2>3. QED
    BY <1>1, <1>2, <1>3, <1>4, <2>1, <2>2, OutsideSlots
<1>5. CASE ~attempts[t].orphan
  <2>1. DropFromBucket(s)
    BY <1>1, <1>5 DEF ToolRaises
  <2>2. live' = live \ {s} /\ idle' = idle \ {s}
    BY <2>1 DEF DropFromBucket
  <2>3. hasBucket
    BY <1>3, <1>5 DEF SlotInv, Holding, BucketExists, Quiet, Outcome
  <2>4. Holding'
    <3>1. idle' \subseteq idle /\ live' \subseteq live /\ s \notin live'
      BY <2>2
    <3>2. QED
      BY <1>1, <1>2, <1>3, <2>3, <3>1, HoldingKept DEF SlotInv
  <2>5. ASSUME ~drifted'
        PROVE  Counted' /\ Kept'
    <3>1. ~drifted
      BY <2>1, <2>5 DEF DropFromBucket
    <3>2. Counted /\ Kept
      BY <3>1 DEF SlotInv
    <3>3. size' = Cardinality(live') + Cardinality(Opening)
      BY <2>1, <2>5, <3>2, DropCount
    <3>4. Opening' = Opening
      BY <1>2, <1>3, AttemptChange DEF Opening
    <3>5. Counted'
      BY <3>3, <3>4 DEF Counted
    <3>6. \A x \in live' : x \notin live \/ x \in idle \ idle' \/ x = attempts[t].session => Located(x)'
      BY <1>1, <2>2
    <3>7. idle' \subseteq live' \ discards /\ live \subseteq live' \cup {s}
      BY <2>2, <3>2 DEF Kept
    <3>8. Kept'
      BY <1>1, <1>2, <1>3, <3>2, <3>6, <3>7, KeptKept DEF SlotInv
    <3>9. QED
      BY <3>5, <3>8
  <2>6. QED
    BY <2>4, <2>5 DEF SlotInv
<1>6. QED
  BY <1>4, <1>5

\* The dropped session is closed: the attempt ends, or purges the idle ones and
\* acquires once more.
LEMMA DropClosesSlots ==
  ASSUME PoolInv, SlotInv, NEW t \in Attempts, DropCloses(t)
  PROVE  SlotInv'
<1>1. /\ attempts[t].pc = "drop" /\ attempts[t].session \notin live
      /\ Untrack(t, attempts[t].session)
      /\ UNCHANGED <<running, discards, hasBucket, drifted>>
  BY DEF DropCloses, breakerVars, SlotInv, Holding, OutOfLive
<1>2. ASSUME ~attempts[t].reused
      PROVE  SlotInv'
  <2>1. PICK kind \in {"transient", "other"} : attempts' = [attempts EXCEPT ![t] = EndedAs(t, kind)]
    BY <1>2 DEF DropCloses
  <2> DEFINE a == EndedAs(t, kind)
  <2>2. a.pc \in Quiet /\ a.session = NoSession
    BY EndedShape DEF Outcome
  <2>3. a.pc \notin {"invoke", "open", "close"}
    BY <2>2 DEF Quiet, Outcome
  <2>4. attempts' = [attempts EXCEPT ![t] = a] /\ UNCHANGED bucketVars
    BY <1>2, <2>1 DEF DropCloses
  <2> HIDE DEF a
  <2>5. QED
    BY <1>1, <2>2, <2>3, <2>4, OutsideSlots
<1>3. ASSUME attempts[t].reused
      PROVE  SlotInv'
  <2> DEFINE a == [Goto(t, "acquire", NoSession) EXCEPT !.reused = FALSE, !.retried = TRUE]
  <2>1. a.pc = "acquire" /\ a.session = NoSession /\ a.orphan = attempts[t].orphan
    BY GotoShape DEF Goto
  <2>2. attempts' = [attempts EXCEPT ![t] = a]
    BY <1>3 DEF DropCloses
  <2> HIDE DEF a
  <2>3. attempts[t].orphan \/ hasBucket
    BY <1>1 DEF SlotInv, Holding, BucketExists, Quiet, Outcome
  <2>4. CASE attempts[t].orphan
    <3>1. UNCHANGED bucketVars
      BY <1>3, <2>4 DEF DropCloses
    <3>2. QED
      BY <1>1, <2>1, <2>2, <2>4, <3>1, OutsideSlots
  <2>5. CASE ~attempts[t].orphan
    <3>1. live' = live \ idle /\ idle' = {} /\ size' = Dec(Cardinality(idle))
      BY <1>3, <2>5 DEF DropCloses
    <3>2. \A c \in Calls : /\ calls'[c].pc = calls[c].pc /\ calls'[c].try = calls[c].try
                           /\ calls'[c].held \subseteq calls[c].held
                           /\ calls[c].held \subseteq calls'[c].held \cup {attempts[t].session}
      BY <1>1, TrackEffect
    <3>3. Holding'
      <4>1. attempts[t].pc # "none" /\ UNCHANGED running /\ Holding
        BY <1>1 DEF SlotInv
      <4>2. (hasBucket => hasBucket') /\ (a.pc \notin Quiet /\ ~a.orphan => hasBucket')
        BY <1>1, <2>3, <2>5
      <4>3. idle' \subseteq idle /\ live' \subseteq live
        BY <3>1
      <4>4. QED
        BY <2>1, <2>2, <2>5, <3>2, <4>1, <4>2, <4>3, HoldingKept
    <3>4. ASSUME ~drifted'
          PROVE  Counted' /\ Kept'
      <4>1. Counted /\ Kept
        BY <1>1, <3>4 DEF SlotInv
      <4>2. Opening' = Opening
        BY <1>1, <2>1, <2>2, AttemptChange DEF Opening
      <4>3. /\ Cardinality(Opening) \in Nat /\ Cardinality(live) \in Nat
            /\ IsFiniteSet(live)
        BY AttemptsFinite, LiveCount DEF PoolInv, TypeOK
      <4>4. /\ IsFiniteSet(live \ idle)
            /\ Cardinality(live \ idle) = Cardinality(live) - Cardinality(live \cap idle)
        BY <4>3, FS_Difference
      <4>5. live \cap idle = idle /\ Cardinality(live \ idle) \in Nat /\ Cardinality(idle) \in Nat
        BY <4>1, <4>4, IdleCount, FS_CardinalityType DEF Kept, PoolInv, TypeOK
      <4>6. size' = Cardinality(live') + Cardinality(Opening)
        <5>1. size = Cardinality(live) + Cardinality(Opening)
          BY <4>1 DEF Counted
        <5>2. Cardinality(live') = Cardinality(live) - Cardinality(idle)
          BY <3>1, <4>4, <4>5
        <5>3. Cardinality(live') \in Nat
          BY <3>1, <4>5
        <5>4. QED
          BY <3>1, <4>3, <4>5, <5>1, <5>2, <5>3 DEF Dec
      <4>7. Counted'
        BY <4>2, <4>6 DEF Counted
      <4>8. \A x \in live' : x \notin live \/ x \in idle \ idle' \/ x = attempts[t].session => Located(x)'
        BY <1>1, <3>1
      <4>9. idle' \subseteq live' \ discards /\ live \subseteq live' \cup idle
        BY <3>1
      <4>10. Kept'
        <5>1. discards' = discards /\ Holding
          BY <1>1 DEF SlotInv
        <5>2. QED
          BY <2>1, <2>2, <3>2, <4>1, <4>8, <4>9, <5>1, KeptKept
      <4>11. QED
        BY <4>7, <4>10
    <3>5. QED
      BY <3>3, <3>4 DEF SlotInv
  <2>6. QED
    BY <2>4, <2>5
<1>4. QED
  BY <1>2, <1>3

\* A call moves: it creates, forgets and cancels attempts that are not at work.
Undisturbed(t) == \/ /\ attempts'[t].pc = attempts[t].pc
                     /\ attempts'[t].session = attempts[t].session
                     /\ attempts'[t].orphan = attempts[t].orphan
                  \/ /\ {attempts[t].pc, attempts'[t].pc} \subseteq Quiet
                     /\ attempts'[t].session = NoSession /\ attempts'[t].orphan = FALSE

LEMMA CallMoves ==
  ASSUME PoolInv, SlotInv, NEW c \in Calls, NEW k \in Call, calls' = [calls EXCEPT ![c] = k],
         \A t \in Attempts : Undisturbed(t),
         UNCHANGED <<bucketVars, hasBucket>>, drifted => drifted',
         \A d \in Calls \ {c} : d \in running => d \in running',
         k.pc # "ready" => c \in running',
         k.pc = "ready" => k.held = {},
         k.held \subseteq calls[c].held,
         \A t \in Attempts : t[1] = c /\ k.pc # "ready" /\ t[2] > k.try => attempts'[t].pc = "none",
         \A t \in Attempts : t[1] # c => attempts'[t].pc = attempts[t].pc,
         k.pc = "await" => attempts'[<<c, k.try>>].pc # "invoke",
         discards \subseteq discards', discards' \subseteq discards \cup calls[c].held,
         ~drifted' => calls[c].held \cap live \subseteq k.held \cup discards'
  PROVE  SlotInv'
<1>1. calls'[c] = k /\ \A d \in Calls \ {c} : calls'[d] = calls[d]
  BY DEF PoolInv, TypeOK
<1>2. UNCHANGED <<idle, live, size>> /\ hasBucket' = hasBucket
  BY DEF bucketVars
<1>3. NoSession \notin live /\ \A d \in Calls : NoSession \notin calls[d].held
  BY PoolAssumption DEF PoolInv, TypeOK, Call
<1>4. \A x : x \in Quiet => x \notin {"invoke", "open", "drop", "close"}
  BY DEF Quiet, Outcome
<1>5. \A t \in Attempts : /\ attempts'[t].pc = "invoke" <=> attempts[t].pc = "invoke"
                          /\ attempts'[t].pc = "invoke" => /\ attempts'[t].session = attempts[t].session
                                                           /\ attempts'[t].orphan = attempts[t].orphan
  BY <1>4 DEF Undisturbed
<1>6. Opening' = Opening
  BY <1>4 DEF Undisturbed, Opening
<1>7. Holding'
  <2>1. OutOfLive' /\ Closing'
    BY <1>2, <1>3, <1>4 DEF Undisturbed, SlotInv, Holding, OutOfLive, Closing
  <2>2. BucketExists'
    BY <1>2 DEF Undisturbed, SlotInv, Holding, BucketExists
  <2>3. Frames'
    <3>1. ASSUME NEW t \in Attempts, Active(t[1])', t[2] > calls'[t[1]].try
          PROVE  attempts'[t].pc = "none"
      <4>1. CASE t[1] = c
        BY <1>1, <3>1, <4>1 DEF Active
      <4>2. CASE t[1] # c
        BY <1>1, <3>1, <4>2, AttemptPair DEF Active, SlotInv, Holding, Frames
      <4>3. QED
        BY <4>1, <4>2
    <3>2. \A d \in Calls : (Active(d)' => d \in running') /\ (~Active(d)' => calls'[d].held = {})
      BY <1>1 DEF Active, SlotInv, Holding, Frames
    <3>3. QED
      BY <3>1, <3>2 DEF Frames
  <2>4. InFlightOwn'
    <3>1. \A d \in Calls : calls'[d].held \subseteq calls[d].held
      BY <1>1
    <3>2. \A t \in Attempts : attempts'[t].session \in {attempts[t].session, NoSession}
      BY DEF Undisturbed
    <3>3. QED
      BY <1>2, <1>3, <3>1, <3>2 DEF SlotInv, Holding, InFlightOwn
  <2>5. QED
    BY <2>1, <2>2, <2>3, <2>4 DEF Holding
<1>8. ASSUME ~drifted'
      PROVE  Counted' /\ Kept'
  <2>1. Counted /\ Kept
    BY <1>8 DEF SlotInv
  <2>2. Counted'
    BY <1>2, <1>6, <2>1 DEF Counted
  <2>3. idle' \subseteq live' \ discards'
    BY <1>2, <2>1 DEF Kept, SlotInv, Holding, InFlightOwn
  <2>4. ASSUME NEW s \in live
        PROVE  Located(s)'
    <3>1. Located(s)
      BY <2>1 DEF Kept
    <3>2. CASE s \in idle \cup discards
      BY <1>2, <3>2 DEF Located
    <3>3. CASE \E t \in Attempts : attempts[t].pc = "invoke" /\ attempts[t].session = s
      BY <1>5, <3>3 DEF Located
    <3>4. CASE \E d \in Calls : s \in calls[d].held
      BY <1>1, <1>8, <3>4 DEF Located
    <3>5. QED
      BY <3>1, <3>2, <3>3, <3>4 DEF Located
  <2>5. ASSUME NEW t \in Attempts, Awaited(t)', attempts'[t].pc = "invoke", ~attempts'[t].orphan
        PROVE  attempts'[t].session \in live' \ discards'
    <3>1. t[1] # c
      BY <1>1, <2>5 DEF Awaited, Current
    <3>2. Awaited(t) /\ attempts[t].pc = "invoke" /\ ~attempts[t].orphan /\ attempts'[t].session = attempts[t].session
      BY <1>1, <1>5, <2>5, <3>1, AttemptPair DEF Awaited, Current
    <3>3. attempts[t].session \in live \ discards
      BY <2>1, <3>2 DEF Kept
    <3>4. attempts[t].session \notin calls[c].held
      BY <3>1 DEF SlotInv, Holding, InFlightOwn
    <3>5. QED
      BY <1>2, <3>2, <3>3, <3>4
  <2>6. Kept'
    BY <1>2, <2>3, <2>4, <2>5 DEF Kept
  <2>7. QED
    BY <2>2, <2>6
<1>9. QED
  BY <1>7, <1>8 DEF SlotInv

LEMMA CallToolSlots ==
  ASSUME PoolInv, SlotInv, NEW c \in Calls, CallTool(c)
  PROVE  SlotInv'
<1> DEFINE k == [Ready EXCEPT !.pc = "await"]
           a == [NoAttempt EXCEPT !.pc = "spawned"]
<1>1. k \in Call /\ k.pc = "await" /\ k.try = 0 /\ k.held = {}
  BY DEF Ready, Call
<1>2. a.pc = "spawned" /\ a.session = NoSession /\ a.orphan = FALSE
  BY DEF NoAttempt
<1>3. /\ calls' = [calls EXCEPT ![c] = k] /\ attempts' = [attempts EXCEPT ![<<c, 0>>] = a]
      /\ \A t \in Attempts : t[1] = c => attempts[t].pc = "none"
      /\ c \notin running /\ running' = running \cup {c}
      /\ UNCHANGED <<bucketVars, hasBucket>> /\ UNCHANGED <<discards, drifted>>
  BY DEF CallTool, Admit
<1> HIDE DEF k, a
<1>4. <<c, 0>> \in Attempts
  BY AttemptFacts, PoolAssumption
<1>5. attempts'[<<c, 0>>] = a /\ \A t \in Attempts \ {<<c, 0>>} : attempts'[t] = attempts[t]
  BY <1>3, <1>4, AttemptChange
<1>6. \A t \in Attempts : Undisturbed(t)
  BY <1>2, <1>3, <1>4, <1>5 DEF Undisturbed, Quiet
<1>7. calls[c].held = {}
  BY <1>3 DEF SlotInv, Holding, Frames
<1>8. \A t \in Attempts : /\ t[1] = c /\ t[2] > 0 => attempts'[t].pc = "none"
                          /\ t[1] # c => attempts'[t].pc = attempts[t].pc
  BY <1>3, <1>5
<1>9. c \in running' /\ \A d \in Calls : d \in running => d \in running'
  BY <1>3
<1>10. k.pc = "await" => attempts'[<<c, k.try>>].pc # "invoke"
  BY <1>1, <1>2, <1>5
<1>11. /\ drifted => drifted'
       /\ discards \subseteq discards' /\ discards' \subseteq discards \cup calls[c].held
       /\ calls[c].held \cap live \subseteq k.held \cup discards'
  BY <1>3, <1>7
<1>12. \A t \in Attempts : t[1] = c /\ k.pc # "ready" /\ t[2] > k.try => attempts'[t].pc = "none"
  BY <1>1, <1>8
<1>13. UNCHANGED <<bucketVars, hasBucket>> /\ k.held \subseteq calls[c].held
  BY <1>1, <1>3
<1>14. calls' = [calls EXCEPT ![c] = k]
  BY <1>3
<1>15. \A t \in Attempts : t[1] # c => attempts'[t].pc = attempts[t].pc
  BY <1>8
<1>16. k \in Call /\ (k.pc = "ready" => k.held = {})
  BY <1>1
<1>17. /\ \A d \in Calls \ {c} : d \in running => d \in running'
       /\ k.pc # "ready" => c \in running'
       /\ ~drifted' => calls[c].held \cap live \subseteq k.held \cup discards'
  BY <1>9, <1>11
<1>18. QED
  BY <1>6, <1>10, <1>11, <1>12, <1>13, <1>14, <1>15, <1>16, <1>17, CallMoves

\* The attempts after a call has forgotten its current one, if that is over.
Forgotten(c, f) == \/ f = attempts
                   \/ Finished(Current(c)) /\ f = [attempts EXCEPT ![Current(c)] = NoAttempt]

LEMMA ForgottenFacts ==
  ASSUME PoolInv, NEW c \in Calls, NEW f, Forgotten(c, f)
  PROVE  /\ Current(c) \in Attempts /\ DOMAIN f = Attempts /\ f \in [Attempts -> Attempt]
         /\ \A t \in Attempts \ {Current(c)} : f[t] = attempts[t]
         /\ \A t \in Attempts : \/ f[t] = attempts[t]
                                \/ f[t] = NoAttempt /\ attempts[t].pc \in Quiet
<1>1. Current(c) \in Attempts
  BY AttemptFacts, PoolAssumption DEF PoolInv, TypeOK, Call, Current
<1>2. attempts \in [Attempts -> Attempt] /\ NoAttempt \in Attempt
  BY RecordFacts DEF PoolInv, TypeOK
<1>3. QED
  BY <1>1, <1>2 DEF Forgotten, Finished, Quiet

LEMMA NextAttemptSlots ==
  ASSUME PoolInv, SlotInv, NEW c \in Calls, Active(c), NEW f, Forgotten(c, f), NextAttempt(c, f)
  PROVE  SlotInv'
<1> DEFINE k == [calls[c] EXCEPT !.pc = "await", !.try = @ + 1]
           a == [NoAttempt EXCEPT !.pc = "spawned"]
           n == <<c, calls[c].try + 1>>
<1>1. calls[c] \in Call
  BY DEF PoolInv, TypeOK
<1>2. k \in Call /\ k.pc = "await" /\ k.try = calls[c].try + 1 /\ k.held = calls[c].held
  <2>1. \A r \in Call : /\ [r EXCEPT !.pc = "await", !.try = @ + 1].pc = "await"
                        /\ [r EXCEPT !.pc = "await", !.try = @ + 1].try = r.try + 1
                        /\ [r EXCEPT !.pc = "await", !.try = @ + 1].held = r.held
                        /\ r.try + 1 \in Nat
    BY DEF Call
  <2>2. ASSUME NEW r \in Call
        PROVE  [r EXCEPT !.pc = "await", !.try = @ + 1] \in Call
    <3>1. "await" \in {"ready", "await", "grace"} /\ r.try + 1 \in Nat
      BY <2>2 DEF Call
    <3>2. QED
      BY <2>2, <3>1, Zenon DEF Call
  <2>3. QED
    BY <1>1, <2>1, <2>2
<1>3. a.pc = "spawned" /\ a.session = NoSession /\ a.orphan = FALSE
  BY DEF NoAttempt
<1>4. /\ attempts' = [f EXCEPT ![n] = a]
      /\ UNCHANGED <<bucketVars, hasBucket>> /\ UNCHANGED <<running, discards, drifted>>
  BY DEF NextAttempt, breakerVars
<1>5. calls' = [calls EXCEPT ![c] = k]
  BY DEF NextAttempt
<1>6. n \in Attempts /\ n # Current(c)
  <2>1. calls[c].try + 1 \in 0 .. RetryCount[c] /\ calls[c].try # calls[c].try + 1
    BY <1>1, PoolAssumption DEF NextAttempt, Call
  <2>2. QED
    BY <2>1, AttemptFacts DEF Current
<1>7. /\ \A t \in Attempts \ {Current(c)} : f[t] = attempts[t]
      /\ \A t \in Attempts : f[t] = attempts[t] \/ (f[t] = NoAttempt /\ attempts[t].pc \in Quiet)
      /\ f \in [Attempts -> Attempt]
  BY ForgottenFacts
<1>8. n[1] = c /\ n[2] = calls[c].try + 1 /\ k.try = n[2] /\ n = <<c, k.try>>
  BY <1>2
<1> HIDE DEF k, a, n
<1>9. attempts'[n] = a /\ \A t \in Attempts \ {n} : attempts'[t] = f[t]
  BY <1>4, <1>6, <1>7
<1>10. attempts[n].pc = "none"
  BY <1>1, <1>6, <1>8 DEF Call, SlotInv, Holding, Frames
<1>11. \A t \in Attempts : Undisturbed(t)
  <2>1. NoAttempt.pc \in Quiet /\ NoAttempt.session = NoSession /\ NoAttempt.orphan = FALSE
    BY DEF NoAttempt, Quiet
  <2>2. "none" \in Quiet /\ "spawned" \in Quiet
    BY DEF Quiet
  <2>3. ASSUME NEW t \in Attempts
        PROVE  Undisturbed(t)
    <3>1. CASE t = n
      BY <1>3, <1>9, <1>10, <2>2, <3>1 DEF Undisturbed
    <3>2. CASE t # n
      BY <1>7, <1>9, <2>1, <3>2 DEF Undisturbed
    <3>3. QED
      BY <3>1, <3>2
  <2>4. QED
    BY <2>3
<1>12. \A t \in Attempts : t[1] = c /\ t[2] > k.try => attempts'[t].pc = "none"
  <2>1. ASSUME NEW t \in Attempts, t[1] = c, t[2] > k.try
        PROVE  attempts'[t].pc = "none"
    <3>1. t[2] > calls[c].try /\ t # n /\ t # Current(c)
      BY <1>1, <1>2, <1>8, <2>1, AttemptPair DEF Call, Current
    <3>2. attempts'[t] = attempts[t]
      BY <1>7, <1>9, <3>1
    <3>3. QED
      BY <2>1, <3>1, <3>2 DEF SlotInv, Holding, Frames
  <2>2. QED
    BY <2>1
<1>13. \A t \in Attempts : t[1] # c => attempts'[t].pc = attempts[t].pc
  BY <1>7, <1>8, <1>9 DEF Current
<1>14. c \in running
  BY DEF SlotInv, Holding, Frames
<1>15. QED
  <2>1. k.pc # "ready" /\ attempts'[<<c, k.try>>].pc # "invoke"
    BY <1>2, <1>3, <1>8, <1>9
  <2>2. k.held \subseteq calls[c].held /\ calls[c].held \cap live \subseteq k.held \cup discards'
    BY <1>2
  <2>3. c \in running' /\ (\A d \in Calls : d \in running => d \in running')
    BY <1>4, <1>14
  <2>4. /\ drifted => drifted'
        /\ discards \subseteq discards' /\ discards' \subseteq discards \cup calls[c].held
        /\ UNCHANGED <<bucketVars, hasBucket>>
    BY <1>4
  <2>5. QED
    BY <1>2, <1>5, <1>11, <1>12, <1>13, <2>1, <2>2, <2>3, <2>4, CallMoves

\* A call ends: with its sessions discarded, or with none in flight, or drifting.
LEMMA CallEndSlots ==
  ASSUME PoolInv, SlotInv, NEW c \in Calls, NEW f, Forgotten(c, f),
         RaiseUnavailable(c, f) \/ (LeaveCall(c, f) /\ (Succeed(c) \/ Escape(c)))
  PROVE  SlotInv'
<1>1. Ready \in Call /\ Ready.pc = "ready" /\ Ready.held = {}
  BY DEF Ready, Call
<1>2. /\ calls' = [calls EXCEPT ![c] = Ready] /\ attempts' = f
      /\ UNCHANGED <<bucketVars, hasBucket>> /\ (drifted => drifted')
  <2>1. CASE RaiseUnavailable(c, f)
    BY <2>1 DEF RaiseUnavailable
  <2>2. CASE LeaveCall(c, f)
    BY <2>2 DEF LeaveCall
  <2>3. QED
    BY <2>1, <2>2
<1>3. \A d \in Calls \ {c} : d \in running => d \in running'
  BY DEF RaiseUnavailable, Fail, Succeed, Escape
<1>4. /\ discards \subseteq discards' /\ discards' \subseteq discards \cup calls[c].held
      /\ ~drifted' => calls[c].held \cap live \subseteq Ready.held \cup discards'
  <2>1. CASE RaiseUnavailable(c, f)
    BY <2>1 DEF RaiseUnavailable, SlotInv, Holding, BucketExists
  <2>2. CASE LeaveCall(c, f)
    BY <2>2 DEF LeaveCall
  <2>3. QED
    BY <2>1, <2>2
<1>5. \A t \in Attempts : Undisturbed(t)
  <2>1. NoAttempt.pc \in Quiet /\ NoAttempt.session = NoSession /\ NoAttempt.orphan = FALSE
    BY DEF NoAttempt, Quiet
  <2>2. ASSUME NEW t \in Attempts
        PROVE  attempts'[t] = attempts[t] \/ (attempts'[t] = NoAttempt /\ attempts[t].pc \in Quiet)
    BY <1>2, ForgottenFacts
  <2>3. QED
    BY <2>1, <2>2 DEF Undisturbed
<1>6. \A t \in Attempts : t[1] # c => attempts'[t].pc = attempts[t].pc
  <2>1. \A t \in Attempts : t[1] # c => t # Current(c)
    BY DEF Current
  <2>2. \A t \in Attempts \ {Current(c)} : f[t] = attempts[t]
    BY ForgottenFacts
  <2>3. QED
    BY <1>2, <2>1, <2>2
<1>7. /\ Ready.pc # "ready" => c \in running'
      /\ Ready.held \subseteq calls[c].held
      /\ Ready.pc = "await" => attempts'[<<c, Ready.try>>].pc # "invoke"
      /\ \A t \in Attempts : t[1] = c /\ Ready.pc # "ready" /\ t[2] > Ready.try => attempts'[t].pc = "none"
  BY <1>1
<1>8. QED
  <2>1. /\ Ready.pc = "ready" => Ready.held = {}
        /\ discards \subseteq discards' /\ discards' \subseteq discards \cup calls[c].held
        /\ UNCHANGED <<bucketVars, hasBucket>> /\ (drifted => drifted')
    BY <1>1, <1>2, <1>4
  <2>2. Ready \in Call /\ calls' = [calls EXCEPT ![c] = Ready]
    BY <1>1, <1>2
  <2>3. ~drifted' => calls[c].held \cap live \subseteq Ready.held \cup discards'
    BY <1>4
  <2>4. QED
    BY <1>3, <1>5, <1>6, <1>7, <2>1, <2>2, <2>3, CallMoves

LEMMA TimerExpiresSlots ==
  ASSUME PoolInv, SlotInv, NEW c \in Calls, TimerExpires(c)
  PROVE  SlotInv'
<1> DEFINE k == [calls[c] EXCEPT !.pc = "grace"]
<1>1. calls[c] \in Call
  BY DEF PoolInv, TypeOK
<1>2. k \in Call /\ k.pc = "grace" /\ k.try = calls[c].try /\ k.held = calls[c].held
  BY <1>1 DEF Call
<1>3. /\ calls' = [calls EXCEPT ![c] = k]
      /\ calls[c].pc = "await" /\ attempts' = [attempts EXCEPT ![Current(c)].cancelled = TRUE]
      /\ UNCHANGED <<bucketVars, hasBucket>> /\ UNCHANGED <<running, discards, drifted>>
  BY DEF TimerExpires, breakerVars
<1> HIDE DEF k
<1>4. \A t \in Attempts : /\ attempts'[t].pc = attempts[t].pc
                          /\ attempts'[t].session = attempts[t].session
                          /\ attempts'[t].orphan = attempts[t].orphan
  <2>1. \A b \in Attempt : /\ [b EXCEPT !.cancelled = TRUE].pc = b.pc
                           /\ [b EXCEPT !.cancelled = TRUE].session = b.session
                           /\ [b EXCEPT !.cancelled = TRUE].orphan = b.orphan
    BY DEF Attempt
  <2>2. attempts' = [attempts EXCEPT ![Current(c)] = [attempts[Current(c)] EXCEPT !.cancelled = TRUE]]
    BY <1>3
  <2>3. \A t \in Attempts : attempts'[t] \in {attempts[t], [attempts[t] EXCEPT !.cancelled = TRUE]}
    BY <2>2 DEF PoolInv, TypeOK
  <2>4. \A t \in Attempts : attempts[t] \in Attempt
    BY DEF PoolInv, TypeOK
  <2>5. QED
    BY <2>1, <2>3, <2>4
<1>5. \A t \in Attempts : Undisturbed(t)
  BY <1>4 DEF Undisturbed
<1>6. Active(c) /\ c \in running
  BY <1>3 DEF Active, SlotInv, Holding, Frames
<1>7. /\ \A t \in Attempts : t[1] = c /\ k.pc # "ready" /\ t[2] > k.try => attempts'[t].pc = "none"
      /\ \A t \in Attempts : t[1] # c => attempts'[t].pc = attempts[t].pc
  BY <1>2, <1>4, <1>6 DEF SlotInv, Holding, Frames
<1>8. /\ \A d \in Calls \ {c} : d \in running => d \in running'
      /\ k.pc # "ready" => c \in running'
      /\ k.pc = "ready" => k.held = {}
      /\ k.held \subseteq calls[c].held
      /\ k.pc = "await" => attempts'[<<c, k.try>>].pc # "invoke"
  BY <1>2, <1>3, <1>6
<1>9. /\ discards \subseteq discards' /\ discards' \subseteq discards \cup calls[c].held
      /\ ~drifted' => calls[c].held \cap live \subseteq k.held \cup discards'
      /\ drifted => drifted'
  BY <1>2, <1>3
<1>10. UNCHANGED <<bucketVars, hasBucket>> /\ calls' = [calls EXCEPT ![c] = k] /\ k \in Call
  BY <1>2, <1>3
<1>11. QED
  BY <1>5, <1>7, <1>8, <1>9, <1>10, CallMoves

LEMMA CallStepSlots ==
  ASSUME PoolInv, SlotInv, NEW c \in Calls, CallTool(c) \/ CallStep(c) \/ CallerCancelled(c)
  PROVE  SlotInv'
<1> DEFINE forgotten == [attempts EXCEPT ![Current(c)] = NoAttempt]
<1>1. CASE ReadResult(c)
  <2>1. Forgotten(c, forgotten) /\ Active(c)
    BY <1>1 DEF ReadResult, Forgotten, Active
  <2>2. NextAttempt(c, forgotten) \/ RaiseUnavailable(c, forgotten)
          \/ (LeaveCall(c, forgotten) /\ (Succeed(c) \/ Escape(c)))
    BY <1>1 DEF ReadResult
  <2> HIDE DEF forgotten
  <2>3. QED
    BY <2>1, <2>2, NextAttemptSlots, CallEndSlots
<1>2. CASE GraceEnds(c)
  <2>1. Forgotten(c, attempts) /\ Active(c)
    BY <1>2 DEF GraceEnds, Forgotten, Active
  <2>2. NextAttempt(c, attempts) \/ RaiseUnavailable(c, attempts)
    BY <1>2 DEF GraceEnds
  <2>3. QED
    BY <2>1, <2>2, NextAttemptSlots, CallEndSlots
<1>3. CASE CallerCancelled(c)
  <2>1. Escape(c) /\ \E f \in {attempts, forgotten} : Forgotten(c, f) /\ LeaveCall(c, f)
    BY <1>3 DEF CallerCancelled, Forgotten
  <2> HIDE DEF forgotten
  <2>2. QED
    BY <2>1, CallEndSlots
<1>4. QED
  BY <1>1, <1>2, <1>3, CallToolSlots, TimerExpiresSlots DEF CallStep

LEMMA AttemptStepSlots ==
  ASSUME PoolInv, SlotInv, NEW t \in Attempts, AttemptStep(t)
  PROVE  SlotInv'
BY QuietEndSlots, ReserveSlotSlots, WaitSlots, TakeIdleSlots, OpenSucceedsSlots, ToolReturnsSlots,
   ReleaseSlots, ToolRaisesSlots, DropClosesSlots DEF AttemptStep

LEMMA DiscardRunsSlots ==
  ASSUME PoolInv, SlotInv, NEW s \in Sessions, DiscardRuns(s)
  PROVE  SlotInv'
<1>1. /\ s \in discards /\ DropFromBucket(s) /\ discards' = discards \ {s}
      /\ live' = live \ {s} /\ idle' = idle \ {s}
      /\ UNCHANGED <<running, calls, attempts, hasBucket>>
  BY DEF DiscardRuns, DropFromBucket, breakerVars
<1>2. Opening' = Opening
  BY <1>1 DEF Opening
<1>3. Holding'
  <2>1. OutOfLive' /\ Closing' /\ BucketExists'
    BY <1>1 DEF SlotInv, Holding, OutOfLive, Closing, BucketExists
  <2>2. Frames' /\ InFlightOwn'
    BY <1>1 DEF SlotInv, Holding, Frames, InFlightOwn, Active
  <2>3. QED
    BY <2>1, <2>2 DEF Holding
<1>4. ASSUME ~drifted'
      PROVE  Counted' /\ Kept'
  <2>1. ~drifted
    BY <1>1, <1>4 DEF DropFromBucket
  <2>2. Counted /\ Kept
    BY <2>1 DEF SlotInv
  <2>3. size' = Cardinality(live') + Cardinality(Opening)
    BY <1>1, <1>4, <2>2, DropCount
  <2>4. Counted'
    BY <1>2, <2>3 DEF Counted
  <2>5. idle' \subseteq live' \ discards'
    BY <1>1, <2>2 DEF Kept
  <2>6. ASSUME NEW x \in live, x # s
        PROVE  Located(x)'
    BY <1>1, <2>2, <2>6 DEF Kept, Located
  <2>7. \A t \in Attempts : Awaited(t)' /\ attempts'[t].pc = "invoke" /\ ~attempts'[t].orphan
                               => attempts'[t].session \in live' \ discards'
    BY <1>1, <2>2 DEF Kept, Awaited, Current
  <2>8. Kept'
    BY <1>1, <2>5, <2>6, <2>7 DEF Kept
  <2>9. QED
    BY <2>4, <2>8
<1>5. QED
  BY <1>3, <1>4 DEF SlotInv

LEMMA ClosePoolSlots ==
  ASSUME PoolInv, SlotInv, ClosePool
  PROVE  SlotInv'
<1>1. /\ idle' = {} /\ live' = {} /\ size' = 0 /\ discards' = {}
      /\ UNCHANGED <<running, calls, drifted>>
  BY DEF ClosePool, breakerVars
<1>2. \A t \in Attempts : /\ attempts'[t].pc = attempts[t].pc
                          /\ attempts'[t].session = attempts[t].session
                          /\ attempts[t].orphan => attempts'[t].orphan
                          /\ attempts'[t].pc \notin Quiet => attempts'[t].orphan
  BY DEF ClosePool, PoolInv, TypeOK, Attempt, Unfinished, Finished, Quiet
<1>3. Opening' = {}
  BY <1>2 DEF Opening, Quiet, Outcome
<1>4. Holding'
  <2>1. OutOfLive' /\ BucketExists'
    BY <1>1, <1>2 DEF OutOfLive, BucketExists
  <2>2. Closing'
    BY <1>2 DEF SlotInv, Holding, Closing
  <2>3. Frames' /\ InFlightOwn'
    BY <1>1, <1>2 DEF SlotInv, Holding, Frames, InFlightOwn, Active
  <2>4. QED
    BY <2>1, <2>2, <2>3 DEF Holding
<1>5. Counted'
  BY <1>1, <1>3, FS_EmptySet DEF Counted
<1>6. Kept'
  BY <1>1, <1>2 DEF Kept, Quiet, Outcome
<1>7. QED
  BY <1>4, <1>5, <1>6 DEF SlotInv

LEMMA SlotInvInit == Init => SlotInv
<1>1. \A t \in Attempts : [u \in Attempts |-> NoAttempt][t] = NoAttempt
  OBVIOUS
<1>2. ASSUME Init
      PROVE  Holding
  BY <1>1, <1>2 DEF Init, Holding, OutOfLive, Closing, BucketExists, Frames, InFlightOwn, Active,
                    NoAttempt, Ready, Quiet
<1>3. ASSUME Init
      PROVE  Counted /\ Kept
  <2>1. Opening = {}
    BY <1>1, <1>3 DEF Init, Opening, NoAttempt
  <2>2. Counted
    BY <1>3, <2>1, FS_EmptySet DEF Init, Counted
  <2>3. Kept
    BY <1>1, <1>3 DEF Init, Kept, NoAttempt
  <2>4. QED
    BY <2>2, <2>3
<1>4. QED
  BY <1>2, <1>3 DEF SlotInv

LEMMA SlotInvNext == PoolInv /\ SlotInv /\ [Next]_vars => SlotInv'
<1> SUFFICES ASSUME PoolInv, SlotInv, [Next]_vars
             PROVE  SlotInv'
  OBVIOUS
<1>1. ASSUME UNCHANGED poolVars, UNCHANGED running
      PROVE  SlotInv'
  BY <1>1 DEF poolVars, SlotInv, Holding, OutOfLive, Closing, BucketExists, Frames, InFlightOwn, Active,
              Counted, Opening, Kept, Located, Awaited, Current
<1>2. BreakerClock => UNCHANGED poolVars /\ UNCHANGED running
  BY DEF BreakerClock, Snapshot, Tick
<1>3. UNCHANGED vars => UNCHANGED poolVars /\ UNCHANGED running
  BY DEF vars, breakerVars
<1>4. QED
  BY <1>1, <1>2, <1>3, CallStepSlots, AttemptStepSlots, DiscardRunsSlots, ClosePoolSlots DEF Next

LEMMA SlotInvAlways == Spec => []SlotInv
BY PoolInvAlways, SlotInvInit, SlotInvNext, PTL DEF Spec

(* The counter behind the pool bound is the number of live and opening       *)
(* sessions, and no live session is lost, for any number of calls, retries  *)
(* and slots, as long as none of the four events in `drifted' has happened. *)
THEOREM PoolSlotAccounting == Spec => []SlotAccounting
<1>1. SlotInv => SlotAccounting
  <2>1. ASSUME NEW s, Located(s)
        PROVE  s \in idle \cup InUse \cup InFlight \cup discards
    BY <2>1 DEF Located, InUse, InFlight
  <2>2. QED
    BY <2>1 DEF SlotInv, SlotAccounting, Counted, Kept
<1>2. QED
  BY <1>1, SlotInvAlways, PTL

(* Without such an event a session is never closed under a caller that      *)
(* waits for its answer: the detached drops of other calls' failures, the   *)
(* purges of stale idle sessions and the late answers of abandoned attempts *)
(* never touch it.                                                          *)
THEOREM PoolNotClosedInUse == Spec => []NotClosedInUse
<1>1. SlotInv => NotClosedInUse
  BY DEF SlotInv, NotClosedInUse, Kept
<1>2. QED
  BY <1>1, SlotInvAlways, PTL
=============================================================================
