------------------------ MODULE QueryExecutionProofs ------------------------
(***************************************************************************)
(* Facts of QueryExecution for every value of its constants.  The clock:   *)
(* however many agents, terms and rounds there are and whatever hangs, the *)
(* synthesis has time and the answer comes before the deadline (IInv).     *)
(* The ceilings: one that is reached stops every call.  The order within a *)
(* round: the analyst works on the graph's coordinates (Coordinated).      *)
(* Between rounds: what was found is kept (Kept).                          *)
(***************************************************************************)
EXTENDS QueryExecution, TLAPS

\* A call that is waited for has a timer that has not run past its time, and that
\* leaves the floor, or the floor less the grace once it is cancelled.
TimedTo(r, floor) ==
    r.pending # {} =>
        /\ r.pc \in {"find", "relate", "single", "gather"}
        /\ r.due <= left
        /\ r.due >= floor - CancelGrace
        /\ ~r.grace => r.due >= floor

\* The time there was when planning began, or what the reserve guarantees.
ReserveLeft == left >= Min2(planLeft, SynthesisReserve - CancelGrace)
MarginLeft == left >= Min2(planLeft, SafetyMargin - CancelGrace)

\* The graph is asked about terms, the analyst with its tools.
Asked(a, calls) == \A c \in calls : /\ a = "graph_query" => c[2] \in Terms
                                    /\ a = "code_analyst" => c[1] \in Tools
Asking == \A a \in Agents : /\ Asked(a, task[a].pending) /\ Asked(a, task[a].useful)
                            /\ task[a].pc = "find" => a = "graph_query"

\* No agent outlives its round, agents keep the reserve, the synthesis keeps the
\* margin, and a round that runs is one of the rounds allowed.
Timing ==
    /\ \A a \in Agents : task[a].pc # "off" => pc = "awaiting" /\ task["llm"].pc = "off"
    /\ task["llm"].pc # "off" => pc = "awaiting"
    /\ \A a \in Agents : TimedTo(task[a], SynthesisReserve)
    /\ TimedTo(task["llm"], SafetyMargin)
    /\ pc \in {"head", "synthesis"} \/ (pc = "awaiting" /\ task["llm"].pc = "off") => ReserveLeft
    /\ pc \in {"awaiting", "answered"} => MarginLeft
    /\ pc = "awaiting" /\ task["llm"].pc = "off" => rounds < MaxIterations

IInv == TypeOK /\ Asking /\ Timing

-----------------------------------------------------------------------------
(* What the agents' helpers return.                                         *)

LEMMA ToolsTyped ==
  /\ \A i \in Intents : AnalystTools[i] \subseteq Tools
  /\ "mixed" \in Intents
<1>1. \A i \in Intents : AnalystTools[i] \subseteq Tools
  BY DEF Tools
<1>2. "mixed" \in Intents
  BY DEF Intents, AnalystTools
<1>3. QED
  BY <1>1, <1>2

LEMMA CallTools ==
  ASSUME NEW calls \in SUBSET Calls
  PROVE  {c[1] : c \in calls} \subseteq {c[1] : c \in Calls}
OBVIOUS

LEMMA OutputTyped ==
  ASSUME NEW r \in Task, NEW ok \in BOOLEAN, NEW evidence \in SUBSET (Terms \cup Tools),
         NEW tools \in SUBSET {c[1] : c \in Calls}
  PROVE  [r EXCEPT !.pc = "done", !.ok = ok, !.evidence = evidence, !.tools = tools] \in Task
BY DEF Task

LEMMA OffTyped == Off \in Task
BY DEF Task, Off

\* An agent that ends its work has a typed output and nothing pending.
LEMMA FinishedTyped ==
  ASSUME TypeOK, NEW a \in Tasks, NEW ok \in BOOLEAN,
         NEW evidence \in SUBSET (Terms \cup Tools)
  PROVE  /\ Finished(a, ok, evidence) \in Task
         /\ Finished(a, ok, evidence).pending = {} /\ Finished(a, ok, evidence).useful = {}
         /\ Finished(a, ok, evidence).pc = "done"
<1>1. task[a].tools \in SUBSET {c[1] : c \in Calls}
  BY DEF TypeOK, Task
<1>2. Finished(a, ok, evidence) \in Task
  BY <1>1, OutputTyped, OffTyped DEF Finished
<1>3. /\ Finished(a, ok, evidence).pending = {} /\ Finished(a, ok, evidence).useful = {}
      /\ Finished(a, ok, evidence).pc = "done"
  BY DEF Finished, Off
<1>4. QED
  BY <1>2, <1>3

\* A batch of calls is timed to leave the reserve.
LEMMA BatchTimed ==
  ASSUME IInv, NEW a \in Agents, AllowNewCall,
         NEW where \in {"find", "relate", "single", "gather"},
         NEW calls \in SUBSET Calls
  PROVE  /\ Batch(a, where, calls) \in Task
         /\ TimedTo(Batch(a, where, calls), SynthesisReserve)
         /\ Batch(a, where, calls).pending = calls /\ Batch(a, where, calls).useful = {}
         /\ Batch(a, where, calls).pc = where
<1>1. task[a] \in Task
  BY DEF IInv, TypeOK, Tasks
<1>2. /\ left \in Nat /\ reserve \in Nat /\ reserve >= SynthesisReserve
      /\ SynthesisReserve \in Nat /\ CancelGrace \in Nat
      /\ AgentTimeout[a] \in Nat /\ AgentTimeout[a] > 0
  BY QueryAssumption DEF IInv, TypeOK
<1>3. SpecialistRemaining = left - reserve /\ SpecialistRemaining > 0
  BY <1>2 DEF AllowNewCall, SpecialistRemaining, Max2
<1>4. /\ left - Min2(AgentTimeout[a], SpecialistRemaining) \in Int
      /\ left - Min2(AgentTimeout[a], SpecialistRemaining) <= left
      /\ left - Min2(AgentTimeout[a], SpecialistRemaining) >= SynthesisReserve
  BY <1>2, <1>3 DEF Min2
<1>5. task[a].tools \cup {c[1] : c \in calls} \subseteq {c[1] : c \in Calls}
  BY <1>1, CallTools DEF Task
<1>6. Batch(a, where, calls) \in Task
  BY <1>1, <1>4, <1>5 DEF Batch, Task
<1>7. /\ Batch(a, where, calls).due = left - Min2(AgentTimeout[a], SpecialistRemaining)
      /\ Batch(a, where, calls).pc = where
      /\ Batch(a, where, calls).pending = calls /\ Batch(a, where, calls).useful = {}
  BY <1>1 DEF Batch, Task
<1>8. QED
  BY <1>2, <1>4, <1>6, <1>7 DEF TimedTo

\* A specialist's step: one task changes, and is timed if it waits.
LEMMA AgentStepKeeps ==
  ASSUME IInv, NEW a \in Agents, NEW r \in Task,
         task[a].pc # "off", task' = [task EXCEPT ![a] = r],
         TimedTo(r, SynthesisReserve), Asked(a, r.pending), Asked(a, r.useful),
         r.pc = "find" => a = "graph_query",
         exhausted' \in {"none", "deadline", "tokens"}, ready' \in BOOLEAN,
         candidates' \in SUBSET Terms, spent' \in 0 .. TokenBudget,
         UNCHANGED <<left, reserve, cutoff, planLeft, inScope, pc, plan, rounds,
                     combined, emitted, answer>>
  PROVE  IInv'
<1>1. /\ pc = "awaiting" /\ task["llm"].pc = "off"
      /\ a # "llm" /\ "llm" \in Tasks /\ Agents \subseteq Tasks
  BY DEF IInv, Timing, Agents, Tasks
<1>2. task' \in [Tasks -> Task]
  BY <1>1 DEF IInv, TypeOK
<1>3. TypeOK'
  BY <1>2 DEF IInv, TypeOK
<1>4. /\ task'["llm"] = task["llm"]
      /\ \A b \in Agents : task'[b] = IF b = a THEN r ELSE task[b]
  BY <1>1 DEF IInv, TypeOK
<1>5. \A b \in Agents : TimedTo(task[b], SynthesisReserve)'
  BY <1>4 DEF IInv, Timing, TimedTo
<1>6. Timing'
  BY <1>1, <1>4, <1>5 DEF IInv, Timing, TimedTo, ReserveLeft, MarginLeft
<1>7. Asking'
  BY <1>4 DEF IInv, Asking, Asked
<1>8. QED
  BY <1>3, <1>6, <1>7 DEF IInv

LEMMA CheckTyped ==
  ASSUME IInv PROVE Ceiling \in {"none", "deadline", "tokens"}
BY DEF IInv, TypeOK, Ceiling

\* An agent's work ends.
LEMMA FinishKeeps ==
  ASSUME IInv, NEW a \in Agents, task[a].pc # "off", NEW ok \in BOOLEAN,
         NEW evidence \in SUBSET (Terms \cup Tools), Finish(a, ok, evidence),
         exhausted' \in {"none", "deadline", "tokens"}, ready' \in BOOLEAN,
         candidates' \in SUBSET Terms, UNCHANGED Elsewhere
  PROVE  IInv'
<1>1. /\ Finished(a, ok, evidence) \in Task
      /\ Finished(a, ok, evidence).pending = {} /\ Finished(a, ok, evidence).useful = {}
      /\ Finished(a, ok, evidence).pc = "done"
  BY FinishedTyped DEF IInv, Tasks
<1>2. /\ TimedTo(Finished(a, ok, evidence), SynthesisReserve)
      /\ Asked(a, Finished(a, ok, evidence).pending)
      /\ Asked(a, Finished(a, ok, evidence).useful)
  BY <1>1 DEF TimedTo, Asked
<1>3. spent' \in 0 .. TokenBudget
  BY DEF Elsewhere, IInv, TypeOK
<1>4. QED
  BY <1>1, <1>2, <1>3, AgentStepKeeps DEF Finish, Elsewhere

\* An agent issues its calls.
LEMMA IssueKeeps ==
  ASSUME IInv, NEW a \in Agents, task[a].pc # "off", AllowNewCall, Check,
         NEW where \in {"find", "relate", "single", "gather"}, where = "find" => a = "graph_query",
         NEW calls \in SUBSET Calls, Asked(a, calls), Issue(a, where, calls),
         UNCHANGED <<ready, candidates, Elsewhere>>
  PROVE  IInv'
<1>1. /\ exhausted' \in {"none", "deadline", "tokens"} /\ ready' \in BOOLEAN
      /\ candidates' \in SUBSET Terms /\ spent' \in 0 .. TokenBudget
  BY CheckTyped DEF Check, Elsewhere, IInv, TypeOK
<1>2. /\ Batch(a, where, calls) \in Task
      /\ TimedTo(Batch(a, where, calls), SynthesisReserve)
      /\ Asked(a, Batch(a, where, calls).pending) /\ Asked(a, Batch(a, where, calls).useful)
      /\ Batch(a, where, calls).pc = where
  BY BatchTimed DEF Asked
<1>3. QED
  BY <1>1, <1>2, AgentStepKeeps DEF Issue, Elsewhere

-----------------------------------------------------------------------------
(* The steps of the specialists.                                            *)

\* What the graph task works with.
LEMMA GraphTyped ==
  ASSUME IInv
  PROVE  /\ "graph_query" \in Agents /\ "code_analyst" \in Agents /\ "indexer" \in Agents
         /\ Agents \subseteq Tasks /\ "llm" \in Tasks
         /\ \A a \in Tasks : task[a] \in Task
         /\ plan \in Plan /\ candidates \subseteq Terms /\ ready \in BOOLEAN
         /\ \A a \in Agents : \A c \in task[a].useful : c \in Calls
BY DEF IInv, TypeOK, Agents, Tasks, Task

LEMMA GraphSkipsKeeps ==
  ASSUME IInv, GraphSkips PROVE IInv'
<1>1. /\ Finish("graph_query", FALSE, {}) /\ task["graph_query"].pc # "off"
      /\ ready' \in BOOLEAN /\ candidates' \in SUBSET Terms
      /\ exhausted' \in {"none", "deadline", "tokens"}
  BY CheckTyped DEF GraphSkips, GraphFails, At, Check, IInv, TypeOK
<1>2. UNCHANGED Elsewhere
  BY DEF GraphSkips
<1>3. QED
  BY <1>1, <1>2, GraphTyped, FinishKeeps

LEMMA GraphFindsKeeps ==
  ASSUME IInv, GraphFinds PROVE IInv'
<1>1. /\ {"find_entity"} \X plan.terms \in SUBSET Calls
      /\ Asked("graph_query", {"find_entity"} \X plan.terms)
  BY GraphTyped DEF Plan, Calls, Asked
<1>2. QED
  BY <1>1, GraphTyped, IssueKeeps DEF GraphFinds, At

LEMMA GraphHasRelationshipsKeeps ==
  ASSUME IInv, GraphHasRelationships PROVE IInv'
<1>1. task["graph_query"].evidence \in SUBSET (Terms \cup Tools)
  BY GraphTyped DEF Task
<1>2. /\ ready' \in BOOLEAN /\ candidates' \in SUBSET Terms
      /\ exhausted' \in {"none", "deadline", "tokens"} /\ UNCHANGED Elsewhere
  BY DEF GraphHasRelationships, IInv, TypeOK
<1>3. QED
  BY <1>1, <1>2, GraphTyped, FinishKeeps DEF GraphHasRelationships, At

LEMMA CodeHasNothingKeeps ==
  ASSUME IInv, CodeHasNothing PROVE IInv'
<1>1. /\ ready' \in BOOLEAN /\ candidates' \in SUBSET Terms
      /\ exhausted' \in {"none", "deadline", "tokens"} /\ UNCHANGED Elsewhere
  BY DEF CodeHasNothing, IInv, TypeOK
<1>2. (CodeTools # {} \/ plan.iteration > 1) \in BOOLEAN
  OBVIOUS
<1>3. QED
  BY <1>1, <1>2, GraphTyped, FinishKeeps DEF CodeHasNothing, CodeStarts, At

LEMMA CodeSkipsKeeps ==
  ASSUME IInv, CodeSkips PROVE IInv'
<1>1. /\ ready' \in BOOLEAN /\ candidates' \in SUBSET Terms
      /\ exhausted' \in {"none", "deadline", "tokens"} /\ UNCHANGED Elsewhere
  BY CheckTyped DEF CodeSkips, Check, IInv, TypeOK
<1>2. QED
  BY <1>1, GraphTyped, FinishKeeps DEF CodeSkips, CodeStarts, At

LEMMA CodeCallsTyped ==
  ASSUME IInv
  PROVE  /\ SingleCalls \in SUBSET Calls /\ GatheredCalls \in SUBSET Calls
         /\ Asked("code_analyst", SingleCalls) /\ Asked("code_analyst", GatheredCalls)
<1>1. CodeTools \subseteq Tools
  BY GraphTyped DEF CodeTools, Plan
<1>2. Names \subseteq Terms
  BY GraphTyped DEF Names, Plan
<1>3. SingleCalls \in SUBSET Calls /\ Asked("code_analyst", SingleCalls)
  BY <1>1 DEF SingleCalls, Calls, Asked
<1>4. GatheredCalls \in SUBSET Calls /\ Asked("code_analyst", GatheredCalls)
  BY <1>1, <1>2 DEF GatheredCalls, Calls, Asked
<1>5. QED
  BY <1>3, <1>4

LEMMA CodeAnalyzesKeeps ==
  ASSUME IInv, CodeAnalyzes PROVE IInv'
<1>1. /\ "code_analyst" \in Agents /\ task["code_analyst"].pc # "off"
      /\ AllowNewCall /\ Check /\ UNCHANGED <<ready, candidates, Elsewhere>>
  BY GraphTyped DEF CodeAnalyzes, CodeStarts, At
<1>2. CASE SingleCalls # {}
  BY <1>1, <1>2, CodeCallsTyped, IssueKeeps DEF CodeAnalyzes
<1>3. CASE SingleCalls = {}
  BY <1>1, <1>3, CodeCallsTyped, IssueKeeps DEF CodeAnalyzes
<1>4. QED
  BY <1>2, <1>3

LEMMA CodeReturnsKeeps ==
  ASSUME IInv, CodeReturns PROVE IInv'
<1>1. /\ ready' \in BOOLEAN /\ candidates' \in SUBSET Terms
      /\ exhausted' \in {"none", "deadline", "tokens"} /\ UNCHANGED Elsewhere
  BY DEF CodeReturns, IInv, TypeOK
<1>2. task["code_analyst"].answered \in BOOLEAN
  BY GraphTyped DEF Task
<1>3. {c[1] : c \in task["code_analyst"].useful} \in SUBSET (Terms \cup Tools)
  BY GraphTyped DEF IInv, Asking, Asked
<1>4. QED
  BY <1>1, <1>2, <1>3, GraphTyped, FinishKeeps DEF CodeReturns, At

LEMMA IndexStartsKeeps ==
  ASSUME IInv, IndexStarts PROVE IInv'
<1>1. /\ "indexer" \in Agents /\ task["indexer"].pc # "off"
      /\ Check /\ UNCHANGED <<ready, candidates, Elsewhere>>
      /\ ready' \in BOOLEAN /\ candidates' \in SUBSET Terms
      /\ exhausted' \in {"none", "deadline", "tokens"}
  BY GraphTyped, CheckTyped DEF IndexStarts, At, Check
<1>2. /\ {<<"index_repository", "query">>} \in SUBSET Calls
      /\ Asked("indexer", {<<"index_repository", "query">>})
  BY DEF Calls, Asked
<1>3. CASE AllowNewCall
  BY <1>1, <1>2, <1>3, IssueKeeps DEF IndexStarts
<1>4. CASE ~AllowNewCall
  BY <1>1, <1>4, FinishKeeps DEF IndexStarts
<1>5. QED
  BY <1>3, <1>4

LEMMA IndexReturnsKeeps ==
  ASSUME IInv, IndexReturns PROVE IInv'
<1>1. /\ ready' \in BOOLEAN /\ candidates' \in SUBSET Terms
      /\ exhausted' \in {"none", "deadline", "tokens"} /\ UNCHANGED Elsewhere
  BY DEF IndexReturns, IInv, TypeOK
<1>2. QED
  BY <1>1, GraphTyped, FinishKeeps DEF IndexReturns, At

LEMMA GraphHasCoordinatesKeeps ==
  ASSUME IInv, GraphHasCoordinates PROVE IInv'
<1> DEFINE hits == {c[2] : c \in task["graph_query"].useful}
<1>1. /\ "graph_query" \in Agents /\ task["graph_query"].pc # "off"
      /\ ready' \in BOOLEAN /\ UNCHANGED Elsewhere
  BY GraphTyped DEF GraphHasCoordinates, At
<1>2. hits \in SUBSET Terms
  BY GraphTyped DEF IInv, Asking, Asked
<1>3. PICK cs \in (IF inScope THEN Select(hits) ELSE {{}}), expand \in Expands :
        /\ candidates' = cs
        /\ IF expand /\ cs # {} THEN Check ELSE UNCHANGED exhausted
        /\ IF expand /\ cs # {} /\ AllowNewCall
           THEN task' = [task EXCEPT !["graph_query"] =
                  [Batch("graph_query", "relate", {"relationship"} \X cs) EXCEPT !.evidence = hits]]
           ELSE Finish("graph_query", TRUE, hits)
  BY DEF GraphHasCoordinates
<1>4. cs \in SUBSET Terms /\ candidates' \in SUBSET Terms
  BY <1>2, <1>3 DEF Select
<1>5. exhausted' \in {"none", "deadline", "tokens"}
  BY <1>3, CheckTyped DEF Check, IInv, TypeOK
<1>6. CASE expand /\ cs # {} /\ AllowNewCall
  <2> DEFINE calls == {"relationship"} \X cs
             b == Batch("graph_query", "relate", calls)
  <2>1. calls \in SUBSET Calls /\ Asked("graph_query", calls)
    BY <1>4 DEF Calls, Asked
  <2>2. /\ b \in Task /\ TimedTo(b, SynthesisReserve)
        /\ b.pending = calls /\ b.useful = {} /\ b.pc = "relate"
    BY <1>1, <1>6, <2>1, BatchTimed
  <2> HIDE DEF b, calls
  <2>3. [b EXCEPT !.evidence = hits] \in Task
    BY <1>2, <2>2 DEF Task
  <2>4. /\ [b EXCEPT !.evidence = hits].pending = calls
        /\ [b EXCEPT !.evidence = hits].useful = {}
        /\ [b EXCEPT !.evidence = hits].pc = "relate" /\ [b EXCEPT !.evidence = hits].due = b.due
        /\ [b EXCEPT !.evidence = hits].grace = b.grace
    BY <2>2 DEF Task
  <2>5. /\ TimedTo([b EXCEPT !.evidence = hits], SynthesisReserve)
        /\ Asked("graph_query", [b EXCEPT !.evidence = hits].pending)
        /\ Asked("graph_query", [b EXCEPT !.evidence = hits].useful)
    BY <2>1, <2>2, <2>4 DEF TimedTo, Asked
  <2>6. task' = [task EXCEPT !["graph_query"] = [b EXCEPT !.evidence = hits]]
    BY <1>3, <1>6 DEF b, calls
  <2>7. spent' \in 0 .. TokenBudget
    BY <1>1 DEF Elsewhere, IInv, TypeOK
  <2> HIDE DEF hits
  <2>8. QED
    BY <1>1, <1>4, <1>5, <2>3, <2>4, <2>5, <2>6, <2>7, AgentStepKeeps DEF Elsewhere
<1>7. CASE ~(expand /\ cs # {} /\ AllowNewCall)
  BY <1>1, <1>2, <1>3, <1>4, <1>5, <1>7, FinishKeeps
<1>8. QED
  BY <1>6, <1>7

-----------------------------------------------------------------------------
(* Answers, failures and timers.                                            *)

LEMMA CallAnswersKeeps ==
  ASSUME IInv, NEW a \in Agents, NEW c \in task[a].pending, NEW useful \in BOOLEAN,
         CallAnswers(a, c, useful)
  PROVE  IInv'
<1> DEFINE r == [task[a] EXCEPT !.pending = @ \ {c}, !.answered = TRUE,
                                !.useful = IF useful THEN @ \cup {c} ELSE @]
<1>1. task[a] \in Task
  BY GraphTyped
<1>2. /\ r.pending = task[a].pending \ {c} /\ r.pc = task[a].pc
      /\ r.due = task[a].due /\ r.grace = task[a].grace
      /\ r.useful \subseteq task[a].useful \cup {c}
  BY <1>1 DEF Task
<1>3. (IF useful THEN task[a].useful \cup {c} ELSE task[a].useful) \in SUBSET Calls
  BY <1>1 DEF Task
<1>4. r \in Task
  BY <1>1, <1>3 DEF Task
<1>5. TimedTo(task[a], SynthesisReserve) /\ Asked(a, task[a].pending) /\ Asked(a, task[a].useful)
  BY DEF IInv, Timing, Asking
<1>6. task[a].pc # "off"
  BY <1>5 DEF TimedTo
<1>7. task' = [task EXCEPT ![a] = r]
  BY DEF CallAnswers
<1>8. /\ spent' \in 0 .. TokenBudget /\ exhausted' \in {"none", "deadline", "tokens"}
      /\ ready' \in BOOLEAN /\ candidates' \in SUBSET Terms
      /\ UNCHANGED <<left, reserve, cutoff, planLeft, inScope, pc, plan, rounds,
                     combined, emitted, answer>>
  BY QueryAssumption DEF CallAnswers, IInv, TypeOK, Min2
<1> HIDE DEF r
<1>9. TimedTo(r, SynthesisReserve) /\ Asked(a, r.pending) /\ Asked(a, r.useful)
  BY <1>2, <1>5 DEF TimedTo, Asked
<1>10. r.pc = "find" => a = "graph_query"
  BY <1>2 DEF IInv, Asking
<1>11. QED
  BY <1>2, <1>4, <1>6, <1>7, <1>8, <1>9, <1>10, AgentStepKeeps

LEMMA CallFailsKeeps ==
  ASSUME IInv, NEW a \in Agents, NEW c \in task[a].pending, CallFails(a, c)
  PROVE  IInv'
<1> DEFINE r == [task[a] EXCEPT !.pending = @ \ {c}]
<1>1. task[a] \in Task
  BY GraphTyped
<1>2. TimedTo(task[a], SynthesisReserve) /\ Asked(a, task[a].pending) /\ Asked(a, task[a].useful)
  BY DEF IInv, Timing, Asking
<1>3. task[a].pc # "off"
  BY <1>2 DEF TimedTo
<1>4. /\ UNCHANGED <<exhausted, Elsewhere>> /\ spent' \in 0 .. TokenBudget
      /\ exhausted' \in {"none", "deadline", "tokens"}
  BY DEF CallFails, Elsewhere, IInv, TypeOK
<1>5. CASE task[a].pc = "single" /\ Finish(a, FALSE, {}) /\ UNCHANGED <<ready, candidates>>
  <2>1. ready' \in BOOLEAN /\ candidates' \in SUBSET Terms
    BY <1>5 DEF IInv, TypeOK
  <2>2. QED
    BY <1>3, <1>4, <1>5, <2>1, FinishKeeps
<1>6. CASE task[a].pc = "find" /\ GraphFails
  <2>1. a = "graph_query"
    BY <1>6 DEF IInv, Asking
  <2>2. ready' \in BOOLEAN /\ candidates' \in SUBSET Terms
    BY <1>6 DEF GraphFails, IInv, TypeOK
  <2>3. QED
    BY <1>3, <1>4, <1>6, <2>1, <2>2, FinishKeeps DEF GraphFails
<1>7. CASE task' = [task EXCEPT ![a] = r] /\ UNCHANGED <<ready, candidates>>
  <2>1. /\ r.pending = task[a].pending \ {c} /\ r.useful = task[a].useful
        /\ r.pc = task[a].pc /\ r.due = task[a].due /\ r.grace = task[a].grace
    BY <1>1 DEF Task
  <2>2. r \in Task
    BY <1>1 DEF Task
  <2>3. task' = [task EXCEPT ![a] = r] /\ ready' \in BOOLEAN /\ candidates' \in SUBSET Terms
    BY <1>7 DEF IInv, TypeOK
  <2> HIDE DEF r
  <2>4. TimedTo(r, SynthesisReserve) /\ Asked(a, r.pending) /\ Asked(a, r.useful)
    BY <1>2, <2>1 DEF TimedTo, Asked
  <2>5. r.pc = "find" => a = "graph_query"
    BY <2>1 DEF IInv, Asking
  <2>6. QED
    BY <1>3, <1>4, <2>2, <2>3, <2>4, <2>5, AgentStepKeeps DEF Elsewhere
<1>8. QED
  BY <1>5, <1>6, <1>7 DEF CallFails

\* The floor gives the grace away, and nothing more.
LEMMA TimeUpKeeps ==
  ASSUME IInv, NEW t \in Tasks, TimeUp(t) PROVE IInv'
<1> DEFINE r == [task[t] EXCEPT !.grace = TRUE, !.due = @ - CancelGrace]
<1>1. task[t] \in Task /\ CancelGrace \in Nat /\ task[t].due - CancelGrace \in Int
  BY GraphTyped, QueryAssumption DEF Task
<1>2. /\ r.pending = task[t].pending /\ r.useful = task[t].useful /\ r.pc = task[t].pc
      /\ r.due = task[t].due - CancelGrace /\ r.grace = TRUE
  BY <1>1 DEF Task
<1>3. r \in Task
  BY <1>1 DEF Task
<1>4. task' = [task EXCEPT ![t] = r] /\ UNCHANGED <<exhausted, ready, candidates, Elsewhere>>
  BY DEF TimeUp
<1>5. /\ task[t].pending # {} /\ ~task[t].grace /\ left = task[t].due
      /\ task[t].due \in Int /\ left \in Int
      /\ SynthesisReserve \in Nat /\ SafetyMargin \in Nat
  BY <1>1, QueryAssumption DEF TimeUp, Task, IInv, TypeOK
<1> HIDE DEF r
<1>6. CASE t \in Agents
  <2>1. /\ TimedTo(task[t], SynthesisReserve) /\ Asked(t, task[t].pending)
        /\ Asked(t, task[t].useful) /\ (task[t].pc = "find" => t = "graph_query")
    BY <1>6 DEF IInv, Timing, Asking
  <2>2. TimedTo(r, SynthesisReserve)
    BY <1>1, <1>2, <1>5, <2>1 DEF TimedTo
  <2>3. /\ Asked(t, r.pending) /\ Asked(t, r.useful) /\ (r.pc = "find" => t = "graph_query")
        /\ task[t].pc # "off"
    BY <1>2, <1>5, <2>1 DEF TimedTo
  <2>4. /\ spent' \in 0 .. TokenBudget /\ exhausted' \in {"none", "deadline", "tokens"}
        /\ ready' \in BOOLEAN /\ candidates' \in SUBSET Terms
    BY <1>4 DEF Elsewhere, IInv, TypeOK
  <2>5. QED
    BY <1>3, <1>4, <1>6, <2>2, <2>3, <2>4, AgentStepKeeps DEF Elsewhere
<1>7. CASE t = "llm"
  <2>1. TimedTo(task["llm"], SafetyMargin)
    BY DEF IInv, Timing
  <2>2. TimedTo(r, SafetyMargin)
    BY <1>1, <1>2, <1>5, <1>7, <2>1 DEF TimedTo
  <2>3. /\ task' \in [Tasks -> Task] /\ task'["llm"] = r
        /\ \A a \in Agents : task'[a] = task[a]
    BY <1>3, <1>4, <1>7 DEF IInv, TypeOK, Agents, Tasks
  <2>4. TypeOK'
    BY <1>4, <2>3 DEF Elsewhere, IInv, TypeOK
  <2>5. Asking'
    BY <2>3 DEF IInv, Asking
  <2>6. TimedTo(task["llm"], SafetyMargin)'
    BY <1>4, <2>2, <2>3 DEF TimedTo, Elsewhere
  <2>7. \A a \in Agents : TimedTo(task[a], SynthesisReserve)'
    BY <1>4, <2>3 DEF TimedTo, Elsewhere, IInv, Timing
  <2>8. Timing'
    BY <1>2, <1>4, <1>7, <2>3, <2>6, <2>7 DEF Elsewhere, IInv, Timing, ReserveLeft, MarginLeft
  <2>9. QED
    BY <2>4, <2>5, <2>8 DEF IInv
<1>8. QED
  BY <1>6, <1>7 DEF Tasks

\* The clock moves only while a call is waited for, and then its timer is ahead.
LEMMA TickKeeps ==
  ASSUME IInv, Tick PROVE IInv'
<1>1. /\ left \in Nat /\ left > 0 /\ left' = left - 1 /\ planLeft \in Nat
      /\ UNCHANGED <<budgetVars, inScope, pc, plan, rounds, roundVars, combined, emitted, answer>>
  BY DEF Tick, IInv, TypeOK
<1>2. TypeOK'
  BY <1>1, QueryAssumption DEF budgetVars, roundVars, IInv, TypeOK
<1>3. Asking'
  BY <1>1 DEF roundVars, IInv, Asking
<1>4. /\ \A t \in Tasks : task[t].due \in Int
      /\ SynthesisReserve \in Nat /\ SafetyMargin \in Nat /\ CancelGrace \in Nat
      /\ CancelGrace + SafetyMargin < SynthesisReserve
  BY QueryAssumption DEF IInv, TypeOK, Task
<1>5. CASE pc = "routing"
  <2>1. /\ \A t \in Tasks : task[t].pc = "off"
        /\ \A a \in Agents : task[a].pending = {}
        /\ task["llm"].pending = {}
    BY <1>5 DEF IInv, Timing, TimedTo, Agents, Tasks
  <2>2. QED
    BY <1>1, <1>2, <1>3, <1>5, <2>1 DEF budgetVars, roundVars, IInv, Timing, TimedTo, Tasks
<1>6. CASE pc = "awaiting"
  <2>1. \A t \in Tasks : task[t].pending # {} => left > task[t].due
    BY <1>6 DEF Tick, Waiting, IInv, Timing, TimedTo, Tasks
  <2>2. PICK t \in Tasks : task[t].pending # {}
    BY <1>6 DEF Tick
  <2>3. \A a \in Agents : TimedTo(task[a], SynthesisReserve)'
    BY <1>1, <1>4, <2>1 DEF TimedTo, roundVars, IInv, Timing, Tasks
  <2>4. TimedTo(task["llm"], SafetyMargin)'
    BY <1>1, <1>4, <2>1 DEF TimedTo, roundVars, IInv, Timing, Tasks
  <2>5. CASE t \in Agents
    <3>1. left - 1 >= SynthesisReserve - CancelGrace /\ task["llm"].pc = "off"
      BY <1>1, <1>4, <2>1, <2>2, <2>5 DEF IInv, Timing, TimedTo, Tasks
    <3>2. ReserveLeft' /\ MarginLeft'
      BY <1>1, <1>4, <3>1 DEF ReserveLeft, MarginLeft, Min2, budgetVars
    <3>3. QED
      BY <1>1, <1>2, <1>3, <1>6, <2>3, <2>4, <3>2 DEF budgetVars, roundVars, IInv, Timing
  <2>6. CASE t = "llm"
    <3>1. left - 1 >= SafetyMargin - CancelGrace /\ task["llm"].pc # "off"
      BY <1>1, <1>4, <2>1, <2>2, <2>6 DEF IInv, Timing, TimedTo, Tasks
    <3>2. MarginLeft'
      BY <1>1, <1>4, <3>1 DEF MarginLeft, Min2, budgetVars
    <3>3. QED
      BY <1>1, <1>2, <1>3, <1>6, <2>3, <2>4, <3>1, <3>2 DEF budgetVars, roundVars, IInv, Timing
  <2>7. QED
    BY <2>5, <2>6 DEF Tasks
<1>7. QED
  BY <1>5, <1>6 DEF Tick

-----------------------------------------------------------------------------
(* The rounds.                                                              *)

\* Between two rounds no call is out, and none is while the synthesis is.
LEMMA NoAgentRuns ==
  ASSUME IInv, pc # "awaiting" \/ task["llm"].pc # "off"
  PROVE  \A a \in Agents : task[a].pc = "off" /\ task[a].pending = {}
BY DEF IInv, Timing, TimedTo

\* Steps between the calls: the tasks are off, and time is left as it was.
LEMMA BetweenKeeps ==
  ASSUME IInv, TypeOK', \A t \in Tasks : task[t] = Off \/ task[t].pc = "off",
         task' = task \/ task' = [t \in Tasks |-> Off],
         pc' # "awaiting", UNCHANGED left,
         pc' \in {"head", "synthesis"} => ReserveLeft', pc' = "answered" => MarginLeft'
  PROVE  IInv'
<1>1. \A t \in Tasks : task'[t].pc = "off" /\ task'[t].pending = {}
  BY DEF IInv, Timing, TimedTo, Off, Tasks
<1>2. Asking' \/ task' = task
  BY <1>1 DEF Asking, Asked, Off, Agents, Tasks
<1>3. QED
  BY <1>1, <1>2 DEF IInv, Timing, TimedTo, Asking, Tasks

LEMMA RouteKeeps ==
  ASSUME IInv, Route PROVE IInv'
<1>1. left \in Nat /\ left \in 0 .. RequestDeadline /\ reserve \in Nat /\ PlanDeadline \in Nat
  BY QueryAssumption DEF IInv, TypeOK
<1>2. cutoff' \in Nat
  BY <1>1 DEF Route, Max2
<1>3. TypeOK'
  BY <1>1, <1>2, QueryAssumption DEF Route, roundVars, IInv, TypeOK
<1>4. ReserveLeft'
  BY <1>1, QueryAssumption DEF Route, ReserveLeft, Min2
<1>5. \A t \in Tasks : task[t].pc = "off"
  BY DEF Route, IInv, Timing, Tasks
<1>6. QED
  BY <1>3, <1>4, <1>5, BetweenKeeps DEF Route, roundVars

\* A round starts with nothing pending.
LEMMA StartRoundKeeps ==
  ASSUME IInv, pc = "head", rounds < MaxIterations, NEW p \in Plan, StartRound(p),
         exhausted' \in {"none", "deadline", "tokens"},
         UNCHANGED <<left, reserve, spent, cutoff, planLeft, inScope, rounds, combined,
                     emitted, answer>>
  PROVE  IInv'
<1>1. [Off EXCEPT !.pc = "start"] \in Task
  <2>1. \A r \in Task : [r EXCEPT !.pc = "start"] \in Task
    BY DEF Task
  <2>2. QED
    BY <2>1, OffTyped
<1>2. task' \in [Tasks -> Task]
  BY <1>1, OffTyped DEF StartRound
<1>3. TypeOK'
  BY <1>2 DEF StartRound, IInv, TypeOK
<1>4. /\ \A t \in Tasks : task'[t].pending = {} /\ task'[t].useful = {} /\ task'[t].pc # "find"
      /\ task'["llm"].pc = "off"
  BY DEF StartRound, Off, Plan, Tasks, Agents
<1>5. Asking'
  BY <1>4 DEF Asking, Asked, Tasks
<1>6. /\ CancelGrace \in Nat /\ SafetyMargin \in Nat /\ SynthesisReserve \in Nat
      /\ CancelGrace + SafetyMargin < SynthesisReserve /\ left \in Nat /\ planLeft \in Nat
  BY QueryAssumption DEF IInv, TypeOK
<1>7. ReserveLeft' /\ MarginLeft'
  BY <1>6 DEF IInv, Timing, ReserveLeft, MarginLeft, Min2
<1>8. Timing'
  BY <1>4, <1>7 DEF StartRound, Timing, TimedTo, Tasks
<1>9. QED
  BY <1>3, <1>5, <1>8 DEF IInv

LEMMA FirstRoundKeeps ==
  ASSUME IInv, FirstRound PROVE IInv'
<1>1. /\ pc = "head" /\ rounds < MaxIterations /\ plan \in Plan /\ StartRound(plan)
      /\ exhausted' \in {"none", "deadline", "tokens"}
  BY CheckTyped, QueryAssumption DEF FirstRound, Check, IInv, TypeOK
<1>2. UNCHANGED <<left, reserve, spent, cutoff, planLeft, inScope, rounds, combined,
                  emitted, answer>>
  BY DEF FirstRound
<1>3. QED
  BY <1>1, <1>2, StartRoundKeeps

\* A follow-up plan is a plan.
LEMMA FollowUpsTyped ==
  ASSUME IInv, NEW new \in BroaderTerms, NEW p \in FollowUps(new)
  PROVE  p \in Plan
<1>1. new \in SUBSET Terms
  BY DEF BroaderTerms
<1>2. plan.agents \cup SuggestedAgents \in SUBSET Agents
  BY GraphTyped DEF SuggestedAgents, Plan, Agents
<1>3. FailedAnalystTools \in SUBSET Tools
  BY GraphTyped, ToolsTyped DEF FailedAnalystTools, Plan
<1>4. /\ plan.intent \in Intents /\ "mixed" \in Intents
      /\ plan.entities \in SUBSET Terms /\ plan.iteration + 1 \in Nat
  BY GraphTyped, ToolsTyped DEF Plan
<1>5. PICK terms \in SUBSET Terms :
        p = [intent |-> IF plan.agents \cup SuggestedAgents # plan.agents /\ plan.intent = "lookup"
                           /\ "code_analyst" \in plan.agents \cup SuggestedAgents
                        THEN "mixed" ELSE plan.intent,
             agents |-> plan.agents \cup SuggestedAgents, entities |-> plan.entities \cup new,
             terms |-> terms, iteration |-> plan.iteration + 1,
             retry |-> IF "code_analyst" \in plan.agents THEN FailedAnalystTools ELSE Tools]
  BY <1>1 DEF FollowUps
<1>6. QED
  BY <1>1, <1>2, <1>3, <1>4, <1>5 DEF Plan

LEMMA NextRoundKeeps ==
  ASSUME IInv, NextRound PROVE IInv'
<1>1. PICK new \in BroaderTerms : \E p \in FollowUps(new) : StartRound(p)
  BY DEF NextRound
<1>2. PICK p \in FollowUps(new) : StartRound(p)
  BY <1>1
<1>3. /\ pc = "head" /\ rounds < MaxIterations /\ p \in Plan
      /\ exhausted' \in {"none", "deadline", "tokens"}
  BY CheckTyped, FollowUpsTyped, QueryAssumption DEF NextRound, MoreRounds, Check, IInv, TypeOK
<1>4. QED
  BY <1>2, <1>3, StartRoundKeeps DEF NextRound

LEMMA StopRoundsKeeps ==
  ASSUME IInv, StopRounds PROVE IInv'
<1>1. TypeOK'
  BY CheckTyped DEF StopRounds, Check, roundVars, IInv, TypeOK
<1>2. \A t \in Tasks : task[t].pc = "off"
  BY DEF StopRounds, IInv, Timing, Tasks
<1>3. ReserveLeft'
  BY DEF StopRounds, IInv, Timing, ReserveLeft
<1>4. QED
  BY <1>1, <1>2, <1>3, BetweenKeeps DEF StopRounds, roundVars

\* Merged outputs are outputs.
LEMMA MergeTyped ==
  ASSUME NEW p \in Output, NEW i \in Output PROVE MergeOne(p, i) \in Output
<1>1. CASE ~p.present \/ ~i.present
  BY <1>1 DEF MergeOne
<1>2. CASE p.present /\ i.present
  <2> DEFINE evidence == IF ~i.ok THEN (IF p.ok THEN p.evidence ELSE i.evidence)
                         ELSE IF ~p.ok THEN i.evidence
                         ELSE (p.evidence \ (SingleTools \cap plan.retry
                                               \cap AnalystTools[plan.intent])) \cup i.evidence
  <2>1. evidence \in SUBSET (Terms \cup Tools)
    BY DEF Output
  <2>2. p.tools \cup i.tools \in SUBSET {c[1] : c \in Calls}
    BY DEF Output
  <2>3. (p.ok \/ i.ok) \in BOOLEAN
    OBVIOUS
  <2>4. MergeOne(p, i) = [present |-> TRUE, ok |-> p.ok \/ i.ok, tools |-> p.tools \cup i.tools,
                          evidence |-> evidence]
    BY <1>2 DEF MergeOne
  <2> HIDE DEF evidence
  <2>5. QED
    BY <2>1, <2>2, <2>3, <2>4 DEF Output
<1>3. QED
  BY <1>1, <1>2 DEF Output

LEMMA EndRoundKeeps ==
  ASSUME IInv, EndRound PROVE IInv'
<1>1. \A a \in Agents : [present |-> a \in plan.agents, ok |-> task[a].ok,
                         evidence |-> task[a].evidence, tools |-> task[a].tools] \in Output
  BY GraphTyped DEF Task, Output
<1>2. combined' \in [Agents -> Output]
  BY <1>1, MergeTyped DEF EndRound, IInv, TypeOK
<1>3. rounds' \in 0 .. MaxIterations
  BY QueryAssumption DEF EndRound, IInv, TypeOK, Timing
<1>4. task' \in [Tasks -> Task]
  BY OffTyped DEF EndRound
<1>5. TypeOK'
  BY <1>2, <1>3, <1>4 DEF EndRound, IInv, TypeOK
<1>6. \A t \in Tasks : task'[t] = Off
  BY DEF EndRound
<1>7. ReserveLeft'
  BY DEF EndRound, IInv, Timing, ReserveLeft
<1>8. Asking'
  BY <1>6 DEF Asking, Asked, Off, Tasks
<1>9. Timing'
  BY <1>6, <1>7 DEF EndRound, Timing, TimedTo, Off, Tasks
<1>10. QED
  BY <1>5, <1>8, <1>9 DEF IInv

-----------------------------------------------------------------------------
(* The synthesis.                                                           *)

\* What the reserve guarantees is more than the margin.
LEMMA MarginFollows ==
  ASSUME IInv, ReserveLeft PROVE MarginLeft
<1>1. /\ CancelGrace \in Nat /\ SafetyMargin \in Nat /\ SynthesisReserve \in Nat
      /\ CancelGrace + SafetyMargin < SynthesisReserve /\ left \in Nat /\ planLeft \in Nat
  BY QueryAssumption DEF IInv, TypeOK
<1>2. QED
  BY <1>1 DEF ReserveLeft, MarginLeft, Min2

LEMMA RefuseKeeps ==
  ASSUME IInv, Refuse PROVE IInv'
<1>1. TypeOK'
  BY DEF Refuse, AnswerWith, Answers, budgetVars, roundVars, IInv, TypeOK
<1>2. \A t \in Tasks : task[t].pc = "off"
  BY DEF Refuse, IInv, Timing, Tasks
<1>3. MarginLeft'
  BY MarginFollows DEF Refuse, IInv, Timing, MarginLeft, budgetVars
<1>4. QED
  BY <1>1, <1>2, <1>3, BetweenKeeps DEF Refuse, AnswerWith, roundVars

LEMMA ChunkKeeps ==
  ASSUME IInv, Chunk PROVE IInv'
BY DEF Chunk, Streaming, budgetVars, roundVars, IInv, TypeOK, Asking, Timing, TimedTo,
       ReserveLeft, MarginLeft

\* The synthesis is timed to leave the margin.
LEMMA SynthesizeKeeps ==
  ASSUME IInv, Synthesize PROVE IInv'
<1>1. PICK r \in Reserves :
        /\ reserve' = r
        /\ IF SynthesisTimeoutWith(r) <= 0
           THEN AnswerWith("evidence_only") /\ UNCHANGED task
           ELSE /\ pc' = "awaiting" /\ UNCHANGED answer
                /\ task' = [task EXCEPT !["llm"] =
                       [Off EXCEPT !.pc = "single", !.pending = {<<"synthesize", "query">>},
                                   !.due = left - SynthesisTimeoutWith(r)]]
  BY DEF Synthesize
<1>2. /\ r \in Nat /\ left \in Nat /\ SafetyMargin \in Nat /\ CancelGrace \in Nat
      /\ SynthesisTimeout \in Nat /\ SynthesisReserve \in Nat
  BY QueryAssumption DEF IInv, TypeOK
<1>3. /\ left - SynthesisTimeoutWith(r) \in Int
      /\ left - SynthesisTimeoutWith(r) >= SafetyMargin
  BY <1>2 DEF SynthesisTimeoutWith, Min2
<1>4. \A t \in Tasks : task[t].pc = "off"
  BY DEF Synthesize, IInv, Timing, Tasks
<1>5. ReserveLeft /\ MarginLeft
  BY MarginFollows DEF Synthesize, IInv, Timing
<1>6. MarginLeft'
  BY <1>5 DEF Synthesize, MarginLeft
<1>7. CASE SynthesisTimeoutWith(r) <= 0
  <2>1. TypeOK'
    BY <1>1, <1>7 DEF Synthesize, AnswerWith, Answers, IInv, TypeOK
  <2>2. QED
    BY <1>1, <1>4, <1>6, <1>7, <2>1, BetweenKeeps DEF Synthesize, AnswerWith
<1>8. CASE ~(SynthesisTimeoutWith(r) <= 0)
  <2> DEFINE due == left - SynthesisTimeoutWith(r)
             call == {<<"synthesize", "query">>}
             out == [Off EXCEPT !.pc = "single", !.pending = call, !.due = due]
  <2>1. due \in Int /\ due >= SafetyMargin /\ due <= left
    BY <1>2, <1>3, <1>8 DEF SynthesisTimeoutWith, Min2
  <2>2. call \in SUBSET Calls
    BY DEF Calls
  <2>3. task' = [task EXCEPT !["llm"] = out] /\ pc' = "awaiting" /\ UNCHANGED answer
    BY <1>1, <1>8
  <2> HIDE DEF due, call
  <2>4. out \in Task
    <3>1. \A x \in Task : [x EXCEPT !.pc = "single", !.pending = call, !.due = due] \in Task
      BY <2>1, <2>2 DEF Task
    <3>2. QED
      BY <3>1, OffTyped
  <2>5. out.pc = "single" /\ out.due = due /\ out.grace = FALSE
    BY DEF Off
  <2> HIDE DEF out
  <2>6. /\ task' \in [Tasks -> Task] /\ task'["llm"] = out
        /\ \A a \in Agents : task'[a] = task[a]
    BY <2>3, <2>4 DEF IInv, TypeOK, Agents, Tasks
  <2>7. TypeOK'
    BY <1>1, <2>3, <2>6 DEF Synthesize, IInv, TypeOK
  <2>8. Asking'
    BY <2>6 DEF IInv, Asking
  <2>9. TimedTo(task["llm"], SafetyMargin)'
    BY <1>2, <2>1, <2>5, <2>6 DEF Synthesize, TimedTo
  <2>10. \A a \in Agents : task'[a].pc = "off" /\ task'[a].pending = {}
    BY <2>6, NoAgentRuns DEF Synthesize
  <2>11. Timing'
    BY <1>6, <2>3, <2>5, <2>6, <2>9, <2>10 DEF Timing, TimedTo
  <2>12. QED
    BY <2>7, <2>8, <2>11 DEF IInv
<1>9. QED
  BY <1>7, <1>8

LEMMA SynthesisEndsKeeps ==
  ASSUME IInv, SynthesisEnds PROVE IInv'
<1>1. MarginLeft'
  BY DEF SynthesisEnds, Streaming, IInv, Timing, MarginLeft, budgetVars
<1>2. task["llm"].pc # "off"
  BY DEF SynthesisEnds, Streaming, IInv, Timing, TimedTo
<1>3. /\ task' \in [Tasks -> Task] /\ task'["llm"] = Off
      /\ \A a \in Agents : task'[a] = task[a]
  BY OffTyped DEF SynthesisEnds, IInv, TypeOK, Agents, Tasks
<1>4. TypeOK'
  BY <1>3 DEF SynthesisEnds, AnswerWith, Answers, budgetVars, IInv, TypeOK
<1>5. Asking'
  BY <1>3 DEF IInv, Asking
<1>6. pc' = "answered"
  BY DEF SynthesisEnds, AnswerWith
<1>7. \A a \in Agents : task'[a].pc = "off" /\ task'[a].pending = {}
  BY <1>2, <1>3, NoAgentRuns
<1>8. Timing'
  BY <1>1, <1>3, <1>6, <1>7 DEF Timing, TimedTo, Off
<1>9. QED
  BY <1>4, <1>5, <1>8 DEF IInv

-----------------------------------------------------------------------------

LEMMA InitInv == Init => IInv
<1> SUFFICES ASSUME Init PROVE IInv
  OBVIOUS
<1>1. plan \in Plan /\ SynthesisReserve \in Reserves /\ TokenBudget \in Nat
      /\ MaxIterations \in Nat /\ RequestDeadline \in Nat
  BY QueryAssumption DEF Init
<1>2. task \in [Tasks -> Task] /\ combined \in [Agents -> Output]
  BY OffTyped DEF Init, Absent, Output
<1>3. TypeOK
  <2>1. /\ left \in 0 .. RequestDeadline /\ reserve \in Reserves /\ spent \in 0 .. TokenBudget
        /\ cutoff \in Nat /\ planLeft \in 0 .. RequestDeadline /\ rounds \in 0 .. MaxIterations
    BY <1>1 DEF Init
  <2>2. /\ exhausted \in {"none", "deadline", "tokens"} /\ candidates \subseteq Terms
        /\ pc \in {"routing", "head", "awaiting", "synthesis", "answered"} /\ answer \in Answers
    BY DEF Init, Answers
  <2>3. inScope \in BOOLEAN /\ ready \in BOOLEAN /\ emitted \in BOOLEAN
    BY DEF Init
  <2>4. QED
    BY <1>1, <1>2, <2>1, <2>2, <2>3 DEF TypeOK
<1>4. \A t \in Tasks : task[t].pc = "off" /\ task[t].pending = {} /\ task[t].useful = {}
  BY DEF Init, Off
<1>5. Asking
  BY <1>4 DEF Asking, Asked, Tasks
<1>6. Timing
  BY <1>4 DEF Init, Timing, TimedTo, Tasks
<1>7. QED
  BY <1>3, <1>5, <1>6 DEF IInv

LEMMA StepInv == IInv /\ [Next]_vars => IInv'
<1> SUFFICES ASSUME IInv, [Next]_vars PROVE IInv'
  OBVIOUS
<1>1. CASE UNCHANGED vars
  BY <1>1 DEF vars, budgetVars, roundVars, IInv, TypeOK, Asking, Timing, TimedTo,
              ReserveLeft, MarginLeft
<1>2. CASE Route \/ FirstRound \/ NextRound \/ StopRounds \/ EndRound
  BY <1>2, RouteKeeps, FirstRoundKeeps, NextRoundKeeps, StopRoundsKeeps, EndRoundKeeps
<1>3. CASE GraphSkips \/ GraphFinds \/ GraphHasCoordinates \/ GraphHasRelationships
  BY <1>3, GraphSkipsKeeps, GraphFindsKeeps, GraphHasCoordinatesKeeps, GraphHasRelationshipsKeeps
<1>4. CASE CodeHasNothing \/ CodeSkips \/ CodeAnalyzes \/ CodeReturns
  BY <1>4, CodeHasNothingKeeps, CodeSkipsKeeps, CodeAnalyzesKeeps, CodeReturnsKeeps
<1>5. CASE IndexStarts \/ IndexReturns
  BY <1>5, IndexStartsKeeps, IndexReturnsKeeps
<1>6. ASSUME NEW a \in Agents, NEW c \in task[a].pending,
             CallFails(a, c) \/ \E useful \in BOOLEAN : CallAnswers(a, c, useful)
      PROVE  IInv'
  BY <1>6, CallFailsKeeps, CallAnswersKeeps
<1>7. ASSUME NEW t \in Tasks, TimeUp(t) PROVE IInv'
  BY <1>7, TimeUpKeeps
<1>8. CASE Tick \/ Refuse \/ Synthesize \/ Chunk \/ SynthesisEnds
  BY <1>8, TickKeeps, RefuseKeeps, SynthesizeKeeps, ChunkKeeps, SynthesisEndsKeeps
<1>9. QED
  BY <1>1, <1>2, <1>3, <1>4, <1>5, <1>6, <1>7, <1>8 DEF Next

LEMMA SpecInv == Spec => []IInv
BY InitInv, StepInv, PTL DEF Spec

\* Every state of a question's execution is typed: no follow-up plan, merged output
\* or timer leaves its type, and the rounds stay within max_plan_iterations (loop.py).
THEOREM QueryTyped == Spec => []TypeOK
<1>1. IInv => TypeOK
  BY DEF IInv
<1>2. QED
  BY <1>1, SpecInv, PTL

\* For every deadline, reserve, grace and margin that leave room for each other, the
\* timeout derived for the synthesis is positive when the rounds are over
\* (budget.py, synthesis_timeout_s).
THEOREM QuerySynthesisHasTime == Spec => []SynthesisHasTime
<1>1. ASSUME IInv PROVE SynthesisHasTime
  <2> SUFFICES ASSUME pc = "synthesis", planLeft >= SynthesisReserve
        PROVE  /\ left >= SynthesisReserve - CancelGrace
               /\ \A r \in Reserves : SynthesisTimeoutWith(r) > 0
    BY DEF SynthesisHasTime
  <2>1. /\ left \in Nat /\ planLeft \in Nat /\ SynthesisReserve \in Nat
        /\ CancelGrace \in Nat /\ SafetyMargin \in Nat
        /\ SynthesisTimeout \in Nat /\ SynthesisTimeout > 0
        /\ CancelGrace + SafetyMargin < SynthesisReserve
        /\ \A r \in Reserves : r \in Nat /\ r >= SynthesisReserve
    BY <1>1, QueryAssumption DEF IInv, TypeOK
  <2>2. left >= SynthesisReserve - CancelGrace
    BY <1>1, <2>1 DEF IInv, Timing, ReserveLeft, Min2
  <2>3. QED
    BY <2>1, <2>2 DEF SynthesisTimeoutWith, Min2
<1>2. QED
  BY <1>1, SpecInv, PTL

\* Whatever hangs, the answer is there while the margin less the grace of a
\* cancelled call is left, unless planning began later than that.
THEOREM QueryAnsweredInTime == Spec => []AnsweredInTime
<1>1. IInv => AnsweredInTime
  BY DEF IInv, Timing, MarginLeft, AnsweredInTime
<1>2. QED
  BY <1>1, SpecInv, PTL

-----------------------------------------------------------------------------
(* No call is issued past a ceiling.                                        *)

Shrinks == \A a \in Agents : task'[a].pending \subseteq task[a].pending

LEMMA FinishShrinks ==
  ASSUME IInv, NEW a \in Agents, NEW ok, NEW evidence, Finish(a, ok, evidence)
  PROVE  Shrinks
<1>1. \A b \in Agents : task'[b] = IF b = a THEN Finished(a, ok, evidence) ELSE task[b]
  BY GraphTyped DEF Finish, IInv, TypeOK
<1>2. Finished(a, ok, evidence).pending = {}
  BY DEF Finished, Off
<1>3. QED
  BY <1>1, <1>2 DEF Shrinks

LEMMA RefusedStepShrinks ==
  ASSUME IInv, Next, ~AllowNewCall PROVE Shrinks
<1>1. CASE Route \/ FirstRound \/ NextRound \/ StopRounds
  BY <1>1 DEF Route, FirstRound, NextRound, StopRounds, roundVars, Shrinks
<1>2. CASE EndRound
  BY <1>2 DEF EndRound, Off, Shrinks, Agents, Tasks
<1>3. CASE GraphSkips \/ GraphFinds \/ GraphHasRelationships
  BY <1>3, GraphTyped, FinishShrinks
     DEF GraphSkips, GraphFails, GraphFinds, GraphHasRelationships
<1>4. CASE GraphHasCoordinates
  BY <1>4, GraphTyped, FinishShrinks DEF GraphHasCoordinates
<1>5. CASE CodeHasNothing \/ CodeSkips \/ CodeAnalyzes \/ CodeReturns
  BY <1>5, GraphTyped, FinishShrinks DEF CodeHasNothing, CodeSkips, CodeAnalyzes, CodeReturns
<1>6. CASE IndexStarts \/ IndexReturns
  BY <1>6, GraphTyped, FinishShrinks DEF IndexStarts, IndexReturns
<1>7. ASSUME NEW a \in Agents, NEW c \in task[a].pending, CallFails(a, c)
      PROVE  Shrinks
  <2>1. CASE task' = [task EXCEPT ![a].pending = @ \ {c}]
    <3>1. \A b \in Agents : task'[b].pending = IF b = a THEN task[b].pending \ {c}
                                                      ELSE task[b].pending
      BY <2>1, GraphTyped DEF IInv, TypeOK, Task
    <3>2. QED
      BY <3>1 DEF Shrinks
  <2>2. CASE GraphFails \/ Finish(a, FALSE, {})
    BY <2>2, GraphTyped, FinishShrinks DEF GraphFails
  <2>3. QED
    BY <1>7, <2>1, <2>2 DEF CallFails
<1>8. ASSUME NEW a \in Agents, NEW c \in task[a].pending, NEW useful \in BOOLEAN,
             CallAnswers(a, c, useful)
      PROVE  Shrinks
  <2>1. \A b \in Agents : task'[b].pending = IF b = a THEN task[b].pending \ {c}
                                                    ELSE task[b].pending
    BY <1>8, GraphTyped DEF CallAnswers, IInv, TypeOK, Task
  <2>2. QED
    BY <2>1 DEF Shrinks
<1>9. ASSUME NEW t \in Tasks, TimeUp(t) PROVE Shrinks
  <2>1. \A b \in Agents : task'[b].pending = task[b].pending
    BY <1>9, GraphTyped DEF TimeUp, IInv, TypeOK, Task
  <2>2. QED
    BY <2>1 DEF Shrinks
<1>10. CASE Tick \/ Refuse \/ Chunk
  BY <1>10 DEF Tick, Refuse, Chunk, roundVars, Shrinks
<1>11. CASE Synthesize \/ SynthesisEnds
  <2>1. \A b \in Agents : task'[b] = task[b]
    BY <1>11, GraphTyped DEF Synthesize, SynthesisEnds, IInv, TypeOK, Agents
  <2>2. QED
    BY <2>1 DEF Shrinks
<1>12. QED
  BY <1>1, <1>2, <1>3, <1>4, <1>5, <1>6, <1>7, <1>8, <1>9, <1>10, <1>11 DEF Next

\* For every budget: once the tokens are spent, only the reserve is left or a ceiling
\* has been seen, no specialist issues a call (budget.py, allow_new_call).
THEOREM QueryCeilingStopsCalls == Spec => CeilingStopsCalls
<1> DEFINE Reached == spent >= TokenBudget \/ left <= reserve \/ exhausted # "none"
<1>1. ASSUME IInv, Reached PROVE ~AllowNewCall
  BY <1>1, QueryAssumption DEF AllowNewCall, Ceiling, SpecialistRemaining, Max2, IInv, TypeOK
<1>2. ASSUME IInv, [Next]_vars
      PROVE  [Reached => \A a \in Agents : task'[a].pending \subseteq task[a].pending]_vars
  BY <1>1, <1>2, RefusedStepShrinks DEF Shrinks
<1>3. QED
  BY <1>2, SpecInv, PTL DEF Spec, CeilingStopsCalls

-----------------------------------------------------------------------------
(* The analyst and the graph's coordinates.                                 *)

\* The event is set once the graph needs no more time for its coordinates, and a
\* gathering analyst has seen it; what it asks about does not change under it.
Coordinated ==
    /\ ready => task["graph_query"].pc \in {"off", "relate", "done"}
    /\ task["code_analyst"].pc = "gather" =>
          /\ ready
          /\ candidates # {} => \A c \in task["code_analyst"].pending : c[2] \in candidates
    /\ pc = "awaiting" /\ task["llm"].pc = "off" => \A a \in plan.agents : task[a].pc # "off"

\* The tasks as Coordinated sees them: one agent moves on, the others stay.
LEMMA FinishMoves ==
  ASSUME IInv, NEW a \in Agents, NEW ok, NEW evidence, Finish(a, ok, evidence)
  PROVE  /\ task'[a].pc = "done"
         /\ \A b \in Tasks : b # a => task'[b] = task[b]
BY GraphTyped DEF Finish, Finished, Off, IInv, TypeOK

LEMMA IssueMoves ==
  ASSUME IInv, NEW a \in Agents, NEW where, NEW calls, Issue(a, where, calls)
  PROVE  /\ task'[a].pc = where /\ task'[a].pending = calls
         /\ \A b \in Tasks : b # a => task'[b] = task[b]
BY GraphTyped DEF Issue, Batch, IInv, TypeOK, Task

\* Pattern search gathers nothing.
LEMMA PatternGathersNothing ==
  ASSUME plan.intent = "pattern" PROVE GatheredCalls = {}
<1>1. AnalystTools["pattern"] = {"find_patterns"}
  BY DEF AnalystTools
<1>2. QED
  BY <1>1 DEF GatheredCalls, CodeTools, SingleTools

LEMMA GraphStepCoordinates ==
  ASSUME IInv, Coordinated,
         GraphSkips \/ GraphFinds \/ GraphHasCoordinates \/ GraphHasRelationships
  PROVE  Coordinated'
<1>1. CASE GraphSkips
  <2>1. /\ Finish("graph_query", FALSE, {}) /\ ready' = TRUE
        /\ UNCHANGED <<candidates, Elsewhere>>
    BY <1>1 DEF GraphSkips, GraphFails
  <2>2. /\ task'["graph_query"].pc = "done"
        /\ \A b \in Tasks : b # "graph_query" => task'[b] = task[b]
    BY <2>1, GraphTyped, FinishMoves
  <2>3. QED
    BY <2>1, <2>2, GraphTyped DEF Elsewhere, Coordinated, Plan
<1>2. CASE GraphFinds
  BY <1>2, GraphTyped, IssueMoves DEF GraphFinds, At, Elsewhere, Coordinated, Plan
<1>3. CASE GraphHasCoordinates
  <2>1. /\ task'["graph_query"].pc \in {"relate", "done"}
        /\ \A b \in Tasks : b # "graph_query" => task'[b] = task[b]
    <3>1. CASE \E evidence : Finish("graph_query", TRUE, evidence)
      BY <3>1, GraphTyped, FinishMoves
    <3>2. CASE \E cs, evidence : task' = [task EXCEPT !["graph_query"] =
                 [Batch("graph_query", "relate", {"relationship"} \X cs) EXCEPT !.evidence = evidence]]
      BY <3>2, GraphTyped DEF Batch, IInv, TypeOK, Task
    <3>3. QED
      BY <1>3, <3>1, <3>2 DEF GraphHasCoordinates
  <2>2. task["code_analyst"].pc # "gather"
    BY <1>3 DEF GraphHasCoordinates, At, Coordinated
  <2>3. QED
    BY <1>3, <2>1, <2>2, GraphTyped DEF GraphHasCoordinates, At, Elsewhere, Coordinated, Plan
<1>4. CASE GraphHasRelationships
  <2>1. UNCHANGED <<ready, candidates, Elsewhere>>
    BY <1>4 DEF GraphHasRelationships
  <2>2. /\ task'["graph_query"].pc = "done"
        /\ \A b \in Tasks : b # "graph_query" => task'[b] = task[b]
    BY <1>4, GraphTyped, FinishMoves DEF GraphHasRelationships
  <2>3. QED
    BY <2>1, <2>2, GraphTyped DEF Elsewhere, Coordinated, Plan
<1>5. QED
  BY <1>1, <1>2, <1>3, <1>4

LEMMA CodeStepCoordinates ==
  ASSUME IInv, Coordinated, CodeHasNothing \/ CodeSkips \/ CodeAnalyzes \/ CodeReturns
  PROVE  Coordinated'
<1>1. CASE CodeHasNothing \/ CodeSkips \/ CodeReturns
  <2>1. /\ task'["code_analyst"].pc = "done"
        /\ \A b \in Tasks : b # "code_analyst" => task'[b] = task[b]
    BY <1>1, GraphTyped, FinishMoves DEF CodeHasNothing, CodeSkips, CodeReturns
  <2>2. UNCHANGED <<ready, candidates, Elsewhere>>
    BY <1>1 DEF CodeHasNothing, CodeSkips, CodeReturns
  <2>3. QED
    BY <2>1, <2>2, GraphTyped DEF Elsewhere, Coordinated, Plan
<1>2. CASE CodeAnalyzes
  <2>1. UNCHANGED <<ready, candidates, Elsewhere>>
    BY <1>2 DEF CodeAnalyzes
  <2>2. CASE Issue("code_analyst", "single", SingleCalls)
    BY <2>1, <2>2, GraphTyped, IssueMoves DEF Elsewhere, Coordinated, Plan
  <2>3. CASE SingleCalls = {} /\ Issue("code_analyst", "gather", GatheredCalls)
    <3>1. ready
      BY <1>2, <2>3, PatternGathersNothing DEF CodeAnalyzes, CodeStarts, CodeMayStart
    <3>2. candidates # {} => \A c \in GatheredCalls : c[2] \in candidates
      BY DEF GatheredCalls, Names
    <3>3. QED
      BY <2>1, <2>3, <3>1, <3>2, GraphTyped, IssueMoves DEF Elsewhere, Coordinated, Plan
  <2>4. QED
    BY <1>2, <2>2, <2>3 DEF CodeAnalyzes
<1>3. QED
  BY <1>1, <1>2

LEMMA IndexStepCoordinates ==
  ASSUME IInv, Coordinated, IndexStarts \/ IndexReturns PROVE Coordinated'
<1>1. /\ task'["indexer"].pc # "off"
      /\ \A b \in Tasks : b # "indexer" => task'[b] = task[b]
  <2>1. CASE Issue("indexer", "single", {<<"index_repository", "query">>})
    BY <2>1, GraphTyped, IssueMoves
  <2>2. CASE \E ok, evidence : Finish("indexer", ok, evidence)
    BY <2>2, GraphTyped, FinishMoves
  <2>3. QED
    BY <2>1, <2>2 DEF IndexStarts, IndexReturns
<1>2. UNCHANGED <<ready, candidates, Elsewhere>>
  BY DEF IndexStarts, IndexReturns
<1>3. QED
  BY <1>1, <1>2, GraphTyped DEF Elsewhere, Coordinated, Plan

\* Answers and timers leave the tasks where they are and ask nothing new.
LEMMA AnswerCoordinates ==
  ASSUME IInv, Coordinated, UNCHANGED <<ready, candidates, pc, plan>>,
         \A b \in Tasks : task'[b].pc = task[b].pc /\ task'[b].pending \subseteq task[b].pending
  PROVE  Coordinated'
BY GraphTyped DEF Coordinated, Plan

LEMMA CallStepCoordinates ==
  ASSUME IInv, Coordinated, NEW a \in Agents, NEW c \in task[a].pending,
         CallFails(a, c) \/ \E useful \in BOOLEAN : CallAnswers(a, c, useful)
  PROVE  Coordinated'
<1>1. CASE \E useful \in BOOLEAN : CallAnswers(a, c, useful)
  <2>1. \A b \in Tasks : task'[b].pc = task[b].pc /\ task'[b].pending \subseteq task[b].pending
    BY <1>1, GraphTyped DEF CallAnswers, IInv, TypeOK, Task
  <2>2. QED
    BY <1>1, <2>1, AnswerCoordinates DEF CallAnswers
<1>2. CASE CallFails(a, c)
  <2>1. UNCHANGED Elsewhere
    BY <1>2 DEF CallFails
  <2>2. CASE task[a].pc = "find" /\ GraphFails
    <3>1. /\ task'["graph_query"].pc = "done" /\ ready' = TRUE /\ UNCHANGED candidates
          /\ \A b \in Tasks : b # "graph_query" => task'[b] = task[b]
      BY <2>2, GraphTyped, FinishMoves DEF GraphFails
    <3>2. QED
      BY <2>1, <3>1, GraphTyped DEF Elsewhere, Coordinated, Plan
  <2>3. CASE Finish(a, FALSE, {}) /\ UNCHANGED <<ready, candidates>>
    <3>1. /\ task'[a].pc = "done"
          /\ \A b \in Tasks : b # a => task'[b] = task[b]
      BY <2>3, FinishMoves
    <3>2. QED
      BY <2>1, <2>3, <3>1, GraphTyped DEF Elsewhere, Coordinated, Plan, Agents
  <2>4. CASE task' = [task EXCEPT ![a].pending = @ \ {c}] /\ UNCHANGED <<ready, candidates>>
    <3>1. \A b \in Tasks : task'[b].pc = task[b].pc /\ task'[b].pending \subseteq task[b].pending
      BY <2>4, GraphTyped DEF IInv, TypeOK, Task
    <3>2. QED
      BY <2>1, <2>4, <3>1, AnswerCoordinates DEF Elsewhere
  <2>5. QED
    BY <1>2, <2>2, <2>3, <2>4 DEF CallFails
<1>3. QED
  BY <1>1, <1>2

LEMMA TimeUpCoordinates ==
  ASSUME IInv, Coordinated, NEW t \in Tasks, TimeUp(t) PROVE Coordinated'
<1>1. \A b \in Tasks : task'[b].pc = task[b].pc /\ task'[b].pending \subseteq task[b].pending
  BY GraphTyped DEF TimeUp, IInv, TypeOK, Task
<1>2. QED
  BY <1>1, AnswerCoordinates DEF TimeUp, Elsewhere

LEMMA RoundStepCoordinates ==
  ASSUME IInv, Coordinated, Route \/ FirstRound \/ NextRound \/ StopRounds \/ EndRound
  PROVE  Coordinated'
<1>1. ASSUME NEW p \in Plan, StartRound(p) PROVE Coordinated'
  <2>1. \A t \in Tasks : task'[t].pc = IF t \in p.agents THEN "start" ELSE "off"
    BY <1>1 DEF StartRound, Off
  <2>2. /\ plan' = p /\ p.agents \subseteq Tasks
        /\ ready' => "graph_query" \notin p.agents
    BY <1>1, GraphTyped DEF StartRound, Plan
  <2>3. /\ task'["graph_query"].pc = IF "graph_query" \in p.agents THEN "start" ELSE "off"
        /\ task'["code_analyst"].pc # "gather"
        /\ \A a \in p.agents : task'[a].pc # "off"
    BY <2>1, <2>2, GraphTyped
  <2>4. QED
    BY <2>2, <2>3 DEF Coordinated
<1>2. CASE Route \/ StopRounds
  BY <1>2 DEF Route, StopRounds, roundVars, Coordinated
<1>3. CASE EndRound
  BY <1>3, GraphTyped DEF EndRound, Off, Coordinated
<1>4. QED
  BY <1>1, <1>2, <1>3, GraphTyped, FollowUpsTyped DEF FirstRound, NextRound

LEMMA OtherStepCoordinates ==
  ASSUME IInv, Coordinated, Tick \/ Refuse \/ Synthesize \/ Chunk \/ SynthesisEnds
  PROVE  Coordinated'
<1>1. CASE Tick \/ Refuse \/ Chunk
  BY <1>1 DEF Tick, Refuse, Chunk, AnswerWith, roundVars, Coordinated
<1>2. CASE Synthesize \/ SynthesisEnds
  <2>1. \A b \in Agents : task'[b] = task[b]
    BY <1>2, GraphTyped DEF Synthesize, SynthesisEnds, IInv, TypeOK, Agents
  <2>2. pc' # "awaiting" \/ task'["llm"].pc # "off"
    BY <1>2, GraphTyped DEF Synthesize, SynthesisEnds, AnswerWith, IInv, TypeOK, Off
  <2>3. UNCHANGED <<ready, candidates, plan>>
    BY <1>2 DEF Synthesize, SynthesisEnds
  <2>4. QED
    BY <2>1, <2>2, <2>3, GraphTyped DEF Coordinated
<1>3. QED
  BY <1>1, <1>2

\* For any terms and plans: an analyst that gathers has waited for this round's
\* coordinates and asks about nothing but the candidates (executor.py,
\* graph_coords_ready and analysis_candidates).
THEOREM QueryAnalystUsesCoordinates == Spec => []AnalystUsesCoordinates
<1>1. Init => Coordinated
  BY DEF Init, Off, Coordinated, Agents, Tasks
<1>2. IInv /\ Coordinated /\ [Next]_vars => Coordinated'
  <2> SUFFICES ASSUME IInv, Coordinated, [Next]_vars PROVE Coordinated'
    OBVIOUS
  <2>1. CASE UNCHANGED vars
    BY <2>1 DEF vars, roundVars, Coordinated
  <2>2. CASE Next
    BY <2>2, GraphStepCoordinates, CodeStepCoordinates, IndexStepCoordinates,
       CallStepCoordinates, TimeUpCoordinates, RoundStepCoordinates, OtherStepCoordinates DEF Next
  <2>3. QED
    BY <2>1, <2>2
<1>3. IInv /\ Coordinated => AnalystUsesCoordinates
  <2> SUFFICES ASSUME IInv, Coordinated, At("code_analyst", "gather"), "graph_query" \in plan.agents
      PROVE  /\ task["graph_query"].pc \in {"relate", "done"}
             /\ candidates # {} => \A c \in task["code_analyst"].pending : c[2] \in candidates
    BY DEF AnalystUsesCoordinates
  <2>1. pc = "awaiting" /\ task["code_analyst"].pc = "gather" /\ task["llm"].pc = "off"
    BY GraphTyped DEF At, IInv, Timing
  <2>2. QED
    BY <2>1 DEF Coordinated
<1>4. QED
  BY <1>1, <1>2, <1>3, SpecInv, PTL DEF Spec

-----------------------------------------------------------------------------
(* The evidence of the rounds.                                              *)

\* An agent's output while it works and when it is done: ok until it ends, nothing
\* found when it failed, and nothing useful without an answer.
Honest(r) == /\ r.pc # "done" => r.ok
             /\ ~r.ok => r.evidence = {}
             /\ r.useful # {} => r.answered

\* The graph finds terms, the analyst's tools are its evidence, indexing leaves none.
Own(a, evidence) == /\ a = "graph_query" => evidence \subseteq Terms
                    /\ a = "indexer" => evidence = {}

Working == \A a \in Agents : Honest(task[a]) /\ Own(a, task[a].evidence)

\* What the rounds have left, and what the round that runs may take back: only
\* tools of the analyst that have found nothing are tried again.
Merged ==
    /\ \A a \in Agents : /\ ~combined[a].ok => combined[a].evidence = {}
                         /\ Own(a, combined[a].evidence)
                         /\ combined[a].present => a \in plan.agents /\ rounds > 0
    /\ pc = "awaiting" /\ task["llm"].pc = "off" /\ combined["code_analyst"].present =>
          plan.retry \cap combined["code_analyst"].evidence = {}

Kept == Working /\ Merged

\* A specialist's own step.
LEMMA AgentStepKept ==
  ASSUME IInv, Kept, NEW a \in Agents, UNCHANGED <<combined, plan, rounds, pc>>,
         \A b \in Tasks : b # a => task'[b] = task[b],
         Honest(task'[a]), Own(a, task'[a].evidence)
  PROVE  Kept'
<1>1. Working'
  BY GraphTyped DEF Kept, Working
<1>2. task'["llm"] = task["llm"]
  BY GraphTyped DEF Agents
<1>3. Merged'
  BY <1>2 DEF Kept, Merged
<1>4. QED
  BY <1>1, <1>3 DEF Kept

LEMMA FinishKept ==
  ASSUME IInv, Kept, NEW a \in Agents, NEW ok \in BOOLEAN, NEW evidence, Finish(a, ok, evidence),
         ~ok => evidence = {}, Own(a, evidence), UNCHANGED Elsewhere
  PROVE  Kept'
<1>1. task'[a] = Finished(a, ok, evidence) /\ \A b \in Tasks : b # a => task'[b] = task[b]
  BY GraphTyped DEF Finish, IInv, TypeOK
<1>2. /\ Finished(a, ok, evidence).ok = ok /\ Finished(a, ok, evidence).evidence = evidence
      /\ Finished(a, ok, evidence).pc = "done" /\ Finished(a, ok, evidence).useful = {}
  BY DEF Finished, Off
<1>3. Honest(task'[a]) /\ Own(a, task'[a].evidence)
  BY <1>1, <1>2 DEF Honest
<1>4. QED
  BY <1>1, <1>3, AgentStepKept DEF Elsewhere

\* An agent that issues calls has not failed yet.
LEMMA IssueKept ==
  ASSUME IInv, Kept, NEW a \in Agents, task[a].pc # "done", NEW where, NEW calls,
         Issue(a, where, calls), UNCHANGED Elsewhere
  PROVE  Kept'
<1>1. task'[a] = Batch(a, where, calls) /\ \A b \in Tasks : b # a => task'[b] = task[b]
  BY GraphTyped DEF Issue, IInv, TypeOK
<1>2. /\ Batch(a, where, calls).ok = task[a].ok /\ Batch(a, where, calls).useful = {}
      /\ Batch(a, where, calls).evidence = task[a].evidence
  BY GraphTyped DEF Batch, Task
<1>3. Honest(task'[a]) /\ Own(a, task'[a].evidence)
  BY <1>1, <1>2 DEF Kept, Working, Honest
<1>4. QED
  BY <1>1, <1>3, AgentStepKept DEF Elsewhere

LEMMA GraphStepKept ==
  ASSUME IInv, Kept, GraphSkips \/ GraphFinds \/ GraphHasCoordinates \/ GraphHasRelationships
  PROVE  Kept'
<1> DEFINE hits == {c[2] : c \in task["graph_query"].useful}
<1>1. /\ "graph_query" \in Agents /\ task["graph_query"] \in Task
      /\ Honest(task["graph_query"]) /\ Own("graph_query", task["graph_query"].evidence)
  BY GraphTyped DEF Kept, Working
<1>2. CASE GraphSkips
  BY <1>1, <1>2, FinishKept DEF GraphSkips, GraphFails, Own
<1>3. CASE GraphFinds
  BY <1>1, <1>3, IssueKept DEF GraphFinds, At
<1>4. CASE GraphHasRelationships
  BY <1>1, <1>4, FinishKept DEF GraphHasRelationships
<1>5. CASE GraphHasCoordinates
  <2>1. Own("graph_query", hits)
    BY GraphTyped DEF IInv, Asking, Asked, Own
  <2>2. UNCHANGED Elsewhere
    BY <1>5 DEF GraphHasCoordinates
  <2>3. CASE Finish("graph_query", TRUE, hits)
    BY <1>1, <2>1, <2>2, <2>3, FinishKept
  <2>4. ASSUME NEW cs, task' = [task EXCEPT !["graph_query"] =
                  [Batch("graph_query", "relate", {"relationship"} \X cs) EXCEPT !.evidence = hits]]
        PROVE  Kept'
    <3> DEFINE b == Batch("graph_query", "relate", {"relationship"} \X cs)
    <3>1. /\ task'["graph_query"] = [b EXCEPT !.evidence = hits]
          /\ \A t \in Tasks : t # "graph_query" => task'[t] = task[t]
      BY <2>4, GraphTyped DEF IInv, TypeOK
    <3>2. /\ [b EXCEPT !.evidence = hits].ok = task["graph_query"].ok
          /\ [b EXCEPT !.evidence = hits].useful = {}
          /\ [b EXCEPT !.evidence = hits].evidence = hits
      BY <1>1 DEF Batch, Task
    <3> HIDE DEF hits, b
    <3>3. task["graph_query"].ok
      BY <1>1, <1>5 DEF GraphHasCoordinates, At, Honest
    <3>4. Honest(task'["graph_query"]) /\ Own("graph_query", task'["graph_query"].evidence)
      BY <2>1, <3>1, <3>2, <3>3 DEF Honest
    <3>5. QED
      BY <1>1, <2>2, <3>1, <3>4, AgentStepKept DEF Elsewhere
  <2>5. QED
    BY <1>5, <2>3, <2>4 DEF GraphHasCoordinates
<1>6. QED
  BY <1>2, <1>3, <1>4, <1>5

LEMMA CodeStepKept ==
  ASSUME IInv, Kept, CodeHasNothing \/ CodeSkips \/ CodeAnalyzes \/ CodeReturns
  PROVE  Kept'
<1>1. /\ "code_analyst" \in Agents /\ task["code_analyst"] \in Task
      /\ Honest(task["code_analyst"]) /\ \A evidence : Own("code_analyst", evidence)
  BY GraphTyped DEF Kept, Working, Own
<1>2. CASE CodeHasNothing \/ CodeSkips
  <2>1. PICK ok \in BOOLEAN : Finish("code_analyst", ok, {})
    BY <1>2 DEF CodeHasNothing, CodeSkips
  <2>2. QED
    BY <1>1, <1>2, <2>1, FinishKept DEF CodeHasNothing, CodeSkips
<1>3. CASE CodeAnalyzes
  BY <1>1, <1>3, IssueKept DEF CodeAnalyzes, CodeStarts, At
<1>4. CASE CodeReturns
  <2>1. /\ task["code_analyst"].answered \in BOOLEAN
        /\ ~task["code_analyst"].answered => {c[1] : c \in task["code_analyst"].useful} = {}
    BY <1>1 DEF Honest, Task
  <2>2. QED
    BY <1>1, <1>4, <2>1, FinishKept DEF CodeReturns
<1>5. QED
  BY <1>2, <1>3, <1>4

LEMMA IndexStepKept ==
  ASSUME IInv, Kept, IndexStarts \/ IndexReturns PROVE Kept'
<1>1. UNCHANGED Elsewhere /\ task["indexer"].pc # "done"
  BY DEF IndexStarts, IndexReturns, At
<1>2. CASE \E ok \in BOOLEAN : Finish("indexer", ok, {})
  BY <1>1, <1>2, GraphTyped, FinishKept DEF Own
<1>3. CASE Issue("indexer", "single", {<<"index_repository", "query">>})
  BY <1>1, <1>3, GraphTyped, IssueKept
<1>4. QED
  BY <1>2, <1>3 DEF IndexStarts, IndexReturns

LEMMA CallStepKept ==
  ASSUME IInv, Kept, NEW a \in Agents, NEW c \in task[a].pending,
         CallFails(a, c) \/ \E useful \in BOOLEAN : CallAnswers(a, c, useful)
  PROVE  Kept'
<1>1. task[a] \in Task /\ Honest(task[a]) /\ Own(a, task[a].evidence)
  BY GraphTyped DEF Kept, Working
<1>2. ASSUME NEW useful \in BOOLEAN, CallAnswers(a, c, useful) PROVE Kept'
  <2>1. /\ task'[a].pc = task[a].pc /\ task'[a].ok = task[a].ok
        /\ task'[a].evidence = task[a].evidence /\ task'[a].answered = TRUE
        /\ \A b \in Tasks : b # a => task'[b] = task[b]
    BY <1>1, <1>2, GraphTyped DEF CallAnswers, IInv, TypeOK, Task
  <2>2. Honest(task'[a]) /\ Own(a, task'[a].evidence)
    BY <1>1, <2>1 DEF Honest
  <2>3. QED
    BY <1>2, <2>1, <2>2, AgentStepKept DEF CallAnswers
<1>3. CASE CallFails(a, c)
  <2>1. UNCHANGED Elsewhere /\ Own(a, {})
    BY <1>3 DEF CallFails, Own
  <2>2. CASE task[a].pc = "find" /\ GraphFails
    <3>1. a = "graph_query"
      BY <2>2 DEF IInv, Asking
    <3>2. QED
      BY <2>1, <2>2, <3>1, FinishKept DEF GraphFails
  <2>3. CASE Finish(a, FALSE, {})
    BY <2>1, <2>3, FinishKept
  <2>4. CASE task' = [task EXCEPT ![a].pending = @ \ {c}]
    <3>1. /\ task'[a].pc = task[a].pc /\ task'[a].ok = task[a].ok
          /\ task'[a].evidence = task[a].evidence /\ task'[a].answered = task[a].answered
          /\ task'[a].useful = task[a].useful
          /\ \A b \in Tasks : b # a => task'[b] = task[b]
      BY <1>1, <2>4, GraphTyped DEF IInv, TypeOK, Task
    <3>2. Honest(task'[a]) /\ Own(a, task'[a].evidence)
      BY <1>1, <3>1 DEF Honest
    <3>3. QED
      BY <2>1, <3>1, <3>2, AgentStepKept DEF Elsewhere
  <2>5. QED
    BY <1>3, <2>2, <2>3, <2>4 DEF CallFails
<1>4. QED
  BY <1>2, <1>3

\* What the analyst has found is not among the tools a later round tries again.
LEMMA RetriesAreNew ==
  ASSUME IInv, NEW new \in BroaderTerms, NEW p \in FollowUps(new)
  PROVE  /\ plan.agents \subseteq p.agents
         /\ "code_analyst" \in plan.agents => p.retry \cap combined["code_analyst"].evidence = {}
<1>1. PICK intent, terms :
        p = [intent |-> intent, agents |-> plan.agents \cup SuggestedAgents,
             entities |-> plan.entities \cup new, terms |-> terms, iteration |-> plan.iteration + 1,
             retry |-> IF "code_analyst" \in plan.agents THEN FailedAnalystTools ELSE Tools]
  BY DEF FollowUps
<1>2. FailedAnalystTools \cap combined["code_analyst"].evidence = {}
  BY DEF FailedAnalystTools
<1>3. QED
  BY <1>1, <1>2

\* What a round leaves is what an agent merged of the rounds before and of this one.
LEMMA MergeKeeps ==
  ASSUME IInv, Kept, EndRound, NEW a \in Agents
  PROVE  /\ ~combined'[a].ok => combined'[a].evidence = {}
         /\ Own(a, combined'[a].evidence)
         /\ combined'[a].present => combined[a].present \/ a \in plan.agents
         /\ combined[a].present =>
               /\ combined[a].evidence \subseteq combined'[a].evidence
               /\ combined[a].ok => combined'[a].ok
<1> DEFINE p == combined[a]
           i == [present |-> a \in plan.agents, ok |-> task[a].ok,
                 evidence |-> task[a].evidence, tools |-> task[a].tools]
<1>1. combined'[a] = MergeOne(p, i)
  BY DEF EndRound
<1>2. /\ p \in Output /\ i \in Output
      /\ ~p.ok => p.evidence = {}
      /\ ~i.ok => i.evidence = {}
      /\ Own(a, p.evidence) /\ Own(a, i.evidence)
      /\ i.present = (a \in plan.agents)
  <2>1. p \in Output /\ i \in Output /\ a \in Tasks
    BY GraphTyped DEF IInv, TypeOK, Task, Output
  <2>2. /\ ~task[a].ok => task[a].evidence = {}
        /\ Own(a, task[a].evidence)
    BY DEF Kept, Working, Honest
  <2>3. /\ ~p.ok => p.evidence = {}
        /\ Own(a, p.evidence)
    BY DEF Kept, Merged
  <2>4. QED
    BY <2>1, <2>2, <2>3
<1>3. (SingleTools \cap plan.retry \cap AnalystTools[plan.intent]) \cap p.evidence = {} \/ ~p.present
  <2>1. CASE a = "code_analyst"
    BY <2>1, GraphTyped DEF EndRound, Kept, Merged
  <2>2. CASE a = "graph_query"
    <3>1. p.evidence \subseteq Terms
      BY <1>2, <2>2 DEF Own
    <3>2. AnalystTools[plan.intent] \subseteq Tools
      BY GraphTyped, ToolsTyped DEF Plan
    <3>3. QED
      BY <3>1, <3>2, EvidenceApart
  <2>3. CASE a = "indexer"
    BY <1>2, <2>3 DEF Own
  <2>4. QED
    BY <2>1, <2>2, <2>3 DEF Agents
<1> HIDE DEF p, i
<1>4. CASE ~p.present
  BY <1>1, <1>2, <1>4 DEF MergeOne, p
<1>5. CASE p.present /\ ~i.present
  BY <1>1, <1>2, <1>5 DEF MergeOne, p
<1>6. CASE p.present /\ i.present
  <2> DEFINE evidence == IF ~i.ok THEN (IF p.ok THEN p.evidence ELSE i.evidence)
                         ELSE IF ~p.ok THEN i.evidence
                         ELSE (p.evidence \ (SingleTools \cap plan.retry
                                               \cap AnalystTools[plan.intent])) \cup i.evidence
  <2>1. /\ MergeOne(p, i).present = TRUE /\ MergeOne(p, i).ok = (p.ok \/ i.ok)
        /\ MergeOne(p, i).evidence = evidence
    BY <1>6 DEF MergeOne
  <2>2. /\ ~(p.ok \/ i.ok) => evidence = {}
        /\ p.evidence \subseteq evidence
        /\ evidence \subseteq p.evidence \cup i.evidence
    BY <1>2, <1>3, <1>6
  <2> HIDE DEF evidence
  <2>3. Own(a, evidence)
    BY <1>2, <2>2 DEF Own
  <2>4. QED
    BY <1>1, <1>2, <1>6, <2>1, <2>2, <2>3 DEF p
<1>7. QED
  BY <1>4, <1>5, <1>6

LEMMA RoundStepKept ==
  ASSUME IInv, Kept, Route \/ FirstRound \/ NextRound \/ StopRounds \/ EndRound
  PROVE  Kept'
<1>1. ASSUME NEW p, StartRound(p) PROVE Working'
  <2>1. \A t \in Tasks : /\ task'[t].ok = TRUE /\ task'[t].evidence = {} /\ task'[t].useful = {}
    BY <1>1 DEF StartRound, Off
  <2>2. QED
    BY <2>1, GraphTyped DEF Working, Honest, Own
<1>2. CASE FirstRound
  <2>1. Merged'
    BY <1>2, GraphTyped DEF FirstRound, StartRound, Kept, Merged, IInv, TypeOK
  <2>2. QED
    BY <1>1, <1>2, <2>1 DEF FirstRound, Kept
<1>3. CASE NextRound
  <2>1. PICK new \in BroaderTerms : \E p \in FollowUps(new) : StartRound(p)
    BY <1>3 DEF NextRound
  <2>2. PICK p \in FollowUps(new) : StartRound(p)
    BY <2>1
  <2>3. /\ plan' = p /\ UNCHANGED <<combined, rounds>>
        /\ plan.agents \subseteq p.agents
        /\ "code_analyst" \in plan.agents => p.retry \cap combined["code_analyst"].evidence = {}
    BY <1>3, <2>2, RetriesAreNew DEF NextRound, StartRound
  <2>4. Merged'
    BY <2>3, GraphTyped DEF Kept, Merged
  <2>5. QED
    BY <1>1, <2>2, <2>4 DEF Kept
<1>4. CASE Route \/ StopRounds
  <2>1. UNCHANGED <<task, combined, plan, rounds>> /\ pc' # "awaiting"
    BY <1>4 DEF Route, StopRounds, roundVars
  <2>2. QED
    BY <2>1 DEF Kept, Working, Merged
<1>5. CASE EndRound
  <2>1. Working'
    BY <1>5, GraphTyped DEF EndRound, Off, Working, Honest, Own
  <2>2. /\ pc' # "awaiting" /\ plan' = plan /\ rounds' = rounds + 1 /\ rounds \in Nat
    BY <1>5 DEF EndRound, IInv, TypeOK
  <2>3. Merged'
    BY <1>5, <2>2, MergeKeeps DEF Kept, Merged
  <2>4. QED
    BY <2>1, <2>3 DEF Kept
<1>6. QED
  BY <1>2, <1>3, <1>4, <1>5

LEMMA OtherStepKept ==
  ASSUME IInv, Kept,
         Tick \/ Refuse \/ Synthesize \/ Chunk \/ SynthesisEnds \/ \E t \in Tasks : TimeUp(t)
  PROVE  Kept'
<1>1. CASE Tick \/ Chunk
  BY <1>1 DEF Tick, Chunk, roundVars, Kept, Working, Merged
<1>2. CASE Refuse
  BY <1>2 DEF Refuse, AnswerWith, roundVars, Kept, Working, Merged
<1>3. CASE Synthesize \/ SynthesisEnds
  <2>1. \A b \in Agents : task'[b] = task[b]
    BY <1>3, GraphTyped DEF Synthesize, SynthesisEnds, IInv, TypeOK, Agents
  <2>2. pc' # "awaiting" \/ task'["llm"].pc # "off"
    BY <1>3, GraphTyped DEF Synthesize, SynthesisEnds, AnswerWith, IInv, TypeOK, Off
  <2>3. UNCHANGED <<combined, plan, rounds>>
    BY <1>3 DEF Synthesize, SynthesisEnds
  <2>4. QED
    BY <2>1, <2>2, <2>3 DEF Kept, Working, Merged
<1>4. ASSUME NEW t \in Tasks, TimeUp(t) PROVE Kept'
  <2>1. \A b \in Tasks : /\ task'[b].pc = task[b].pc /\ task'[b].ok = task[b].ok
                         /\ task'[b].evidence = task[b].evidence
                         /\ task'[b].useful = task[b].useful /\ task'[b].answered = task[b].answered
    BY <1>4, GraphTyped DEF TimeUp, IInv, TypeOK, Task
  <2>2. UNCHANGED <<combined, plan, rounds, pc>>
    BY <1>4 DEF TimeUp, Elsewhere
  <2>3. QED
    BY <2>1, <2>2, GraphTyped DEF Kept, Working, Honest, Merged
<1>5. QED
  BY <1>1, <1>2, <1>3, <1>4

LEMMA SpecKept == Spec => []Kept
<1>1. Init => Kept
  BY DEF Init, Off, Absent, Kept, Working, Honest, Own, Merged, Agents, Tasks
<1>2. IInv /\ Kept /\ [Next]_vars => Kept'
  <2> SUFFICES ASSUME IInv, Kept, [Next]_vars PROVE Kept'
    OBVIOUS
  <2>1. CASE UNCHANGED vars
    BY <2>1 DEF vars, roundVars, Kept, Working, Merged
  <2>2. CASE Next
    BY <2>2, GraphStepKept, CodeStepKept, IndexStepKept, CallStepKept, RoundStepKept,
       OtherStepKept DEF Next
  <2>3. QED
    BY <2>1, <2>2
<1>3. QED
  BY <1>1, <1>2, SpecInv, PTL DEF Spec

\* Only the end of a round merges.
LEMMA OthersLeaveCombined ==
  ASSUME [Next]_vars PROVE EndRound \/ UNCHANGED combined
<1>1. CASE UNCHANGED vars
  BY <1>1 DEF vars
<1>2. CASE Route \/ FirstRound \/ NextRound \/ StopRounds
  BY <1>2 DEF Route, FirstRound, NextRound, StopRounds
<1>3. CASE GraphSkips \/ GraphFinds \/ GraphHasCoordinates \/ GraphHasRelationships
  BY <1>3 DEF GraphSkips, GraphFinds, GraphHasCoordinates, GraphHasRelationships, Elsewhere
<1>4. CASE CodeHasNothing \/ CodeSkips \/ CodeAnalyzes \/ CodeReturns \/ IndexStarts \/ IndexReturns
  BY <1>4 DEF CodeHasNothing, CodeSkips, CodeAnalyzes, CodeReturns, IndexStarts, IndexReturns, Elsewhere
<1>5. CASE \/ \E a \in Agents : \E c \in task[a].pending :
                 CallFails(a, c) \/ \E useful \in BOOLEAN : CallAnswers(a, c, useful)
           \/ \E t \in Tasks : TimeUp(t)
  BY <1>5 DEF CallFails, CallAnswers, TimeUp, Elsewhere
<1>6. CASE Tick \/ Refuse \/ Synthesize \/ Chunk \/ SynthesisEnds
  BY <1>6 DEF Tick, Refuse, Synthesize, Chunk, SynthesisEnds
<1>7. QED
  BY <1>1, <1>2, <1>3, <1>4, <1>5, <1>6 DEF Next

\* For any terms, plans and number of rounds: a later round that fails, finds less or
\* runs a single tool again takes back nothing an earlier one has found, because only
\* tools that found nothing are tried again (evidence.py, failed_analyst_tools and
\* merge_agent_outputs).
THEOREM QueryEvidenceKept == Spec => EvidenceKept
<1>1. ASSUME IInv, Kept, [Next]_vars
      PROVE  [\A a \in Agents : combined[a].present =>
                 /\ combined[a].evidence \subseteq combined'[a].evidence
                 /\ combined[a].ok => combined'[a].ok]_vars
  BY <1>1, OthersLeaveCombined, MergeKeeps
<1>2. QED
  BY <1>1, SpecInv, SpecKept, PTL DEF Spec, EvidenceKept

=============================================================================
