--------------------------- MODULE QueryExecution ---------------------------
(***************************************************************************)
(* One question from the routed plan to the answer: the rounds of          *)
(* orchestration/loop.py, the specialists of one round (executor.py), the  *)
(* evidence they leave (evidence.py), the synthesis (synthesis.py) and the *)
(* wall-clock and token budget they share (budget.py).                     *)
(*                                                                         *)
(* left counts down to the request deadline in ticks.  What the code does  *)
(* between two awaits takes no time: the clock moves only while everything *)
(* waits for an answer or a timer.  A call may answer, fail, or hang; when *)
(* its timer expires it is cancelled and, after CancelGrace more, given    *)
(* up (resilience/retry.py, no retries here).                              *)
(*                                                                         *)
(* Abstractions.  A find_entity call finds the entity it names or nothing; *)
(* the relationship tools asked about one name are one call; an analyst's  *)
(* answer is usable or not; tokens are counted in calls that report usage, *)
(* and the cost ceiling, which reads the same ledger, is not told from the *)
(* token ceiling.  Calls a failed gather leaves behind have no effect on   *)
(* the request and are dropped.                                            *)
(***************************************************************************)
EXTENDS Integers, FiniteSets

CONSTANTS Terms,             \* what can be searched for: entities, and the query itself
          Classes,           \* the terms that name a class
          InitialPlans,      \* bound: the plans routing may return
          DefaultCandidates, RefinementCap,  \* analysis fan-out of the first, of later rounds
          MaxIterations,     \* max_plan_iterations
          RequestDeadline, PlanDeadline, SynthesisReserve, SafetyMargin,
          SynthesisTimeout, AgentTimeout, CancelGrace,
          Reserves,          \* bound: the reserves prompt sizes lead to
          TokenBudget        \* request_token_budget

Agents == {"graph_query", "code_analyst", "indexer"}
Tasks == Agents \cup {"llm"}

AnalystTools == [lookup |-> {"get_code_snippet", "analyze_class"},
                 relationship |-> {},
                 explanation |-> {"explain_implementation", "analyze_function",
                                  "analyze_class", "get_code_snippet"},
                 comparison |-> {"compare_implementations"},
                 pattern |-> {"find_patterns"},
                 indexing |-> {},
                 mixed |-> {"explain_implementation", "analyze_function",
                            "analyze_class", "get_code_snippet"}]
Intents == DOMAIN AnalystTools
Tools == UNION {AnalystTools[i] : i \in Intents}
\* Awaited alone, and stored under a key that a later round overwrites.
SingleTools == {"compare_implementations", "find_patterns"}
LlmTools == Tools \ {"get_code_snippet"}

\* retry is Tools for a plan that restricts nothing (retry_tools = None).
Plan == [intent : Intents, agents : SUBSET Agents, entities : SUBSET Terms,
         terms : SUBSET Terms, iteration : Nat, retry : SUBSET Tools]

ASSUME QueryAssumption ==
    /\ IsFiniteSet(Terms) /\ Classes \subseteq Terms
    /\ InitialPlans \subseteq Plan
    /\ \A p \in InitialPlans : p.iteration = 1 /\ p.agents # {} /\ p.entities \subseteq p.terms
    /\ {DefaultCandidates, RefinementCap, MaxIterations, TokenBudget} \subseteq Nat \ {0}
    /\ AgentTimeout \in [Agents -> Nat \ {0}]
    /\ {PlanDeadline, SafetyMargin, CancelGrace} \subseteq Nat
    /\ {SynthesisReserve, SynthesisTimeout, RequestDeadline} \subseteq Nat \ {0}
    /\ PlanDeadline + SynthesisReserve <= RequestDeadline
    /\ CancelGrace + SafetyMargin < SynthesisReserve
    /\ SynthesisReserve \in Reserves /\ \A r \in Reserves : r \in Nat /\ r >= SynthesisReserve

\* A payload keeps what the graph found and what the analyst's tools returned in
\* fields of their own: evidence of one kind is never taken for the other.
ASSUME EvidenceApart == Terms \cap Tools = {}

VARIABLES left,       \* budget.remaining_s()
          reserve,    \* budget.synthesis_reserve_s
          exhausted,  \* budget.exhausted
          spent,      \* tokens on the ledger, saturating at the budget
          cutoff,     \* what is left at plan_cutoff
          planLeft,   \* history: what was left when planning began
          inScope,    \* not is_out_of_scope(query)
          pc,         \* where handle_query is
          plan,       \* current
          rounds,     \* rounds that have ended
          ready,      \* graph_coords_ready
          candidates, \* analysis_candidates
          task,       \* the specialists' tasks of this round, and the synthesis call
          combined,   \* the merged outputs of the rounds
          emitted,    \* a chunk of the answer has been streamed
          answer

budgetVars == <<reserve, exhausted, spent, cutoff, planLeft>>
roundVars == <<ready, candidates, task>>
vars == <<left, budgetVars, inScope, pc, plan, rounds, roundVars, combined, emitted, answer>>

-----------------------------------------------------------------------------
Min2(m, n) == IF m < n THEN m ELSE n
Max2(m, n) == IF m > n THEN m ELSE n

Calls == (Tools \cup {"find_entity", "relationship", "index_repository", "synthesize"})
            \X (Terms \cup {"query"})

\* pending: calls not answered; useful: those answered with something;
\* answered: one returned, useful or not; due: what is left when the timer expires;
\* ok, evidence and tools are the agent's output.
Task == [pc : {"off", "start", "find", "relate", "single", "gather", "done"},
         pending : SUBSET Calls, useful : SUBSET Calls, answered : BOOLEAN,
         due : Int, grace : BOOLEAN,
         ok : BOOLEAN, evidence : SUBSET (Terms \cup Tools),
         tools : SUBSET {c[1] : c \in Calls}]
Off == [pc |-> "off", pending |-> {}, useful |-> {}, answered |-> FALSE, due |-> 0,
        grace |-> FALSE, ok |-> TRUE, evidence |-> {}, tools |-> {}]

Output == [present : BOOLEAN, ok : BOOLEAN,
           evidence : SUBSET (Terms \cup Tools), tools : SUBSET {c[1] : c \in Calls}]
Absent == [present |-> FALSE, ok |-> TRUE, evidence |-> {}, tools |-> {}]

Answers == {"none", "out_of_scope", "no_evidence", "full", "partial", "evidence_only"}

TypeOK == /\ left \in 0 .. RequestDeadline
          /\ reserve \in Reserves
          /\ exhausted \in {"none", "deadline", "tokens"}
          /\ spent \in 0 .. TokenBudget
          /\ cutoff \in Nat /\ planLeft \in 0 .. RequestDeadline
          /\ inScope \in BOOLEAN
          /\ pc \in {"routing", "head", "awaiting", "synthesis", "answered"}
          /\ plan \in Plan
          /\ rounds \in 0 .. MaxIterations
          /\ ready \in BOOLEAN
          /\ candidates \subseteq Terms
          /\ task \in [Tasks -> Task]
          /\ combined \in [Agents -> Output]
          /\ emitted \in BOOLEAN
          /\ answer \in Answers

Init == /\ left = RequestDeadline
        /\ reserve = SynthesisReserve
        /\ exhausted = "none"
        /\ spent = 0
        /\ cutoff = 0
        /\ planLeft = 0
        /\ inScope \in BOOLEAN
        /\ pc = "routing"
        /\ plan \in InitialPlans
        /\ rounds = 0
        /\ ready = FALSE
        /\ candidates = {}
        /\ task = [t \in Tasks |-> Off]
        /\ combined = [a \in Agents |-> Absent]
        /\ emitted = FALSE
        /\ answer = "none"

-----------------------------------------------------------------------------
(* RequestBudget.                                                           *)

\* What check() returns; it stays once it is set.
Ceiling == IF exhausted # "none" THEN exhausted
           ELSE IF left = 0 THEN "deadline"
           ELSE IF spent >= TokenBudget THEN "tokens" ELSE "none"
SpecialistRemaining == Max2(0, left - reserve)
AllowNewCall == Ceiling = "none" /\ SpecialistRemaining > 0
Check == exhausted' = Ceiling

-----------------------------------------------------------------------------
(* Evidence: what the merged outputs hold, whether it suffices, what to try *)
(* next.                                                                    *)

\* class_analyses are no evidence here.
EvidenceOf(outputs) == outputs["code_analyst"].evidence \ {"analyze_class"}
Hits == combined["graph_query"].evidence
Failed(a) == combined[a].present /\ ~combined[a].ok

NeedsAnalyst == \/ plan.intent \in {"explanation", "comparison", "mixed"}
                \/ "code_analyst" \in plan.agents

Sufficient ==
    \/ ~inScope
    \/ plan.intent = "indexing" /\ combined["indexer"].present /\ combined["indexer"].ok
    \/ /\ plan.intent = "pattern"
       /\ EvidenceOf(combined) # {} \/ (combined["code_analyst"].present /\ ~Failed("code_analyst"))
    \/ /\ plan.intent \notin {"indexing", "pattern"}
       /\ IF Hits = {} THEN EvidenceOf(combined) # {}
          ELSE \/ ~NeedsAnalyst \/ EvidenceOf(combined) # {}
               \/ "code_analyst" \in plan.agents /\ ~Failed("code_analyst")

MissingAnalyst == Hits # {} /\ "code_analyst" \notin plan.agents
SuggestedAgents == CASE plan.intent = "indexing" -> {"indexer"}
                     [] plan.intent = "pattern" -> {"code_analyst"}
                     [] plan.intent \notin {"indexing", "pattern"} /\ Hits # {} -> {"code_analyst"}
                     [] OTHER -> {"graph_query", "code_analyst"}

\* The analyst's tools to try again; a class analysis that came back counts here.
FailedAnalystTools ==
    IF "code_analyst" \notin plan.agents \/ plan.intent = "indexing" THEN {}
    ELSE {t \in AnalystTools[plan.intent] \ combined["code_analyst"].evidence :
             \/ t \in combined["code_analyst"].tools
             \/ Failed("code_analyst")
             \/ Hits = {}}

\* Terms that found something are kept; the others are new to this request.
BroaderTerms ==
    IF plan.intent = "indexing" \/ (plan.intent # "pattern" /\ MissingAnalyst) THEN {{}}
    ELSE {b \in SUBSET Terms : /\ Hits \subseteq b
                               /\ b \cap (plan.terms \cup plan.entities) \subseteq
                                     IF Hits = {} THEN {} ELSE plan.terms}

\* refine_plan for one choice of broader terms; search_terms follows the entities
\* when there are none.
FollowUps(new) ==
    LET agents == plan.agents \cup SuggestedAgents
        entities == plan.entities \cup new
    IN IF agents = plan.agents /\ new = {} /\ FailedAnalystTools = {} THEN {}
       ELSE {[intent |-> IF agents # plan.agents /\ plan.intent = "lookup"
                                /\ "code_analyst" \in agents
                         THEN "mixed" ELSE plan.intent,
              agents |-> agents, entities |-> entities, terms |-> terms,
              iteration |-> plan.iteration + 1,
              retry |-> IF "code_analyst" \in plan.agents THEN FailedAnalystTools ELSE Tools] :
             terms \in IF new # {} THEN {new}
                       ELSE {t \in SUBSET Terms : t # {} /\ entities \subseteq t}}

\* (mutant) the later round wins
KeepIncoming(p, i) == i
\* _merge_one: an answer beats a failure, two answers are joined.
MergeOne(p, i) ==
    IF ~p.present THEN i
    ELSE IF ~i.present THEN p
    ELSE [present |-> TRUE, ok |-> p.ok \/ i.ok, tools |-> p.tools \cup i.tools,
          evidence |-> IF ~i.ok THEN (IF p.ok THEN p.evidence ELSE i.evidence)
                       ELSE IF ~p.ok THEN i.evidence
                       ELSE (p.evidence \ (SingleTools \cap plan.retry \cap AnalystTools[plan.intent]))
                              \cup i.evidence]

-----------------------------------------------------------------------------
(* run_refinement_loop.                                                     *)

\* Memory, statistics, the cache and routing come first and are not bounded here.
Route ==
    /\ pc = "routing"
    /\ pc' = "head"
    /\ planLeft' = left
    /\ cutoff' = Max2(Max2(0, left - PlanDeadline), reserve)
    /\ spent' \in spent .. TokenBudget
    /\ UNCHANGED <<left, reserve, exhausted, inScope, plan, rounds, roundVars, combined,
                   emitted, answer>>

StartRound(p) ==
    /\ plan' = p
    /\ pc' = "awaiting"
    /\ ready' = ("graph_query" \notin p.agents)
    /\ candidates' = {}
    /\ task' = [t \in Tasks |-> IF t \in p.agents THEN [Off EXCEPT !.pc = "start"] ELSE Off]

FirstRound ==
    /\ pc = "head" /\ rounds = 0
    /\ AllowNewCall /\ Check
    /\ StartRound(plan)
    /\ UNCHANGED <<left, reserve, spent, cutoff, planLeft, inScope, rounds, combined, emitted, answer>>

\* (mutant) one round more than max_plan_iterations
MoreRoundsAndOne == rounds \in 1 .. MaxIterations
MoreRounds == rounds \in 1 .. MaxIterations - 1

NextRound ==
    /\ pc = "head" /\ MoreRounds
    /\ ~Sufficient
    /\ AllowNewCall /\ Check
    /\ left > cutoff
    /\ \E new \in BroaderTerms : \E p \in FollowUps(new) : StartRound(p)
    /\ UNCHANGED <<left, reserve, spent, cutoff, planLeft, inScope, rounds, combined, emitted, answer>>

StopRounds ==
    /\ pc = "head"
    /\ IF rounds = MaxIterations \/ (rounds > 0 /\ Sufficient) THEN UNCHANGED exhausted
       ELSE /\ Check
            /\ \/ ~AllowNewCall
               \/ rounds > 0 /\ left <= cutoff
               \/ rounds > 0 /\ \E new \in BroaderTerms : FollowUps(new) = {}
    /\ pc' = "synthesis"
    /\ UNCHANGED <<left, reserve, spent, cutoff, planLeft, inScope, plan, rounds, roundVars, combined,
                   emitted, answer>>

\* run_plan returns; its outputs are merged and the reserve follows the prompt.
EndRound ==
    /\ pc = "awaiting"
    /\ task["llm"].pc = "off"
    /\ \A a \in Agents : task[a].pc \in {"off", "done"}
    /\ combined' = [a \in Agents |->
           MergeOne(combined[a], [present |-> a \in plan.agents, ok |-> task[a].ok,
                                  evidence |-> task[a].evidence, tools |-> task[a].tools])]
    /\ reserve' \in Reserves
    /\ rounds' = rounds + 1
    /\ pc' = "head"
    /\ ready' = FALSE /\ candidates' = {} /\ task' = [t \in Tasks |-> Off]
    /\ UNCHANGED <<left, exhausted, spent, cutoff, planLeft, inScope, plan, emitted, answer>>

-----------------------------------------------------------------------------
(* _call and the gathers: a task's calls are issued together, and their     *)
(* timers run together.                                                     *)

At(a, where) == pc = "awaiting" /\ task[a].pc = where
Settled(a) == task[a].pending = {}

\* (mutant) the timer runs to the request deadline
UnclippedBatch(a, where, calls) ==
    [task[a] EXCEPT !.pc = where, !.pending = calls, !.useful = {}, !.answered = FALSE,
                    !.tools = @ \cup {c[1] : c \in calls},
                    !.due = Max2(CancelGrace, left - AgentTimeout[a])]
Batch(a, where, calls) ==
    [task[a] EXCEPT !.pc = where, !.pending = calls, !.useful = {}, !.answered = FALSE,
                    !.tools = @ \cup {c[1] : c \in calls},
                    !.due = left - Min2(AgentTimeout[a], SpecialistRemaining)]

Finished(a, ok, evidence) ==
    [Off EXCEPT !.pc = "done", !.ok = ok, !.evidence = evidence, !.tools = task[a].tools]
Finish(a, ok, evidence) == task' = [task EXCEPT ![a] = Finished(a, ok, evidence)]
Issue(a, where, calls) == task' = [task EXCEPT ![a] = Batch(a, where, calls)]

\* The rest of the request while its specialists run.
Elsewhere == <<left, reserve, spent, cutoff, planLeft, inScope, pc, plan, rounds, combined,
               emitted, answer>>

-----------------------------------------------------------------------------
(* _run_graph.                                                              *)

HasGraphTools == plan.intent \notin {"pattern", "indexing"}
\* The relationship tools a comparison asks for depend on its wording.
Expands == CASE plan.intent \in {"relationship", "mixed"} -> {TRUE}
             [] plan.intent = "comparison" -> BOOLEAN
             [] OTHER -> {FALSE}

\* (mutant) a graph task that returns early does not set the event
GraphReturnsUnheard == Finish("graph_query", FALSE, {}) /\ UNCHANGED <<ready, candidates>>
GraphFails == Finish("graph_query", FALSE, {}) /\ ready' = TRUE /\ UNCHANGED candidates

\* No tool for this intent, or no budget left: not ok, and the event is set.
GraphSkips ==
    /\ At("graph_query", "start")
    /\ IF HasGraphTools THEN ~AllowNewCall /\ Check ELSE UNCHANGED exhausted
    /\ GraphFails
    /\ UNCHANGED Elsewhere

GraphFinds ==
    /\ At("graph_query", "start") /\ HasGraphTools
    /\ AllowNewCall /\ Check
    /\ Issue("graph_query", "find", {"find_entity"} \X plan.terms)
    /\ UNCHANGED <<ready, candidates, Elsewhere>>

CandidateLimit == IF plan.iteration > 1 THEN Min2(RefinementCap, DefaultCandidates)
                  ELSE DefaultCandidates
Select(hits) == {cs \in SUBSET hits :
                    Cardinality(cs) = Min2(Cardinality(hits), CandidateLimit)}

\* All terms are answered: the coordinates are there for the analyst, and the
\* relationships of the candidates are asked for.
GraphHasCoordinates ==
    /\ At("graph_query", "find") /\ Settled("graph_query")
    /\ LET hits == {c[2] : c \in task["graph_query"].useful}
       IN \E cs \in (IF inScope THEN Select(hits) ELSE {{}}), expand \in Expands :
            /\ candidates' = cs
            /\ IF expand /\ cs # {} THEN Check ELSE UNCHANGED exhausted
            /\ IF expand /\ cs # {} /\ AllowNewCall
               THEN task' = [task EXCEPT !["graph_query"] =
                      [Batch("graph_query", "relate", {"relationship"} \X cs) EXCEPT !.evidence = hits]]
               ELSE Finish("graph_query", TRUE, hits)
    /\ ready' = TRUE
    /\ UNCHANGED Elsewhere

\* A relationship that failed is left out.
GraphHasRelationships ==
    /\ At("graph_query", "relate") /\ Settled("graph_query")
    /\ Finish("graph_query", TRUE, task["graph_query"].evidence)
    /\ UNCHANGED <<exhausted, ready, candidates, Elsewhere>>

-----------------------------------------------------------------------------
(* _run_code and _run_index.                                                *)

\* (mutant) the analyst does not wait for the event
NeverWaits == TRUE
\* Pattern search needs no coordinates; every other tool waits for the event.
CodeMayStart == plan.intent = "pattern" \/ ready

CodeTools == AnalystTools[plan.intent] \cap plan.retry
\* Candidates of the graph, or the names as they were asked for; a comparison
\* prefers the latter.
Names == IF candidates # {} THEN candidates ELSE plan.entities
Compared == IF plan.entities # {} THEN plan.entities ELSE candidates
IsClass(name) == name \in candidates \cap Classes

SingleCalls ==
    {<<t, "query">> : t \in {u \in CodeTools \cap SingleTools :
                                u = "compare_implementations" => Cardinality(Compared) >= 2}}
GatheredCalls ==
    {c \in (CodeTools \ SingleTools) \X Names :
        /\ c[1] = "analyze_class" => IsClass(c[2])
        /\ c[1] = "analyze_function" => ~IsClass(c[2])}

CodeStarts == At("code_analyst", "start") /\ CodeMayStart

\* Nothing to call: an empty tool plan is an error in the first round only.
CodeHasNothing ==
    /\ CodeStarts
    /\ SingleCalls = {} /\ GatheredCalls = {}
    /\ Finish("code_analyst", CodeTools # {} \/ plan.iteration > 1, {})
    /\ UNCHANGED <<exhausted, ready, candidates, Elsewhere>>

\* Skipped for the budget: the analyst is reported as failed (as "timeout"
\* when its calls are gathered).
CodeSkips ==
    /\ CodeStarts
    /\ SingleCalls \cup GatheredCalls # {}
    /\ ~AllowNewCall /\ Check
    /\ Finish("code_analyst", FALSE, {})
    /\ UNCHANGED <<ready, candidates, Elsewhere>>

CodeAnalyzes ==
    /\ CodeStarts
    /\ SingleCalls \cup GatheredCalls # {}
    /\ AllowNewCall /\ Check
    /\ IF SingleCalls # {} THEN Issue("code_analyst", "single", SingleCalls)
       ELSE Issue("code_analyst", "gather", GatheredCalls)
    /\ UNCHANGED <<ready, candidates, Elsewhere>>

\* ok if any call returned, whatever it returned.
CodeReturns ==
    /\ At("code_analyst", "single") \/ At("code_analyst", "gather")
    /\ Settled("code_analyst")
    /\ Finish("code_analyst", task["code_analyst"].answered,
              {c[1] : c \in task["code_analyst"].useful})
    /\ UNCHANGED <<exhausted, ready, candidates, Elsewhere>>

IndexStarts ==
    /\ At("indexer", "start") /\ Check
    /\ IF AllowNewCall THEN Issue("indexer", "single", {<<"index_repository", "query">>})
       ELSE Finish("indexer", FALSE, {})
    /\ UNCHANGED <<ready, candidates, Elsewhere>>

IndexReturns ==
    /\ At("indexer", "single") /\ Settled("indexer")
    /\ Finish("indexer", TRUE, {})
    /\ UNCHANGED <<exhausted, ready, candidates, Elsewhere>>

-----------------------------------------------------------------------------
(* Answers, failures, timers.                                               *)

\* Usage on an analyst's payload is recorded when the call returns in time.
CallAnswers(a, c, useful) ==
    /\ pc = "awaiting" /\ c \in task[a].pending /\ ~task[a].grace
    /\ task' = [task EXCEPT ![a].pending = @ \ {c}, ![a].answered = TRUE,
                            ![a].useful = IF useful THEN @ \cup {c} ELSE @]
    /\ spent' \in IF c[1] \in LlmTools THEN {spent, Min2(spent + 1, TokenBudget)} ELSE {spent}
    /\ UNCHANGED <<left, reserve, exhausted, cutoff, planLeft, inScope, pc, plan, rounds,
                   ready, candidates, combined, emitted, answer>>

\* An error, or the end of a call that was cancelled.  The gather of the
\* find_entity calls and a call awaited alone hand it on at once.
CallFails(a, c) ==
    /\ pc = "awaiting" /\ c \in task[a].pending
    /\ CASE task[a].pc = "find" -> GraphFails
         [] task[a].pc = "single" -> Finish(a, FALSE, {}) /\ UNCHANGED <<ready, candidates>>
         [] OTHER -> /\ task' = [task EXCEPT ![a].pending = @ \ {c}]
                     /\ UNCHANGED <<ready, candidates>>
    /\ UNCHANGED <<exhausted, Elsewhere>>

\* The timer expires: cancelled, and given up CancelGrace later at the latest.
TimeUp(t) ==
    /\ task[t].pending # {} /\ ~task[t].grace /\ left = task[t].due
    /\ task' = [task EXCEPT ![t].grace = TRUE, ![t].due = @ - CancelGrace]
    /\ UNCHANGED <<exhausted, ready, candidates, Elsewhere>>

\* Nothing can run before the clock moves.
Waiting(t) == \/ task[t].pc \in {"off", "done"}
              \/ task[t].pending # {} /\ left > task[t].due
              \/ t = "code_analyst" /\ task[t].pc = "start" /\ ~CodeMayStart

Tick ==
    /\ left > 0
    /\ \/ pc = "routing"
       \/ /\ pc = "awaiting"
          /\ \A t \in Tasks : Waiting(t)
          /\ \E t \in Tasks : task[t].pending # {}
    /\ left' = left - 1
    /\ UNCHANGED <<budgetVars, inScope, pc, plan, rounds, roundVars, combined, emitted, answer>>

-----------------------------------------------------------------------------
(* synthesize_response.                                                     *)

Incomplete == Failed("graph_query") \/ Failed("code_analyst")
\* What synthesis takes for analyst evidence.
SynthesisEvidence == EvidenceOf(combined) \ {"find_patterns"}

AnswerWith(kind) == answer' = kind /\ pc' = "answered"

\* Out of scope, hits that are all incidental, or nothing found where something
\* was looked for; the wording of the question decides the last two.
Refuse ==
    /\ pc = "synthesis"
    /\ \/ (~inScope \/ Hits # {}) /\ AnswerWith("out_of_scope")
       \/ /\ inScope /\ Hits = {} /\ SynthesisEvidence = {}
          /\ AnswerWith(IF Incomplete THEN "no_evidence" ELSE "out_of_scope")
    /\ UNCHANGED <<left, budgetVars, inScope, plan, rounds, roundVars, combined, emitted>>

\* (mutant) the safety margin is not held back
SynthesisTimeoutToDeadline(r) == Min2(SynthesisTimeout + r - SynthesisReserve, left)
\* synthesis_timeout_s: the cap grows with the prompt as the reserve does.
SynthesisTimeoutWith(r) == Min2(SynthesisTimeout + r - SynthesisReserve, left - SafetyMargin)

Synthesize ==
    /\ pc = "synthesis"
    /\ inScope
    /\ Hits # {} \/ SynthesisEvidence # {} \/ ~Incomplete
    /\ \E r \in Reserves :
         /\ reserve' = r
         /\ IF SynthesisTimeoutWith(r) <= 0
            THEN AnswerWith("evidence_only") /\ UNCHANGED task
            ELSE /\ pc' = "awaiting" /\ UNCHANGED answer
                 /\ task' = [task EXCEPT !["llm"] =
                        [Off EXCEPT !.pc = "single", !.pending = {<<"synthesize", "query">>},
                                    !.due = left - SynthesisTimeoutWith(r)]]
    /\ UNCHANGED <<left, exhausted, spent, cutoff, planLeft, inScope, plan, rounds, ready,
                   candidates, combined, emitted>>

Streaming == pc = "awaiting" /\ task["llm"].pending # {}

Chunk ==
    /\ Streaming /\ ~emitted
    /\ emitted' = TRUE
    /\ UNCHANGED <<left, budgetVars, inScope, pc, plan, rounds, roundVars, combined, answer>>

\* The call ends in time, or fails or is given up: then the chunks are kept, or
\* the evidence is rendered.
SynthesisEnds ==
    /\ Streaming
    /\ \/ ~task["llm"].grace /\ AnswerWith("full")
       \/ AnswerWith(IF emitted THEN "partial" ELSE "evidence_only")
    /\ task' = [task EXCEPT !["llm"] = Off]
    /\ UNCHANGED <<left, budgetVars, inScope, plan, rounds, ready, candidates, combined, emitted>>

-----------------------------------------------------------------------------
Next == \/ Route \/ FirstRound \/ NextRound \/ StopRounds \/ EndRound
        \/ GraphSkips \/ GraphFinds \/ GraphHasCoordinates \/ GraphHasRelationships
        \/ CodeHasNothing \/ CodeSkips \/ CodeAnalyzes \/ CodeReturns
        \/ IndexStarts \/ IndexReturns
        \/ \E a \in Agents : \E c \in task[a].pending :
              CallFails(a, c) \/ \E useful \in BOOLEAN : CallAnswers(a, c, useful)
        \/ \E t \in Tasks : TimeUp(t)
        \/ Tick
        \/ Refuse \/ Synthesize \/ Chunk \/ SynthesisEnds

\* The event loop runs what is ready and fires timers; nothing is assumed of
\* the specialists or of the LLM.
Spec == Init /\ [][Next]_vars /\ WF_vars(Next)

-----------------------------------------------------------------------------
\* The derived synthesis timeout stays above zero however long planning takes
\* and whatever hangs, if the reserve was there when planning began
\* (docs/design-decisions.md, budget.py).
SynthesisHasTime ==
    pc = "synthesis" /\ planLeft >= SynthesisReserve =>
        /\ left >= SynthesisReserve - CancelGrace
        /\ \A r \in Reserves : SynthesisTimeoutWith(r) > 0

\* Once planning has begun, the answer is there before the request deadline, up
\* to the grace a cancelled call is given: rounds, calls and synthesis share one
\* clock (budget.py, executor.py, retry.py).
AnsweredInTime ==
    pc = "answered" => left >= Min2(planLeft, SafetyMargin - CancelGrace)

\* The analyst works on this round's coordinates: when it calls a tool that needs
\* them the graph has found them or failed, and it calls nothing but the
\* candidates when there are any (executor.py, graph_coords_ready).
AnalystUsesCoordinates ==
    At("code_analyst", "gather") /\ "graph_query" \in plan.agents =>
        /\ task["graph_query"].pc \in {"relate", "done"}
        /\ candidates # {} => \A c \in task["code_analyst"].pending : c[2] \in candidates

\* No round takes back what an earlier one found: an agent's evidence only grows
\* and an agent that has answered stays ok (evidence.py, merge_agent_outputs).
EvidenceKept ==
    [][\A a \in Agents : combined[a].present =>
          /\ combined[a].evidence \subseteq combined'[a].evidence
          /\ combined[a].ok => combined'[a].ok]_vars

\* A ceiling that has been reached stops every specialist: no call is issued once
\* the tokens are spent or only the reserve is left (budget.py, allow_new_call).
CeilingStopsCalls ==
    [][spent >= TokenBudget \/ left <= reserve \/ exhausted # "none" =>
          \A a \in Agents : task'[a].pending \subseteq task[a].pending]_vars

\* Every question is answered although every specialist and the LLM may hang
\* (executor.py "never raises", synthesis.py).
QuestionAnswered == <>(pc = "answered")
=============================================================================
