------------------------------ MODULE ModelTurn -----------------------------
(***************************************************************************)
(* What one question asks of the language models: the orchestrator routes  *)
(* it (Routing), by a model if the rules leave it open, cuts the evidence  *)
(* to the budget of the synthesis prompt (PromptBudget), and streams the   *)
(* answer; LanguageModel says which provider is called and how often.      *)
(* Which evidence is found is the plan executor's (QueryExecution).        *)
(***************************************************************************)
EXTENDS Routing, PromptBudget, LanguageModel

CONSTANTS None,
          Names,                \* the identifiers of the repository
          Queries, Contexts,    \* questions and conversations: see Routing
          ModelIntents,         \* [kind, agents, entities] a model may answer
          Evidences, Budgets,   \* [neighbors, snippets], and the token budget
          MaxDeltas             \* bound on the chunks of a stream

ASSUME TurnAssumption ==
    /\ Queries \subseteq [cues : SUBSET ToSet(Cues), refers : BOOLEAN, long : BOOLEAN,
                           plain : BOOLEAN, names : Seq(Names)]
    /\ Contexts \subseteq [turns : Seq(Seq(Names)), summary : Seq(Names)]
    /\ ModelIntents \subseteq [kind : Kinds, agents : Seq(ToSet(AgentOrder)), entities : Seq(Names)]
    /\ Evidences \subseteq [neighbors : Seq(Item), snippets : Seq(Item)] /\ Budgets \subseteq Nat

Strategies == {"rules_first", "llm_first"}
TruncationOrders == {"snippets_then_lists", "lists_then_snippets"}

VARIABLES query, context,
          settings,        \* [strategy, providers, budget, order]
          phase, attempt,
          intent, evidence, round,
          emitted, result

turn == <<query, context, settings>>
vars == <<query, context, settings, phase, attempt, intent, evidence, round, emitted, result>>

Init ==
    /\ query \in Queries /\ context \in Contexts
    /\ settings \in [strategy : Strategies, budget : Budgets, order : TruncationOrders,
                     providers : {BuildLlmProvider(s) : s \in Settings} \ {Misconfigured}]
    /\ phase = "routing" /\ attempt = 0 /\ intent = None
    /\ evidence = <<>> /\ round = 0 /\ emitted = 0 /\ result = None

----------------------------------------------------------------------------
(* Routing                                                                 *)

NeedsModel == settings.strategy = "llm_first" \/ RuleBasedRoute(query).ambiguous

Route(found) ==
    /\ intent' = Planned(found, query, context)
    /\ phase' = "planned"

RouteByRules ==
    /\ phase = "routing" /\ ~NeedsModel
    /\ Route(IntentFromRuleResult(query, RuleBasedRoute(query), "rules", context))
    /\ UNCHANGED <<turn, attempt, evidence, round, emitted, result>>

\* The intents a provider may answer with; Jev answers with judgments.
IntentsOf(provider) ==
    IF provider = "jev"
    THEN {IntentFromAnswers(m.kind, OrderedAgents(m.agents), query.names, EntitiesFromContext(context),
              FallbackTargetAgents(query)) : m \in ModelIntents}
    ELSE {[mode |-> "llm", kind |-> m.kind, agents |-> m.agents, entities |-> m.entities] : m \in ModelIntents}

\* One attempt of analyze_query's call; when none is left, the rules decide.
RoutingAttempt ==
    LET provider == ProviderFor(settings.providers, "routing")
    IN  /\ phase = "routing" /\ NeedsModel
        /\ attempt' = attempt + 1
        /\ \E outcome \in Outcomes(provider) :
              /\ \/ /\ outcome = "answer"
                    /\ \E answered \in IntentsOf(provider) : Route(Analyzed(answered, query, context))
                 \/ /\ Retried(provider, outcome) /\ attempt' < AttemptsOf(provider)
                    /\ UNCHANGED <<phase, intent>>
                 \/ /\ outcome # "answer" /\ ~(Retried(provider, outcome) /\ attempt' < AttemptsOf(provider))
                    /\ Route(RulesFallback(query, context))
        /\ UNCHANGED <<turn, evidence, round, emitted, result>>

\* route_to_agents, and what the plan's agents find, as the prompt has it.
RunPlan ==
    /\ phase = "planned" /\ Routable(intent)
    /\ \E found \in Evidences : evidence' = <<CompactNeighbors(found.neighbors), found.snippets>>
    /\ phase' = "trimming"
    /\ UNCHANGED <<turn, attempt, intent, round, emitted, result>>

RoutingError ==
    /\ phase = "planned" /\ ~Routable(intent)
    /\ phase' = "failed"
    /\ UNCHANGED <<turn, attempt, intent, evidence, round, emitted, result>>

----------------------------------------------------------------------------
(* Synthesis                                                               *)

Fits == settings.budget = 0 \/ Tokens(evidence) <= settings.budget
Trimmable == Snippets(evidence) # {} \/ Lists(evidence) # {}

Trim ==
    /\ phase = "trimming" /\ ~Fits /\ Trimmable /\ round < MaxTrimRounds
    /\ evidence' = TrimRound(evidence, settings.budget, settings.order)
    /\ round' = round + 1
    /\ UNCHANGED <<turn, phase, attempt, intent, emitted, result>>

StartSynthesis ==
    /\ phase = "trimming" /\ (Fits \/ ~Trimmable \/ round = MaxTrimRounds)
    /\ phase' = "synthesis"
    /\ UNCHANGED <<turn, attempt, intent, evidence, round, emitted, result>>

Delta ==
    /\ phase = "synthesis" /\ emitted < MaxDeltas
    /\ emitted' = emitted + 1
    /\ UNCHANGED <<turn, phase, attempt, intent, evidence, round, result>>

Synthesized ==
    /\ phase = "synthesis"
    /\ result' = "answer" /\ phase' = "answered"
    /\ UNCHANGED <<turn, attempt, intent, evidence, round, emitted>>

\* The stream fails or times out: what it said is kept, and if it said
\* nothing the evidence is the answer.
SynthesisFails ==
    /\ phase = "synthesis"
    /\ result' = (IF emitted > 0 THEN "partial" ELSE "evidence") /\ phase' = "answered"
    /\ UNCHANGED <<turn, attempt, intent, evidence, round, emitted>>

Next == \/ RouteByRules \/ RoutingAttempt \/ RunPlan \/ RoutingError
        \/ Trim \/ StartSynthesis \/ Delta \/ Synthesized \/ SynthesisFails

Spec == Init /\ [][Next]_vars

----------------------------------------------------------------------------
(* Properties                                                              *)

\* Whichever way a question was routed (rules, a model's answer, judgments,
\* or a fallback after any failure): a question for the repository's own code
\* reaches the graph and the analyst, one that refers to something carries
\* the names of the earlier turns, one without names has theirs, and a
\* request to index reaches the indexer unless a model decides otherwise.
PlanServesQuestion ==
    intent # None =>
        LET prior == ToSet(EntitiesFromContext(context))
        IN  /\ WantsCodebaseGrounding(query) => {"graph_query", "code_analyst"} \subseteq ToSet(intent.agents)
            /\ query.refers \/ intent.entities = <<>> => prior \subseteq ToSet(intent.entities)
            /\ "index" \in query.cues /\ intent.mode # "llm" => "indexer" \in ToSet(intent.agents)

\* There are less places to cut than rounds.
FewCuts(halvings) ==
    \A found \in Evidences : Cuts(<<CompactNeighbors(found.neighbors), found.snippets>>, halvings) <= MaxTrimRounds

\* What is sent to the model exceeds the budget by no more tokens than the
\* mark of an omission takes, unless nothing more could be cut: as long as
\* there are less places to cut than rounds (FewCuts), and in either order of cutting,
\* whichever texts and lists the evidence has.
OverrunBounded ==
    (phase \in {"synthesis", "answered"} /\ settings.budget > 0 /\ Trimmable) =>
        Tokens(evidence) - settings.budget <= (Cost(Suffix) + CharsPerToken - 1) \div CharsPerToken

\* "Copy agent_payload and truncate until the synthesis prompt fits budget"
\* (apply_prompt_budget), as long as there is something to cut.
PromptFits == (phase \in {"synthesis", "answered"} /\ Trimmable) => Fits
=============================================================================
