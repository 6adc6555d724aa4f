---------------------------- MODULE LanguageModel ---------------------------
(***************************************************************************)
(* The providers of the language models (core/llm): which one answers a    *)
(* purpose, and how often it is asked.  What a model says, and whether     *)
(* its service answers, is up to it.                                       *)
(***************************************************************************)
EXTENDS Integers, Sequences, SequencesExt, FiniteSets

CONSTANTS MaxSchemaAttempts,   \* MAX_SCHEMA_ATTEMPTS
          JevRetries           \* DEFAULT_MAX_RETRIES of the Jev provider

ASSUME AttemptsAssumption == MaxSchemaAttempts \in Nat \ {0} /\ JevRetries \in Nat

Purposes == {"routing", "synthesis", "analysis", "summarization"}

----------------------------------------------------------------------------
(* factory.py and purpose_router.py                                        *)

\* The settings a deployment may have: its keys, and whether the routing
\* model is one of TypeSafe's.
Settings == [openrouter : BOOLEAN, typesafe : BOOLEAN, jevRoutes : BOOLEAN]

Misconfigured == [p \in {} |-> "a ConfigurationError"]

\* build_llm_provider: a TypeSafe model without its key is an error.
BuildLlmProvider(settings) ==
    LET default == IF settings.openrouter THEN "openrouter" ELSE "offline"
    IN  IF settings.jevRoutes /\ ~settings.typesafe THEN Misconfigured
        ELSE [p \in Purposes |-> IF settings.jevRoutes /\ p = "routing" THEN "jev" ELSE default]

ProviderFor(providers, purpose) == providers[purpose]

----------------------------------------------------------------------------
(* Calls                                                                   *)

\* How often a provider may be asked for one structured answer: again after
\* an answer that is not of the schema, or after a transient failure.
AttemptsOf(provider) ==
    CASE provider = "openrouter" -> MaxSchemaAttempts
      [] provider = "jev" -> JevRetries + 1
      [] provider = "offline" -> 1

\* What an attempt may come to.  The offline answer is never a QueryIntent;
\* judgments that Jev cannot use ("failed") are not asked for again.
Outcomes(provider) ==
    CASE provider = "openrouter" -> {"answer", "not of the schema", "failed"}
      [] provider = "jev" -> {"answer", "transient", "failed"}
      [] provider = "offline" -> {"not of the schema"}

Retried(provider, outcome) ==
    \/ provider = "openrouter" /\ outcome = "not of the schema"
    \/ provider = "jev" /\ outcome = "transient"

----------------------------------------------------------------------------
(* Jev's judgments                                                         *)

\* intent_from_answers: the agents judged likely enough, in their order, or
\* those of the fallback; the names are the question's own, or the ones it
\* came with.
IntentFromAnswers(kind, selected, names, prior, fallback) ==
    [mode |-> "llm", kind |-> kind,
     agents |-> IF selected = <<>> THEN fallback ELSE selected,
     entities |-> IF names = <<>> THEN prior ELSE names]
=============================================================================
