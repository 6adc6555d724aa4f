------------------------------- MODULE Routing ------------------------------
(***************************************************************************)
(* How a question becomes a set of specialists (orchestration/router.py):  *)
(* by keyword rules, by a model's answer, or by the rules again when the   *)
(* model fails.                                                            *)
(*                                                                         *)
(* A question is what the expressions of the router find in it:            *)
(*   cues    index, relationship, lookup, compare, explain, examples and   *)
(*           pattern, whichever occur                                      *)
(*   refers  whether it has a word such as it, this, their                 *)
(*   names   its identifiers in order       long   above the rules' limit  *)
(*   plain   whether other words than fillers and identifiers are left     *)
(* A context is [turns, summary]: the user's turns with their names, oldest*)
(* first, and the names of the folded summary.  An intent is [mode, kind,  *)
(* entities, agents].                                                      *)
(***************************************************************************)
EXTENDS Naturals, Sequences, SequencesExt, FiniteSets

Cues == <<"index", "relationship", "lookup", "compare", "explain", "examples", "pattern">>
AgentOrder == <<"indexer", "graph_query", "code_analyst", "memory">>
Kinds == {"lookup", "relationship", "explanation", "pattern", "comparison", "indexing", "mixed"}

Text == "the question itself"     \* as a search term

\* _dedupe: the first of equal items stays.  deduped[n]: what is left of n items.
Dedupe(items) ==
    LET deduped[n \in 0 .. Len(items)] ==
            IF n = 0 THEN <<>>
            ELSE IF items[n] \in ToSet(deduped[n - 1]) THEN deduped[n - 1]
            ELSE Append(deduped[n - 1], items[n])
    IN  deduped[Len(items)]

OrderedAgents(agents) ==
    LET kept(n) == IF AgentOrder[n] \in ToSet(agents) THEN <<AgentOrder[n]>> ELSE <<>>
    IN  kept(1) \o kept(2) \o kept(3) \o kept(4)

WantsCodebaseGrounding(query) == "examples" \in query.cues

----------------------------------------------------------------------------
(* Entities                                                                *)

\* The names of earlier turns, the latest turn first, and of the summary.
EntitiesFromContext(context) ==
    Dedupe(FlattenSeq(Reverse(context.turns)) \o context.summary)

\* (mutant) A referring question keeps to the names it has itself.
ResolveOwn(query, extracted, context) ==
    IF extracted = <<>> THEN EntitiesFromContext(context) ELSE extracted

ResolveEntities(query, extracted, context) ==
    LET prior == EntitiesFromContext(context)
    IN  IF extracted = <<>> THEN prior
        ELSE IF query.refers /\ prior # <<>> THEN Dedupe(prior \o extracted)
        ELSE extracted

ApplyConversationEntities(intent, query, context) ==
    [intent EXCEPT !.entities = ResolveEntities(query, @, context)]

\* retrieval_search_terms, of a question that is not blank.
RetrievalSearchTerms(query, entities) ==
    LET names == Dedupe(entities \o query.names)
    IN  IF names = <<>> \/ WantsCodebaseGrounding(query) \/ query.plain THEN Append(names, Text) ELSE names

----------------------------------------------------------------------------
(* Rules                                                                   *)

\* Pattern wins over explain, and the lookup words go with any one category.
RuleBasedRoute(query) ==
    LET cued == IF query.cues = {} /\ query.refers THEN {"lookup"} ELSE query.cues
        rules == IF {"pattern", "explain"} \subseteq cued THEN cued \ {"explain"} ELSE cued
        compatible == rules \ {"lookup"}
        kind == IF compatible = {} THEN "lookup" ELSE CHOOSE c \in compatible : TRUE
    IN  IF query.long \/ rules = {} \/ Cardinality(compatible) > 1
        THEN [agents |-> <<>>, rules |-> IF query.long THEN {"too_long"} ELSE rules, ambiguous |-> TRUE]
        ELSE [rules |-> rules, ambiguous |-> FALSE,
              agents |-> CASE kind = "index" -> <<"indexer">>
                           [] kind \in {"lookup", "relationship"} -> <<"graph_query">>
                           [] kind = "pattern" -> <<"code_analyst">>
                           [] OTHER -> <<"graph_query", "code_analyst">>]

FallbackTargetAgents(query) ==
    (IF "index" \in query.cues THEN <<"indexer">> ELSE <<>>) \o <<"graph_query", "code_analyst">>

\* normalize_grounded_intent: a question for the repository's own code is
\* read in the graph and analysed, whatever was chosen.
NormalizeGroundedIntent(intent, query) ==
    IF ~WantsCodebaseGrounding(query) THEN intent
    ELSE [intent EXCEPT
            !.agents = OrderedAgents(@ \o <<"graph_query", "code_analyst">>),
            !.kind = CASE @ \in {"indexing", "relationship"} -> "mixed"
                       [] @ \in {"lookup", "pattern"} -> "explanation"
                       [] OTHER -> @]

IntentFromRuleResult(query, route, mode, context) ==
    NormalizeGroundedIntent(
        [mode |-> mode, agents |-> route.agents,
         entities |-> ResolveEntities(query, query.names, context),
         kind |-> CASE route.agents = <<"indexer">> -> "indexing"
                    [] route.agents = <<"code_analyst">> -> "pattern"
                    [] route.agents = <<"graph_query">> ->
                           IF "relationship" \in route.rules THEN "relationship" ELSE "lookup"
                    [] OTHER -> IF "compare" \in route.rules THEN "comparison" ELSE "explanation"], query)

\* _intent_from_rules_fallback: the rules without the model.
RulesFallback(query, context) ==
    LET route == RuleBasedRoute(query)
    IN  IF ~route.ambiguous THEN IntentFromRuleResult(query, route, "rules_fallback", context)
        ELSE NormalizeGroundedIntent(
                [mode |-> "rules_fallback", kind |-> "mixed", agents |-> FallbackTargetAgents(query),
                 entities |-> ResolveEntities(query, query.names, context)], query)

\* A model's intent, as analyze_query returns it.
Analyzed(intent, query, context) ==
    NormalizeGroundedIntent(ApplyConversationEntities(intent, query, context), query)

\* handle_query, once the question is routed: the same again, and no plan
\* without an agent.
Planned(intent, query, context) == Analyzed(intent, query, context)
Routable(intent) == intent.agents # <<>>
=============================================================================
