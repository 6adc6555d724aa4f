------------------------- MODULE MCQueryExecution --------------------------
(* Small instances of a question's execution: see the .cfg files.           *)
EXTENDS QueryExecution, TLC
CONSTANTS t1, t2
Timeouts == [graph_query |-> 1, code_analyst |-> 2, indexer |-> 3]
PlanOf(intent, agents, entities) ==
    [intent |-> intent, agents |-> agents, entities |-> entities, terms |-> {t1, t2},
     iteration |-> 1, retry |-> Tools]
Plans == {PlanOf("lookup", {"graph_query", "code_analyst"}, {t1}),
          PlanOf("relationship", {"graph_query"}, {}),
          PlanOf("lookup", {"graph_query"}, {}),
          PlanOf("comparison", {"graph_query", "code_analyst"}, {t1, t2}),
          PlanOf("pattern", {"graph_query", "code_analyst"}, {}),
          PlanOf("indexing", {"indexer"}, {})}
=============================================================================
