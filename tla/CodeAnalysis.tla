---------------------------- MODULE CodeAnalysis ----------------------------
(***************************************************************************)
(* The code analyst (core/analysis/service.py) over a graph of CodeGraph:  *)
(* which node a name is looked up as (lookups.py), whether its source can  *)
(* be read from the files on disk (snippets.py), and what the structured   *)
(* answer of the model adds.  Text, line numbers and prompts are left out. *)
(*                                                                         *)
(* A lookup takes the first row of an order whose last key is the length   *)
(* of the qualified name: any row of the least rank is possible.  An       *)
(* operator yields the set of its possible results.                        *)
(***************************************************************************)
EXTENDS GraphQuery

CONSTANTS FactoryNames,    \* names that the factory pattern takes for a factory's
          MaxListItems     \* MAX_PROMPT_LIST_ITEMS

ASSUME ListAssumption == MaxListItems \in Nat

----------------------------------------------------------------------------
(* Lookups                                                                 *)

\* A re-export: the name of a definition somewhere in the package that the
\* dotted name begins with.
IsReexportOf(node, name) ==
    Len(name) > 1 /\ Len(node.qn) > 1 /\ Last(node.qn) = Last(name) /\ node.qn[1] = name[1]

LookupRank(node, name) ==
    IF node.qn = name THEN 0 ELSE IF Bears(node, name) THEN 1 ELSE 2

\* The possible first rows, or None; a node without a qualified name (a
\* parameter, a decorator) comes before the others of its rank.
Lookup(graph, name, labels) ==
    LET found == {n \in graph.nodes : /\ n.label \in labels
                                      /\ Bears(n, name) \/ IsReexportOf(n, name)}
        least == {n \in found : \A m \in found : LookupRank(n, name) <= LookupRank(m, name)}
        unqualified == {n \in least : n.qn = <<>>}
    IN  IF found = {} THEN {None} ELSE IF unqualified # {} THEN unqualified ELSE least

FunctionContext(graph, name) == Lookup(graph, name, {"Function", "Method"})
ClassContext(graph, name) == Lookup(graph, name, {"Class"})
EntityLocation(graph, name) == Lookup(graph, name, Labels)

\* _callable_or_class_context: a function comes before a class, however it
\* was found.
Context(graph, name) ==
    UNION {IF n = None THEN ClassContext(graph, name) ELSE {n} : n \in FunctionContext(graph, name)}

----------------------------------------------------------------------------
(* Snippets and analyses                                                   *)

Result(of, error) == [of |-> of, error |-> error]

\* resolve_repo_path and get_snippet: a file below the repository's root.
Readable(file, disk) == file \in disk

\* Why the source of a node cannot be shown, or None; only the entities have
\* lines.
ReadSnippet(node, disk) ==
    IF node.label \notin Entities THEN "missing place"
    ELSE IF ~Readable(node.file, disk) THEN "unreadable" ELSE None

\* _complete and _require_parsed: an answer of the schema, or what is raised
\* when the model gives none or its provider fails; nothing catches it here.
Complete(of) == {Result(of, None), Result({}, "no valid answer"), Result({}, "provider failed")}

\* analyze_function, analyze_class, explain_implementation, of one context.
Analyze(contexts, disk) ==
    UNION {IF n = None THEN {Result({}, "not found")}
           ELSE IF ReadSnippet(n, disk) # None THEN {Result({}, ReadSnippet(n, disk))}
           ELSE Complete({n.qn}) : n \in contexts}

AnalyzeFunction(graph, name, disk) == Analyze(FunctionContext(graph, name), disk)
AnalyzeClass(graph, name, disk) == Analyze(ClassContext(graph, name), disk)
ExplainImplementation(graph, name, disk) == Analyze(Context(graph, name), disk)

CompareImplementations(graph, nameA, nameB, disk) ==
    UNION {LET errors == {ReadSnippet(n, disk) : n \in {a, b} \ {None}} \ {None}
           IN  IF None \in {a, b} THEN {Result({}, "not found")}
               ELSE IF errors # {} THEN {Result({}, e) : e \in errors}
               ELSE Complete({a.qn, b.qn}) : a \in Context(graph, nameA), b \in Context(graph, nameB)}

\* get_code_snippet: a file that exists and a line range are read as they
\* are; else the name, or the path that is no file, is looked up, and its
\* lines are taken, for a file that exists without asking whose they are.
GetCodeSnippet(graph, name, file, ranged, disk) ==
    LET exists == file # None /\ Readable(file, disk)
        wanted == IF name # None THEN name ELSE IF exists THEN None ELSE file
        shown(n) == IF exists THEN Result({n.qn}, IF n.label \in Entities THEN None ELSE "missing place")
                    ELSE Result({n.qn}, ReadSnippet(n, disk))
    IN  IF exists /\ ranged THEN {Result({file}, None)}
        ELSE IF wanted = None THEN {Result({}, "nothing asked for")}
        ELSE {IF n = None THEN Result({}, "not found") ELSE shown(n) : n \in EntityLocation(graph, wanted)}

----------------------------------------------------------------------------
(* Patterns                                                                *)

InScope(node, prefix) == prefix = None \/ IsPrefix(prefix, node.file) \/ IsSuffix(prefix, node.file)

SupportedPatterns == {"decorator", "dependency_injection", "factory"}

\* The rows of a pattern's query; only that of the decorators has a scope,
\* looks at classes and names its subject.
PatternRows(graph, pattern, prefix) ==
    LET along(type) == {r \in graph.edges : r.type = type}
    IN  CASE pattern = "decorator" ->
               {<<r.from.qn, r.to.of.name>> : r \in {x \in along("DECORATED_BY") : InScope(x.from, prefix)}}
          [] pattern = "dependency_injection" ->
               {<<r.from.qn, None>> : r \in {x \in along("HAS_PARAMETER") : x.to.of.injects}}
          [] pattern = "factory" ->
               {<<n.qn, None>> : n \in {m \in graph.nodes : /\ m.label \in {"Function", "Method"}
                                                            /\ Last(m.qn) \in FactoryNames}}

\* What the analyst's graph_lookup hands on of a page: not that it is cut.
RowsOf(page) == page.rows

\* (mutant) What the model lists is taken for the instances.
GraftOnModel(rows, explained) ==
    [instances |-> {r \in rows : r[1] \in explained}, explained |-> explained, error |-> None]

\* The model's explanations are grafted on the graph's instances by name.
Graft(rows, explained) ==
    [instances |-> rows, explained |-> explained \cap {r[1] : r \in rows}, error |-> None]

\* Why the tool has no instances to show.
NoPatterns(error) == [instances |-> {}, explained |-> {}, error |-> error]

\* find_patterns: a long list is not explained, and one that the model gives
\* no valid explanation for is kept; a failure of its provider is no
\* SchemaValidationError, escapes, and takes the instances with it.
FindPatterns(graph, pattern, prefix) ==
    IF pattern \notin SupportedPatterns THEN {NoPatterns("unknown pattern")}
    ELSE LET pages == {RowsOf(page) : page \in ExecuteQuery(PatternRows(graph, pattern, prefix))}
         IN  UNION {IF rows = {} \/ Cardinality(rows) > MaxListItems THEN {Graft(rows, {})}
                    ELSE {Graft(rows, names) : names \in (SUBSET {r[1] : r \in rows}) \cup {{<<"elsewhere">>}}}
                         \cup {NoPatterns("provider failed")}
                    : rows \in pages}
=============================================================================
