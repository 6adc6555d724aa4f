----------------------------- MODULE GraphQuery -----------------------------
(***************************************************************************)
(* The graph-query service (core/querying/service.py) and its Cypher       *)
(* templates (templates.py), over a graph of CodeGraph: which rows a query *)
(* matches, which of them its LIMIT keeps, how the rows of the lookups are *)
(* merged, and when a result says that it is truncated.                    *)
(*                                                                         *)
(* A LIMIT keeps the first rows of an order that may have ties, or of no   *)
(* order at all: an operator of a query yields the set of its possible     *)
(* results.  Ranking orders the hits and drops none, so a result's hits    *)
(* are a set.  What Lucene and the vector index find is up to them.        *)
(***************************************************************************)
EXTENDS CodeGraph

CONSTANTS ResultLimit,   \* DEFAULT_RESULT_LIMIT, of a query without its own
          BranchLimit,   \* DEFAULT_NEIGHBOR_BRANCH_LIMIT
          TraceDepth,    \* DEFAULT_TRACE_DEPTH
          TopK,          \* DEFAULT_RETRIEVAL_TOP_K
          LocalPackage   \* the directory FIND_IMPORTED_NAME prefers: fastapi

ASSUME LimitsAssumption == {ResultLimit, BranchLimit, TraceDepth, TopK} \subseteq Nat \ {0}

Lesser(a, b) == IF a < b THEN a ELSE b

\* The n first of rows, in an order in which rank does not decrease.
FirstOf(rows, n, rank) ==
    {kept \in SUBSET rows : /\ Cardinality(kept) = Lesser(n, Cardinality(rows))
                            /\ \A r \in kept, s \in rows \ kept : rank[r] <= rank[s]}

\* execute_query of a query without a LIMIT: a full page counts as cut.
ExecuteQuery(rows) ==
    {[rows |-> kept, truncated |-> Cardinality(kept) >= ResultLimit] :
        kept \in FirstOf(rows, ResultLimit, [r \in rows |-> 0])}

----------------------------------------------------------------------------
(* find_entity                                                             *)

\* A name in a query is a dotted one, never a file's path: the qualified name
\* of a node or the name it has.
ShortName(node) ==
    IF node.label \in Entities THEN <<Last(node.qn)>>
    ELSE IF node.label \in {"Parameter", "Decorator"} THEN node.of.name ELSE <<>>
Bears(node, name) == node.qn = name \/ ShortName(node) = name
IsNamed(node, name) == node.label \in Entities /\ Bears(node, name)

OfType(node, type) == type = None \/ node.label = type

FindEntity(graph, name, type) == {n \in graph.nodes : IsNamed(n, name) /\ OfType(n, type)}

\* get_docstring: a row for every node of the name, with or without a text.
GetDocstring(graph, name) ==
    LET texts(n) == {r.to.of.text : r \in {x \in graph.edges : x.type = "DOCUMENTED_BY" /\ x.from = n}}
        rows(n) == {[of |-> n.qn, text |-> t] : t \in IF texts(n) = {} THEN {None} ELSE texts(n)}
    IN  ExecuteQuery(UNION {rows(n) : n \in {m \in graph.nodes : IsNamed(m, name)}})

\* FIND_IMPORTED_NAME: the definitions that the imports of a name point to,
\* and if there are none the modules that import it, those of the package
\* before any others.
FindImportedName(graph, name, type) ==
    LET rels == {r \in graph.edges : /\ r.type = "IMPORTS"
                                     /\ name \in ToSet(r.to.of.names) \cup {<<r.to.of.alias>>}}
        pointsTo(of, n) ==
            IF of.level = 0 THEN n.qn = of.module \o name
            ELSE /\ of.level > 1 \/ of.module # <<>>
                 /\ Len(n.qn) > 1 /\ IsSuffix(of.module \o name, n.qn)
        resolved == {n \in graph.nodes : /\ n.label \in Entities /\ <<Last(n.qn)>> = name
                                         /\ \E r \in rels : pointsTo(r.to.of, n)}
        importers == {r.from : r \in rels}
        local == {m \in importers : Len(m.file) > 1 /\ m.file[1] = LocalPackage}
        hits == IF resolved # {} THEN resolved ELSE IF local # {} THEN local ELSE importers
    IN  {n \in hits : OfType(n, type)}

\* Hits with one key are one hit: the key is the qualified name.
HitKeys(nodes) == {n.qn : n \in nodes}

\* _merge_identifier_hits: the name, then what is imported by it.
Identifier(graph, name, type) ==
    {[keys |-> HitKeys(a.rows) \cup HitKeys(b.rows), truncated |-> a.truncated \/ b.truncated] :
        a \in ExecuteQuery(FindEntity(graph, name, type)),
        b \in ExecuteQuery(FindImportedName(graph, name, type))}

\* (mutant) A truncated lookup only keeps its rows, and does not say so.
AndThenForgets(first, second) ==
    UNION {IF a.truncated THEN {[a EXCEPT !.truncated = FALSE]}
           ELSE {[keys |-> a.keys \cup b.keys, truncated |-> b.truncated] : b \in second} : a \in first}

\* One lookup after another: once one is truncated, none follows.
AndThen(first, second) ==
    UNION {IF a.truncated THEN {a}
           ELSE {[keys |-> a.keys \cup b.keys, truncated |-> b.truncated] : b \in second} : a \in first}

UpTo(n, S) == UNION {kSubset(k, S) : k \in 0 .. n}

\* The full-text and the vector tier add at most TopK hits each, or fail;
\* a full page of full-text hits counts as cut, one of vector hits does not.
Tiers(graph, found) ==
    {[keys |-> found.keys \cup HitKeys(text) \cup HitKeys(vectors),
      truncated |-> found.truncated \/ Cardinality(text) >= TopK] :
        text \in UpTo(TopK, {n \in graph.nodes : n.label \in Entities}),
        vectors \in UpTo(TopK, {n \in graph.nodes : n.label \in Entities \ {"Module"}})}

\* retrieve: the name asked for, then those of the concept it speaks of.
Retrieve(graph, name, concepts, type) ==
    LET found[i \in 0 .. Len(concepts)] ==
            IF i = 0 THEN Identifier(graph, name, type)
            ELSE AndThen(found[i - 1], Identifier(graph, concepts[i], type))
    IN  IF type \notin Entities \cup {"File", None} THEN {[keys |-> {}, truncated |-> FALSE]}
        ELSE UNION {Tiers(graph, hits) : hits \in found[Len(concepts)]}

----------------------------------------------------------------------------
(* get_dependencies and get_dependents                                     *)

NeighborTypes == {"IMPORTS", "DEPENDS_ON", "CALLS"}

Source(r, direction) == IF direction = "outgoing" THEN r.from ELSE r.to
Other(r, direction) == IF direction = "outgoing" THEN r.to ELSE r.from

Owns(graph, n, m) == Rel("CONTAINS", n, m) \in graph.edges

\* A branch of the query: its matches are pairs of a node of the name and a
\* relationship; for a class also those of its module and of its methods.
Matches(graph, name, direction, hop) ==
    LET of == {n \in graph.nodes : IsNamed(n, name)}
        classes == {n \in of : n.label = "Class"}
        along(types) == {r \in graph.edges : r.type \in types}
        source(m) == Source(m[2], direction)
    IN  CASE hop = "direct" -> {m \in of \X along(NeighborTypes) : source(m) = m[1]}
          [] hop = "module" -> {m \in classes \X along({"IMPORTS", "DEPENDS_ON"}) :
                source(m).label = "Module" /\ Owns(graph, source(m), m[1])}
          [] hop = "method" -> {m \in classes \X along({"CALLS"}) :
                source(m).label = "Method" /\ Owns(graph, m[1], source(m))}
Hops == {"direct", "module", "method"}

InDegree(graph, n) == Cardinality({r \in graph.edges : r.type \in NeighborTypes /\ r.to = n})

\* What a row shows of its node: imports of one module look alike.
Row(match, direction, hop) ==
    LET n == Other(match[2], direction)
    IN  [type |-> match[2].type, hop |-> hop, label |-> n.label, qn |-> n.qn, file |-> n.file,
         of |-> IF n.of = None THEN None ELSE <<n.of.level, n.of.module>>]

Branch(graph, name, direction, hop) ==
    LET matches == Matches(graph, name, direction, hop)
        rank == [m \in matches |-> -InDegree(graph, Other(m[2], direction))]
    IN  {{Row(m, direction, hop) : m \in kept} : kept \in FirstOf(matches, BranchLimit, rank)}

\* (mutant) Only the name's own neighbours are counted.
CountDirect(graph, name, direction) == Cardinality(Matches(graph, name, direction, "direct"))

\* GET_DEPENDENCIES_COUNT, GET_DEPENDENTS_COUNT: all matches of all branches.
Count(graph, name, direction) ==
    Cardinality(Matches(graph, name, direction, "direct"))
    + Cardinality(Matches(graph, name, direction, "module"))
    + Cardinality(Matches(graph, name, direction, "method"))

GetNeighbors(graph, name, direction) ==
    {[rows |-> a \cup b \cup c,
      truncated |-> Count(graph, name, direction) > Cardinality(a \cup b \cup c)] :
        a \in Branch(graph, name, direction, "direct"),
        b \in Branch(graph, name, direction, "module"),
        c \in Branch(graph, name, direction, "method")}

----------------------------------------------------------------------------
(* trace_imports, find_related, get_statistics                             *)

\* Paths of one to n relationships, none of them twice.
PathsFrom(graph, node, n) ==
    LET along == {r \in graph.edges : r.type \in {"IMPORTS", "DEPENDS_ON"}}
        paths[k \in 1 .. n] ==
            IF k = 1 THEN {<<r>> : r \in {x \in along : x.from = node}}
            ELSE UNION {{Append(p, r) : r \in {x \in along \ ToSet(p) : x.from = Last(p).to}} : p \in paths[k - 1]}
    IN  UNION {paths[k] : k \in 1 .. n}

\* The module itself, or the one that owns a class of the name; the depth is
\* clipped to 1 .. TraceDepth.
TraceImports(graph, name, depth) ==
    LET of == {n \in graph.nodes : IsNamed(n, name)}
        sources == {n \in graph.nodes : n.label = "Module"
                        /\ (n \in of \/ \E c \in of : c.label = "Class" /\ Owns(graph, n, c))}
        capped == Greatest({1, Lesser(depth, TraceDepth)})
    IN  ExecuteQuery(UNION {PathsFrom(graph, s, capped) : s \in sources})

RelationshipTypes ==
    NeighborTypes \cup {"CONTAINS", "INHERITS_FROM", "DECORATED_BY", "HAS_PARAMETER", "DOCUMENTED_BY"}

FindRelated(graph, name, type) ==
    LET touching(n) == {m \in {"outgoing", "incoming"} \X graph.edges : m[2].type = type /\ Source(m[2], m[1]) = n}
    IN  IF type \notin RelationshipTypes THEN {[rows |-> {}, truncated |-> FALSE]}
        ELSE ExecuteQuery(UNION {touching(n) : n \in {m \in graph.nodes : Bears(m, name)}})

Labels == Entities \cup {"File", "Import", "Parameter", "Decorator", "Docstring"}
GetStatistics(graph) ==
    [nodes |-> [l \in Labels |-> Cardinality({n \in graph.nodes : n.label = l})],
     edges |-> [t \in RelationshipTypes |->
                   Cardinality({r \in graph.edges : r.type = t})]]
=============================================================================
