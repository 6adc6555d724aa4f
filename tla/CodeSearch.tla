----------------------------- MODULE CodeSearch -----------------------------
(***************************************************************************)
(* The way from a repository to an answer about it: the indexer parses the *)
(* files and links their names (PythonFile, CodeGraph), the graph-query    *)
(* service answers from the nodes and relationships (GraphQuery), and the  *)
(* code analyst from them and from the files on disk (CodeAnalysis).       *)
(* A repository is a set of files [path, body, parses], the body a         *)
(* sequence of statements as in PythonFile.                                *)
(***************************************************************************)
EXTENDS CodeAnalysis

CONSTANTS Repositories,
          Names, Concepts,   \* names asked for; the sequences of names that
                             \* a phrase may stand for
          Depths

ASSUME RepositoriesAssumption ==
    \A files \in Repositories : IsFiniteSet(files) /\ \A f \in files : IsSource(f.body)
ASSUME ConceptsAssumption == \A concepts \in Concepts : IsSeq(concepts)

VARIABLES repository, graph, answer
vars == <<repository, graph, answer>>

Parsed(files) == {ParseFile(f.path, f.body, f.parses) : f \in files}

Init == repository \in Repositories /\ graph = EmptyGraph /\ answer = None

Index ==
    /\ graph' = GraphOf(Parsed(repository))
    /\ UNCHANGED <<repository, answer>>

Answers(kind, name, results) ==
    /\ \E r \in results : answer' = [kind |-> kind, name |-> name, result |-> r]
    /\ UNCHANGED <<repository, graph>>

AskEntity ==
    \E name \in Names, concepts \in Concepts, type \in {None, "Function", "Parameter"} :
        Answers("entity", [name |-> name, concepts |-> concepts, type |-> type],
                Retrieve(graph, name, concepts, type))

AskDocstring == \E name \in Names : Answers("docstring", name, GetDocstring(graph, name))

AskNeighbors ==
    \E name \in Names, direction \in {"outgoing", "incoming"} :
        Answers(direction, name, GetNeighbors(graph, name, direction))

AskImports == \E name \in Names, depth \in Depths : Answers("imports", name, TraceImports(graph, name, depth))

AskRelated ==
    \E name \in Names, type \in {"CONTAINS", "INHERITS_FROM", "HAS_PARAMETER", "USES"} :
        Answers("related", name, FindRelated(graph, name, type))

AskStatistics == Answers("statistics", None, {GetStatistics(graph)})

\* The files that can be read are those of the repository, or some of them
\* are gone since they were indexed.
Disks == {{f.path : f \in repository}, {f.path : f \in {x \in repository : IsPackage(x.path)}}}

AskAnalysis ==
    \E name \in Names, disk \in Disks :
        \/ Answers("function", name, AnalyzeFunction(graph, name, disk))
        \/ Answers("class", name, AnalyzeClass(graph, name, disk))

AskExplanation ==
    \E name \in Names, disk \in Disks :
        \/ Answers("explanation", name, ExplainImplementation(graph, name, disk))
        \/ \E other \in Names :
              Answers("comparison", <<name, other>>, CompareImplementations(graph, name, other, disk))

AskSnippet ==
    \E name \in Names \cup {None}, file \in {None, <<"p", "b">>, <<"p", "c">>}, ranged \in BOOLEAN, disk \in Disks :
        Answers("snippet", name, GetCodeSnippet(graph, name, file, ranged, disk))

AskPatterns ==
    \E pattern \in SupportedPatterns \cup {"singleton"}, prefix \in {None, <<"a">>} :
        Answers("patterns", <<pattern, prefix>>, FindPatterns(graph, pattern, prefix))

\* extract_entities of the indexer: one file, with no look at the graph.
ExtractEntities == \E f \in Parsed(repository) : Answers("extracted", f.path, {Extracted(f)})

\* The next answer is asked of the same graph: one answer at a time is kept.
Next == \/ answer = None /\ (\/ graph = EmptyGraph /\ Index
                             \/ AskEntity \/ AskDocstring \/ AskNeighbors \/ AskImports
                             \/ AskRelated \/ AskStatistics \/ ExtractEntities
                             \/ AskAnalysis \/ AskExplanation \/ AskSnippet \/ AskPatterns)

Spec == Init /\ [][Next]_vars

----------------------------------------------------------------------------
(* Properties                                                              *)

\* A list of neighbours that is not marked as truncated lacks none, for all
\* that its branches are cut by a limit, duplicates of rows are merged after
\* it, and the total is counted by another query.
NeighborsComplete ==
    (answer # None /\ answer.kind \in {"incoming", "outgoing"} /\ ~answer.result.truncated) =>
        answer.result.rows =
            UNION {{Row(m, answer.kind, hop) : m \in Matches(graph, answer.name, answer.kind, hop)} : hop \in Hops}

\* A result of find_entity that is not marked as truncated has every node of
\* the name and of the names of its concept, though a truncated lookup keeps
\* the later ones from being made.
FoundComplete ==
    (answer # None /\ answer.kind = "entity" /\ ~answer.result.truncated) =>
        \A name \in {answer.name.name} \cup ToSet(answer.name.concepts) :
            HitKeys(FindEntity(graph, name, answer.name.type)) \subseteq answer.result.keys

\* The instances of a pattern are the definitions that have it in the files,
\* all of them as long as they are less than a page, however many of them the
\* model explains, validly or not, where every name is defined once (the
\* graph keeps the parameters of a definition that a later one of its name
\* has none for, and what decorates a definition is an edge of all that have
\* its name, in whatever file they are).  The exception is an answer whose
\* model's provider has failed: find_patterns means never to discard what the
\* graph has found, but this failure does (analysis/service.py:261).
DefinedOnce(files) ==
    \A f, g \in files : \A d \in f.defined, e \in g.defined : d.qn = e.qn => f = g /\ d = e
HavePattern(files, pattern, prefix) ==
    LET callables(f) == {d \in f.defined : d.label # "Class"}
    IN  CASE pattern = "decorator" ->
               UNION {DecoratorsOf(f) : f \in {x \in files : InScope([file |-> x.path], prefix)}}
          [] pattern = "dependency_injection" ->
               UNION {{<<d.qn, None>> : d \in {x \in callables(f) : \E p \in ToSet(x.parameters) : p.injects}} : f \in files}
          [] pattern = "factory" ->
               UNION {{<<d.qn, None>> : d \in {x \in callables(f) : Last(x.qn) \in FactoryNames}} : f \in files}
PatternsComplete ==
    (/\ answer # None /\ answer.kind = "patterns" /\ answer.name[1] \in SupportedPatterns
     /\ answer.result.error # "provider failed"
     /\ graph # EmptyGraph /\ DefinedOnce(Parsed(repository))) =>
        LET rows == HavePattern(Parsed(repository), answer.name[1], answer.name[2])
        IN  answer.result.instances \subseteq rows
            /\ (Cardinality(rows) < ResultLimit => answer.result.instances = rows)
=============================================================================
