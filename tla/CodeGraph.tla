----------------------------- MODULE CodeGraph ------------------------------
(***************************************************************************)
(* From source files to graph edges: how a full pass of the indexer        *)
(* (core/indexing/indexer.py, _upsert_parsed_files and the resolution it   *)
(* calls) turns the parsed files into nodes and resolves imports, base     *)
(* classes and calls to nodes, as the batches of core/graph/upserts.py     *)
(* store them.  Passes over some of the files, stale nodes and crashes are *)
(* Indexer's; here every file is indexed, and a name is looked up in all.  *)
(*                                                                         *)
(* A node is [label, qn, file, at, of]: what has no qualified name has a   *)
(* position or its content instead, an import for one the parsed           *)
(* statement; a relationship is [type, from, to].  No two files have one   *)
(* module name.  Content hashes, spans and the meta node are left out.     *)
(***************************************************************************)
EXTENDS PythonFile

CONSTANT MaxHops     \* _REEXPORT_MAX_HOPS
ASSUME HopsAssumption == MaxHops \in Nat

----------------------------------------------------------------------------
(* Names                                                                   *)

Least(S) == CHOOSE x \in S : \A y \in S : x <= y
Greatest(S) == CHOOSE x \in S : \A y \in S : x >= y

\* The longest of names that qn begins with, within its first n parts.
LongestPrefix(qn, n, names) ==
    LET known == {k \in 1 .. n : SubSeq(qn, 1, k) \in names}
    IN  IF known = {} THEN None ELSE SubSeq(qn, 1, Greatest(known))

OwningModule(qn, modules) == LongestPrefix(qn, Len(qn), modules)
EnclosingClass(qn, classes) == LongestPrefix(qn, Len(qn) - 1, classes)

\* Each dot strips a level, the first of them not for a package; above the
\* root nothing is left but what follows the dots.
ResolveRelativeModule(level, rest, file) ==
    IF level = 0 THEN rest
    ELSE LET keep == Len(file.module) - level + (IF file.package THEN 1 ELSE 0)
         IN  (IF keep <= 0 THEN <<>> ELSE SubSeq(file.module, 1, keep)) \o rest

Target(imported, file) == ResolveRelativeModule(imported.level, imported.module, file)

\* What one import binds, as pairs of a name and the path it stands for.  An
\* absolute import whose one name is its module is taken for a plain one.
BindingsOf(imported, file) ==
    LET key(name) == IF imported.alias = None THEN name ELSE <<imported.alias>>
    IN  IF imported.level = 0 /\ imported.names = <<imported.module>>
        THEN << <<key(imported.module), imported.module>>,
                <<SubSeq(imported.module, 1, 1), SubSeq(imported.module, 1, 1)>> >>
        ELSE [n \in DOMAIN imported.names |->
                 <<key(imported.names[n]), Target(imported, file) \o imported.names[n]>>]

\* bindings_from_imports: the first import that binds a name wins.
Binding(file, name) ==
    LET pairs == FlattenSeq([i \in DOMAIN file.imports |-> BindingsOf(file.imports[i], file)])
        of == {i \in DOMAIN pairs : pairs[i][1] = name}
    IN  IF of = {} THEN None ELSE pairs[Least(of)][2]

\* (mutant) The target of a re-export is not followed any further.
FollowOnce(path, known, files) ==
    IF path \in known THEN path ELSE None

\* A path rewritten by the import of its owning module that binds its next
\* part, or None.
Rewritten(path, files) ==
    LET owner == OwningModule(path, {f.module : f \in files})
        file == CHOOSE f \in files : f.module = owner
        next == Binding(file, <<path[Len(owner) + 1]>>)
    IN  IF owner = None \/ owner = path \/ next = None THEN None
        ELSE next \o SubSeq(path, Len(owner) + 2, Len(path))

\* _follow_reexports: a path that is no node is rewritten, MaxHops times at
\* most.
FollowReexports(path, known, files) ==
    LET after[hops \in 0 .. MaxHops] ==
            IF hops = 0 THEN path
            ELSE LET before == after[hops - 1]
                 IN  IF before = None \/ before \in known THEN before ELSE Rewritten(before, files)
    IN  IF after[MaxHops] \in known THEN after[MaxHops] ELSE None

FirstIndexed(paths, known, files) ==
    LET found == {i \in DOMAIN paths : FollowReexports(paths[i], known, files) # None}
    IN  IF found = {} THEN None ELSE FollowReexports(paths[Least(found)], known, files)

----------------------------------------------------------------------------
(* Resolution                                                              *)

Modules(files) == {f.module : f \in files}
Defined(files, labels) == {d.qn : d \in {x \in UNION {f.defined : f \in files} : x.label \in labels}}
Callables(files) == Defined(files, {"Function", "Method"})
Classes(files) == Defined(files, {"Class"})

\* The modules a file imports, as far as they are indexed.
ImportedModules(file, files) ==
    {Target(i, file) : i \in {j \in ToSet(file.imports) : j.module # <<>> \/ j.level > 0}}
        \cap Modules(files)

Visible(file, files) == {file.module} \cup ImportedModules(file, files)

\* The fallback of a bare name: the only definition of that name in the
\* modules the file may see.
OnlyMatch(name, file, known, files) ==
    LET matches == {qn \in known : /\ Last(qn) = name
                                   /\ OwningModule(qn, Modules(files)) \in Visible(file, files)}
    IN  IF Cardinality(matches) = 1 THEN CHOOSE qn \in matches : TRUE ELSE None

\* _resolve_name, by its receiver: self and cls in the enclosing class, then
\* the binding of the first part, the module's own name, the spelling itself.
ResolveName(callee, caller, file, known, files) ==
    LET head == <<callee[1]>>
        rest == Tail(callee)
        bound == Binding(file, head)
        paths == (IF bound = None THEN <<>> ELSE <<bound \o rest>>) \o <<file.module \o callee, callee>>
    IN  IF callee[1] \in {"self", "cls"} /\ rest # <<>>
        THEN LET class == EnclosingClass(caller, Classes(files))
             IN  IF Len(rest) > 1 \/ class = None THEN None
                 ELSE FirstIndexed(<<class \o rest>>, known, files)
        ELSE LET found == FirstIndexed(paths, known, files)
             IN  IF found # None \/ rest # <<>> THEN found
                 ELSE OnlyMatch(callee[1], file, known, files)

----------------------------------------------------------------------------
(* The graph of a full pass                                                *)

Entities == {"Module", "Class", "Function", "Method"}

Node(label, qn, file) == [label |-> label, qn |-> qn, file |-> file.path, at |-> 0, of |-> None]
ImportNode(file, position) ==
    [label |-> "Import", qn |-> <<>>, file |-> file.path, at |-> position, of |-> file.imports[position]]

FileNode(file) == Node("File", <<>>, file)

\* A decorator is one node for all that carry it.
DecoratorNode(name) == [label |-> "Decorator", qn |-> <<>>, file |-> None, at |-> 0, of |-> [name |-> name]]

\* Parameters are merged by owner and position, docstrings by owner: of a
\* name that is defined again in its file the later ones stay, and the
\* parameters of the earlier that the later has none for.
ParameterNodes(file) ==
    LET node(d, p) == [label |-> "Parameter", qn |-> <<>>, file |-> file.path, at |-> p,
                       of |-> [owner |-> d.qn, name |-> <<d.parameters[p].name>>, injects |-> d.parameters[p].injects]]
        again(d, p) == \E e \in file.defined : e.qn = d.qn /\ e.rank > d.rank /\ p \in DOMAIN e.parameters
    IN  UNION {{node(d, p) : p \in {q \in DOMAIN d.parameters : ~again(d, q)}} : d \in file.defined}

DocstringNodes(file) ==
    LET node(owner, text) == [label |-> "Docstring", qn |-> <<>>, file |-> file.path, at |-> 0,
                              of |-> [owner |-> owner, text |-> text]]
        again(d) == \E e \in file.defined : e.qn = d.qn /\ e.rank > d.rank /\ e.doc # None
    IN  {node(d.qn, d.doc) : d \in {e \in file.defined : e.doc # None /\ ~again(e)}}
        \cup (IF file.doc = None THEN {} ELSE {node(file.module, file.doc)})

Nodes(files) ==
    {Node("Module", f.module, f) : f \in files}
    \cup {FileNode(f) : f \in files}
    \cup (UNION {ParameterNodes(f) \cup DocstringNodes(f) : f \in files})
    \cup (UNION {{DecoratorNode(d[2]) : d \in DecoratorsOf(f)} : f \in files})
    \cup (UNION {{Node(d.label, d.qn, f) : d \in f.defined} : f \in files})
    \cup (UNION {{ImportNode(f, p) : p \in DOMAIN f.imports} : f \in files})

\* The parent of a definition is a module or a class, for a method a class,
\* if there is one of that name, and else whatever has the name.
Parents(label, parent, nodes) ==
    LET direct == {n \in nodes : n.qn = parent /\ n.label = (IF label = "Method" THEN "Class" ELSE "Module")}
    IN  IF direct # {} THEN direct ELSE {n \in nodes : n.qn = parent /\ n.label \in Entities}

Rel(type, from, to) == [type |-> type, from |-> from, to |-> to]
Between(type, sources, targets) == {Rel(type, s, t) : s \in sources, t \in targets}

Containment(files) ==
    {Rel("CONTAINS", FileNode(f), Node("Module", f.module, f)) : f \in files}
    \cup (UNION {UNION {Between("CONTAINS", Parents(d.label, d.parent, Nodes(files)) \ {Node(d.label, d.qn, f)},
                           {Node(d.label, d.qn, f)}) : d \in f.defined} : f \in files})

Named(qn, labels, files) == {n \in Nodes(files) : n.qn = qn /\ n.label \in labels}

\* Imports; a module never depends on itself.
Imports(files) ==
    UNION {{Rel("IMPORTS", Node("Module", f.module, f), ImportNode(f, p)) : p \in DOMAIN f.imports} : f \in files}
DependsOn(files) ==
    UNION {UNION {LET target == {Target(f.imports[p], f)} \cap (ImportedModules(f, files) \ {f.module})
                      to == {n \in Nodes(files) : n.label = "Module" /\ n.qn \in target}
                  IN  Between("DEPENDS_ON", {ImportNode(f, p), Node("Module", f.module, f)}, to)
                  : p \in DOMAIN f.imports} : f \in files}

Inherits(files) ==
    UNION {UNION {UNION {LET parent == ResolveName(base, d.qn, f, Classes(files), files)
                         IN  IF parent \in {None, d.qn} THEN {}
                             ELSE Between("INHERITS_FROM", Named(d.qn, {"Class"}, files), Named(parent, {"Class"}, files))
                         : base \in ToSet(d.bases)} : d \in f.defined} : f \in files}

Calls(files) ==
    UNION {UNION {UNION {LET callee == ResolveName(name, d.qn, f, Callables(files), files)
                             callable == {"Function", "Method"}
                         IN  IF callee = None THEN {}
                             ELSE Between("CALLS", Named(d.qn, callable, files), Named(callee, callable, files))
                         : name \in d.calls} : d \in f.defined} : f \in files}

HasParameter(files) ==
    UNION {UNION {Between("HAS_PARAMETER", Named(p.of.owner, {"Function", "Method"}, files), {p})
                  : p \in ParameterNodes(f)} : f \in files}
DecoratedBy(files) ==
    UNION {UNION {Between("DECORATED_BY", Named(d[1], Entities \ {"Module"}, files), {DecoratorNode(d[2])})
                  : d \in DecoratorsOf(f)} : f \in files}
DocumentedBy(files) ==
    UNION {UNION {Between("DOCUMENTED_BY", Named(d.of.owner, Entities, files), {d})
                  : d \in DocstringNodes(f)} : f \in files}

GraphOf(files) ==
    [nodes |-> Nodes(files),
     edges |-> Containment(files) \cup Imports(files) \cup DependsOn(files) \cup Inherits(files) \cup Calls(files)
               \cup HasParameter(files) \cup DecoratedBy(files) \cup DocumentedBy(files)]
EmptyGraph == [nodes |-> {}, edges |-> {}]
=============================================================================
