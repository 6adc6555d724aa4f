----------------------------- MODULE PythonFile -----------------------------
(***************************************************************************)
(* What the indexer reads in one Python file (core/indexing/parser.py):    *)
(* its imports, its definitions at every depth, with their parameters,     *)
(* decorators and docstrings, and the calls each function makes itself.    *)
(*                                                                         *)
(* A dotted name is the sequence of its parts, a module text with leading  *)
(* dots the pair of their number and the rest.  A file's body is the       *)
(* sequence of all its statements, at every depth, in the order in which   *)
(* the parser walks them.  A statement is a record of `in', the position   *)
(* of the statement whose body it is in (0 at the top), `branch', which of *)
(* the bodies of a block that is, and                                      *)
(*   import  names of [name, as]                                           *)
(*   from    level, module, names of [name, as]                            *)
(*   def     name, args, decorators                                        *)
(*   class   name, bases, decorators                                       *)
(*   block   typing: if, try, with, a loop or a match, and whether it is   *)
(*           an if that tests TYPE_CHECKING                                *)
(*   call    callee, rooted: whether the callee is a chain from a name     *)
(*   doc     text: a string, the docstring when it is the first statement  *)
(* Arguments are [name, injects]: whether their name, annotation or        *)
(* default has Depends in it.  Spans and texts of code are left out.       *)
(***************************************************************************)
EXTENDS Integers, Sequences, SequencesExt, FiniteSets

CONSTANT None        \* no alias, no class, nothing found

\* module_name_from_path: the parts of the path, __init__ being its package.
IsPackage(path) == Last(path) = "__init__"
ModuleName(path) == IF IsPackage(path) THEN Front(path) ELSE path

JoinQn(namespace, name) == Append(namespace, name)

\* What a parser reads: sequences of statements, names and arguments.
IsSeq(s) == s \in Seq(ToSet(s))
IsSource(body) ==
    /\ IsSeq(body)
    /\ \A i \in DOMAIN body :
         /\ body[i].kind = "import" => IsSeq(body[i].names)
         /\ body[i].kind = "class" => IsSeq(body[i].decorators)
         /\ body[i].kind = "def" =>
              /\ IsSeq(body[i].decorators)
              /\ IsSeq(body[i].args.positional) /\ IsSeq(body[i].args.vararg)
              /\ IsSeq(body[i].args.keyword) /\ IsSeq(body[i].args.kwarg)

----------------------------------------------------------------------------
(* Imports: the module's own statements and those under TYPE_CHECKING      *)

\* One alias stands for the whole statement: that of its only name, or the
\* only one that its names have.
AliasOf(names) ==
    LET aliases == {names[i].as : i \in DOMAIN names} \ {None}
    IN  IF Len(names) = 1 THEN names[1].as
        ELSE IF Cardinality(aliases) = 1 THEN CHOOSE x \in aliases : TRUE
        ELSE None

ImportsOf(stmt) ==
    IF stmt.kind = "import"
    THEN [i \in DOMAIN stmt.names |->
             [level |-> 0, module |-> stmt.names[i].name, names |-> <<stmt.names[i].name>>,
              alias |-> stmt.names[i].as]]
    ELSE <<[level |-> stmt.level, module |-> stmt.module, alias |-> AliasOf(stmt.names),
            names |-> [i \in DOMAIN stmt.names |-> stmt.names[i].name]]>>

\* At the top of the file, or in an if that tests TYPE_CHECKING and is read.
IsRead(body, i) ==
    LET read[j \in DOMAIN body] ==
            LET outer == body[j].in
            IN  \/ outer = 0
                \/ /\ body[outer].kind = "block" /\ body[outer].typing
                   /\ body[j].branch = 1 /\ read[outer]
    IN  read[i]

CollectImports(body) ==
    FlattenSeq([i \in DOMAIN body |->
        IF body[i].kind \in {"import", "from"} /\ IsRead(body, i) THEN ImportsOf(body[i]) ELSE <<>>])

----------------------------------------------------------------------------
(* Calls and definitions                                                   *)

\* The definition that a statement is in, 0 for the file: a block opens no
\* scope.
Owner(body, i) ==
    LET owner[j \in DOMAIN body] ==
            LET outer == body[j].in
            IN  IF outer = 0 \/ body[outer].kind # "block" THEN outer ELSE owner[outer]
    IN  owner[i]

\* _CallCollector: the calls of a body, without those of nested definitions.
CollectCalls(body, definition) ==
    {body[i].callee : i \in {j \in DOMAIN body : /\ body[j].kind = "call" /\ body[j].rooted
                                                /\ Owner(body, j) = definition}}

\* _parse_parameters: positional, *args, keyword-only, **kwargs.
ParseParameters(args) == args.positional \o args.vararg \o args.keyword \o args.kwarg

ParseDocstring(body, owner) ==
    LET first == owner + 1
    IN  IF first \in DOMAIN body /\ body[first].in = owner /\ body[first].kind = "doc"
        THEN body[first].text ELSE None

\* What a statement's body has its names in: the module, a class or a function.
Namespace(body, i, module) ==
    LET of[j \in 0 .. Len(body)] ==
            IF j = 0 THEN module ELSE JoinQn(of[Owner(body, j)], body[j].name)
    IN  of[i]

\* _collect_definitions: every definition, with its rank in the order of the
\* walk.  A function is a method when its immediate parent is a class.
Label(body, i) ==
    IF body[i].kind = "class" THEN "Class"
    ELSE IF Owner(body, i) # 0 /\ body[Owner(body, i)].kind = "class" THEN "Method"
    ELSE "Function"

Definition(body, i, module) ==
    LET stmt == body[i]
        isClass == stmt.kind = "class"
    IN  [label |-> Label(body, i), qn |-> Namespace(body, i, module),
         parent |-> Namespace(body, Owner(body, i), module),
         bases |-> IF isClass THEN stmt.bases ELSE <<>>,
         parameters |-> IF isClass THEN <<>> ELSE ParseParameters(stmt.args),
         decorators |-> stmt.decorators, doc |-> ParseDocstring(body, i), rank |-> i,
         calls |-> IF isClass THEN {} ELSE CollectCalls(body, i)]

CollectDefinitions(body, module) ==
    {Definition(body, i, module) : i \in {j \in DOMAIN body : body[j].kind \in {"def", "class"}}}

\* _parse_source; a file that does not parse is known by its path alone.
ParseFile(path, body, parses) ==
    [path |-> path, module |-> ModuleName(path), package |-> IsPackage(path),
     doc |-> IF parses THEN ParseDocstring(body, 0) ELSE None,
     imports |-> IF parses THEN CollectImports(body) ELSE <<>>,
     defined |-> IF parses THEN CollectDefinitions(body, ModuleName(path)) ELSE {}]

\* _emit_docstring, _emit_decorators and the parameters of _emit_callable.
DocstringsOf(file) ==
    {<<d.qn, d.doc>> : d \in {x \in file.defined : x.doc # None}}
    \cup (IF file.doc = None THEN {} ELSE {<<file.module, file.doc>>})
DecoratorsOf(file) == UNION {{<<d.qn, name>> : name \in ToSet(d.decorators)} : d \in file.defined}
ParametersOf(file) == UNION {{<<d.qn, p>> : p \in ToSet(d.parameters)} : d \in file.defined}

\* extracted_graph_from_parsed: the same as entities and relationships by
\* the names as they are written, with no resolution.
Extracted(file) ==
    LET rel(type, source, target) == [type |-> type, source |-> source, target |-> target]
    IN  [entities |-> {<<"File", file.path>>, <<"Module", file.module>>}
                      \cup {<<d.label, d.qn>> : d \in file.defined}
                      \cup {<<"Import", imported>> : imported \in ToSet(file.imports)}
                      \cup {<<"Parameter", p>> : p \in ParametersOf(file)}
                      \cup {<<"Decorator", d[2]>> : d \in DecoratorsOf(file)}
                      \cup {<<"Docstring", d>> : d \in DocstringsOf(file)},
         relationships |->
            {rel("CONTAINS", file.path, file.module)}
            \cup {rel("CONTAINS", d.parent, d.qn) : d \in file.defined}
            \cup (UNION {{rel("INHERITS_FROM", d.qn, base) : base \in ToSet(d.bases)} : d \in file.defined})
            \cup (UNION {{rel("CALLS", d.qn, callee) : callee \in d.calls} : d \in file.defined})
            \cup {rel("HAS_PARAMETER", p[1], <<p[2].name>>) : p \in ParametersOf(file)}
            \cup {rel("DECORATED_BY", d[1], d[2]) : d \in DecoratorsOf(file)}
            \cup {rel("DOCUMENTED_BY", d[1], d[2]) : d \in DocstringsOf(file)}
            \cup {rel("IMPORTS", file.module, <<i.level, i.module>>) : i \in ToSet(file.imports)}
            \cup {rel("DEPENDS_ON", file.module, i.module) :
                     i \in {j \in ToSet(file.imports) : j.module # <<>> \/ j.level > 0}}]
=============================================================================
