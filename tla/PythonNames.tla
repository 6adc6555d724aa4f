---------------------------- MODULE PythonNames -----------------------------
(***************************************************************************)
(* What the names of a repository mean by the rules of Python, as far as   *)
(* they can be read from it: the reference that CodeSearch's answers about *)
(* callers are compared with.                                              *)
(***************************************************************************)
EXTENDS CodeSearch

----------------------------------------------------------------------------
(* What a name denotes, by the rules of Python                             *)

Package(f) == IF IsPackage(f.path) THEN ModuleName(f.path) ELSE Front(ModuleName(f.path))
From(f, stmt) ==
    IF stmt.level = 0 THEN stmt.module
    ELSE IF stmt.level > Len(Package(f)) THEN <<"nowhere">>
    ELSE SubSeq(Package(f), 1, Len(Package(f)) - stmt.level + 1) \o stmt.module

\* Every name that a file binds, in all its scopes: the scope, the name, and
\* the path that it stands for.
Binders(f) ==
    LET module == ModuleName(f.path)
        statements(kinds) == {i \in DOMAIN f.body : f.body[i].kind \in kinds}
        bind(i, name, path) ==
            [scope |-> Namespace(f.body, Owner(f.body, i), module), name |-> name, path |-> path]
        imported(i, n) == IF n.as = None THEN bind(i, n.name[1], SubSeq(n.name, 1, 1)) ELSE bind(i, n.as, n.name)
        taken(i, n) == bind(i, IF n.as = None THEN n.name[1] ELSE n.as, From(f, f.body[i]) \o n.name)
    IN  (UNION {{imported(i, n) : n \in ToSet(f.body[i].names)} : i \in statements({"import"})})
        \cup (UNION {{taken(i, n) : n \in ToSet(f.body[i].names)} : i \in statements({"from"})})
        \cup {bind(i, f.body[i].name, Namespace(f.body, i, module)) : i \in statements({"def", "class"})}

\* What a path stands for: a definition, or what its module's binder of the
\* next part stands for; None when the repository does not say.
RECURSIVE Denotes(_, _, _)
Denotes(path, files, seen) ==
    LET owner == OwningModule(path, {ModuleName(f.path) : f \in files})
        binders == {b \in UNION {Binders(f) : f \in files} : b.scope = owner /\ b.name = path[Len(owner) + 1]}
        rest == SubSeq(path, Len(owner) + 2, Len(path))
    IN  IF path \in {b.path : b \in {x \in UNION {Binders(f) : f \in files} : x.path = Append(x.scope, x.name)}} THEN path
        ELSE IF path \in seen \/ owner = None \/ owner = path \/ binders = {} THEN None
        ELSE Denotes((CHOOSE b \in binders : TRUE).path \o rest, files, seen \cup {path})

\* The scopes that a name in the body of a function is looked up in: its own,
\* those of the functions around it, and the module's.
Scopes(f, caller, files) ==
    {s \in {SubSeq(caller, 1, k) : k \in Len(ModuleName(f.path)) .. Len(caller)} :
        s = ModuleName(f.path) \/ s \in Callables(Parsed(files))}
Meant(f, caller, callee, files) ==
    IF callee[1] = "self"
    THEN LET class == EnclosingClass(caller, Classes(Parsed(files)))
         IN  IF class = None THEN None ELSE Denotes(class \o Tail(callee), files, {})
    ELSE LET binders == {b \in Binders(f) : b.name = callee[1] /\ b.scope \in Scopes(f, caller, files)}
         IN  IF binders = {} THEN None
             ELSE Denotes((CHOOSE b \in binders : TRUE).path \o Tail(callee), files, {})

\* The calls of a repository, as pairs of the caller and what is meant.
CallsMeant(files) ==
    UNION {UNION {{<<d.qn, Meant(f, d.qn, callee, files)>> : callee \in d.calls}
                  : d \in ParseFile(f.path, f.body, f.parses).defined} : f \in files}

\* A file in which every name is bound once, by a statement the parser reads
\* as Python does: at the top or under TYPE_CHECKING, without an alias among
\* several names, and not a name of a module of that name.
PlainImports(body) ==
    \A i \in {j \in DOMAIN body : body[j].kind \in {"import", "from"}} :
       /\ IsRead(body, i)
       /\ body[i].kind = "from" =>
            /\ Len(body[i].names) = 1 \/ \A n \in DOMAIN body[i].names : body[i].names[n].as = None
            /\ body[i].level > 0 \/ body[i].module # body[i].names[1].name

Plain(files) ==
    /\ \A f \in files : f.parses /\ PlainImports(f.body)
    /\ \A f \in files : \A b, c \in Binders(f) : b.name = c.name => b = c
    \* A function inside a function has a name of its own.
    /\ \A f \in files : \A b \in Binders(f) : b.scope \in Callables(Parsed(files)) =>
           \A qn \in Callables(Parsed(files)) : Last(qn) = b.name => qn = b.path
    \* Whatever is called is defined in the repository.
    /\ \A call \in CallsMeant(files) : call[2] # None

----------------------------------------------------------------------------
(* Properties                                                              *)

\* The dependents of a function are exactly the functions that call it, by
\* the rules of Python, however the name got to the caller: the promise of
\* the whole way from parse_file through _resolve_name to get_dependents.
Shown(rows, type) == {r.qn : r \in {x \in rows : x.type = type /\ x.hop = "direct"}}
DependentsAreCallers ==
    (answer # None /\ answer.kind = "incoming" /\ graph # EmptyGraph
       /\ ~answer.result.truncated /\ Plain(repository)) =>
        Shown(answer.result.rows, "CALLS") =
            {call[1] : call \in {c \in CallsMeant(repository) :
                c[2] = answer.name \/ (Len(answer.name) = 1 /\ Last(c[2]) = answer.name[1])}}
=============================================================================
