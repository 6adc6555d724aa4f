---------------------------- MODULE MCCodeSearch ----------------------------
(* Small repositories of a package p with the modules p.a and p.b.         *)
EXTENDS PythonNames

\* Statements one after another, and those that are in another's body: a
\* sequence of them keeps the positions of its own.
Then(a, b) == a \o [i \in DOMAIN b |-> [b[i] EXCEPT !.in = IF @ = 0 THEN 0 ELSE @ + Len(a)]]
Body(parts) == FoldLeft(Then, <<>>, parts)
Stmt(record) == <<record @@ [in |-> 0, branch |-> 1]>>
Enclose(stmt, body) == Stmt(stmt) \o [i \in DOMAIN body |-> [body[i] EXCEPT !.in = @ + 1]]

Import(name, as) == Stmt([kind |-> "import", names |-> <<[name |-> name, as |-> as]>>])
FromImport(level, module, names) == Stmt([kind |-> "from", level |-> level, module |-> module, names |-> names])
N(name) == [name |-> <<name>>, as |-> None]
As(name, as) == [name |-> <<name>>, as |-> as]
NoArgs == [positional |-> <<>>, vararg |-> <<>>, keyword |-> <<>>, kwarg |-> <<>>]
Arg(name, injects) == [name |-> name, injects |-> injects]
Def(name, parts) ==
    Enclose([kind |-> "def", name |-> name, args |-> NoArgs, decorators |-> <<>>], Body(parts))
Class(name, bases, parts) ==
    Enclose([kind |-> "class", name |-> name, bases |-> bases, decorators |-> <<>>], Body(parts))
Decorated(names, definition) == [definition EXCEPT ![1].decorators = names]
Taking(positional, keyword, definition) ==
    [definition EXCEPT ![1].args.positional = positional, ![1].args.keyword = keyword]
Doc(text) == Stmt([kind |-> "doc", text |-> <<text>>])
Block(typing, parts) == Enclose([kind |-> "block", typing |-> typing], Body(parts))
Call(callee) == Stmt([kind |-> "call", callee |-> callee, rooted |-> TRUE])
CallOfValue == Stmt([kind |-> "call", callee |-> <<"f">>, rooted |-> FALSE])

File(path, parts) == [path |-> path, body |-> Body(parts), parses |-> TRUE]

Packages == {
    <<>>,
    <<FromImport(1, <<"a">>, <<N("f")>>)>>,
    <<FromImport(1, <<"b">>, <<N("f")>>)>>,
    <<FromImport(0, <<"p", "a">>, <<N("g"), N("f")>>)>>}
ModulesA == {
    <<Doc("of a"), Decorated(<< <<"cache">>, <<"wraps">> >>, Def("f", <<Doc("of f")>>)),
      Taking(<<Arg("k", FALSE)>>, <<Arg("db", TRUE)>>, Def("g", <<Call(<<"f">>), CallOfValue>>))>>,
    <<Block(FALSE, <<Taking(<<Arg("x", TRUE)>>, <<>>, Def("f", <<>>))>>), Def("f", <<Doc("again")>>)>>,
    <<Block(FALSE, <<Def("f", <<>>)>>), Decorated(<< <<"cache">> >>, Class("C", <<>>, <<Def("m", <<Call(<<"self", "n">>)>>), Def("n", <<Call(<<"f">>)>>)>>))>>}
ImportsB == {
    <<>>,
    <<FromImport(1, <<"a">>, <<N("f")>>)>>,
    <<FromImport(0, <<"p">>, <<N("f")>>)>>,
    <<FromImport(1, <<>>, <<As("f", "h")>>)>>,
    <<FromImport(1, <<"a">>, <<N("g"), As("f", "h")>>)>>,
    <<FromImport(1, <<>>, <<N("a")>>)>>,
    <<Import(<<"p", "a">>, None)>>,
    <<Import(<<"p", "a">>, "h")>>,
    <<Block(TRUE, <<FromImport(2, <<"p", "a">>, <<N("f")>>)>>)>>,
    <<FromImport(1, <<"a">>, <<As("C", "h")>>), FromImport(1, <<"a">>, <<N("f")>>)>>}
BodiesB == {
    <<Def("k", <<Call(<<"f">>)>>)>>,
    <<Def("k", <<Def("f", <<>>), Block(FALSE, <<Call(<<"f">>)>>)>>)>>,
    <<Def("k", <<Def("z", <<>>), Block(FALSE, <<Call(<<"z">>)>>)>>)>>,
    <<Def("k", <<Call(<<"h">>)>>)>>,
    <<Def("k", <<Call(<<"h", "f">>)>>), Def("q", <<Call(<<"k">>)>>)>>,
    <<Class("D", << <<"h">> >>, <<Def("k", <<Call(<<"a", "f">>), Call(<<"p", "a", "f">>)>>)>>)>>}

SmallRepositories ==
    {{File(<<"p", "__init__">>, init), File(<<"p", "a">>, a), File(<<"p", "b">>, imports \o b)} :
        init \in Packages, a \in ModulesA, imports \in ImportsB, b \in BodiesB}
    \cup {{File(<<"p", "a">>, a), [path |-> <<"p", "b">>, body |-> Def("k", <<>>), parses |-> FALSE]} : a \in ModulesA}

AskedNames == {<<"f">>, <<"p", "a", "f">>, <<"k">>, <<"C">>, <<"p", "b">>}
AskedConcepts == {<<>>, << <<"f">>, <<"k">> >>}
=============================================================================
