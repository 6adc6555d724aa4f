---------------------------- MODULE MCModelTurn ----------------------------
(* A small instance of ModelTurn: questions with none to three cues, with  *)
(* and without names, before and after others; texts in which a character  *)
(* takes one or two of the budget, and lists longer than the prompt shows. *)
EXTENDS ModelTurn

CONSTANTS A, B

Question(cues, names, refers, long) ==
    [cues |-> cues, names |-> names, refers |-> refers, plain |-> names = <<>>, long |-> long]

SmallQueries ==
    {Question(cues, names, refers, FALSE) :
        cues \in {{}, {"index"}, {"lookup"}, {"relationship"}, {"examples"}, {"index", "examples"},
                  {"pattern", "explain"}, {"lookup", "explain", "compare"}},
        names \in {<<>>, <<A>>}, refers \in BOOLEAN}
    \cup {Question({"index", "lookup"}, <<A>>, FALSE, TRUE), Question({"examples"}, <<A>>, TRUE, TRUE)}

SmallContexts == {[turns |-> <<>>, summary |-> <<>>], [turns |-> <<>>, summary |-> <<A>>],
                  [turns |-> <<<<A>>, <<B>>>>, summary |-> <<A>>]}

SmallIntents == {[kind |-> kind, agents |-> agents, entities |-> <<>>] :
                    kind \in {"relationship", "mixed"}, agents \in {<<>>, <<"graph_query">>, <<"memory", "indexer">>}}
                \cup {[kind |-> "lookup", agents |-> <<"graph_query">>, entities |-> <<B>>]}

Row(n) == [text |-> <<>>, cost |-> n]
Source(text) == [text |-> text, cost |-> 1]
Plain == <<1, 1, 1, 1, 1, 1, 1>>
Lines == <<1, 2, 1, 2, 2>>

SmallEvidences == [neighbors : {<<>>, <<Row(2)>>, <<Row(3), Row(1), Row(3), Row(2)>>},
                   snippets : {<<>>, <<Source(Plain)>>, <<Source(Lines), Source(Plain)>>, <<Source(<<1>>), Source(Lines)>>}]

\* A list of two or three is halved once, one of four twice.
ASSUME SmallFewCuts == FewCuts([n \in 0 .. 4 |-> IF n < 2 THEN 0 ELSE IF n < 4 THEN 1 ELSE 2])

SmallSuffix == <<2, 1>>

\* The prompt of one question is cut: cutting does not look at the question.
OnePrompt == phase \in {"routing", "planned", "failed"} \/ (query = Question({}, <<>>, FALSE, FALSE) /\ context.summary = <<>>)
=============================================================================
