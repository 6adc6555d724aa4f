---------------------------- MODULE PromptBudget ----------------------------
(***************************************************************************)
(* How the evidence is cut until the synthesis prompt fits its budget      *)
(* (orchestration/prompt_budget.py).                                       *)
(*                                                                         *)
(* Evidence is a sequence of lists; an item of a list has a text (a        *)
(* snippet's body, empty for a row of the graph) and a cost for what else  *)
(* it shows.  A text is the sequence of what its characters cost in the    *)
(* prompt: the prompt is JSON, in which a newline takes two.               *)
(***************************************************************************)
EXTENDS Integers, Sequences, SequencesExt, FiniteSets

CONSTANTS CharsPerToken,     \* 4
          MinSnippetChars,   \* _MIN_SNIPPET_CHARS
          Suffix,            \* _OMISSION_SUFFIX: a newline and 15 more
          MaxTrimRounds,     \* _MAX_TRIM_ROUNDS
          NeighborKeep,      \* NEIGHBOR_PROMPT_KEEP
          Overhead           \* what the prompt takes without evidence

Costs == Seq(Nat \ {0})
Item == [text : Costs, cost : Nat \ {0}]

ASSUME PromptAssumption == /\ {CharsPerToken, MinSnippetChars, NeighborKeep} \subseteq Nat \ {0}
                           /\ {MaxTrimRounds, Overhead} \subseteq Nat
                           /\ Suffix \in Costs

\* sums[n]: of the first n costs.
Total(costs) ==
    LET sums[n \in 0 .. Len(costs)] == IF n = 0 THEN 0 ELSE sums[n - 1] + costs[n]
    IN  sums[Len(costs)]

Cost(text) == Total(text)
ItemCost(item) == item.cost + Cost(item.text)

\* measure_synthesis_prompt and estimate_tokens.
Tokens(evidence) ==
    LET lists == [l \in DOMAIN evidence |-> Total([i \in DOMAIN evidence[l] |-> ItemCost(evidence[l][i])])]
    IN  (Overhead + Total(lists) + CharsPerToken - 1) \div CharsPerToken

\* compact_neighbor_payloads, of a list of neighbours.
CompactNeighbors(items) == SubSeq(items, 1, IF Len(items) < NeighborKeep THEN Len(items) ELSE NeighborKeep)

\* The places of the payload in the order of _walk, and the first of the
\* greatest of them.
Items(evidence) == UNION {{<<l, i>> : i \in DOMAIN evidence[l]} : l \in DOMAIN evidence}
Before(p, q) == p[1] < q[1] \/ (p[1] = q[1] /\ p[2] < q[2])

Snippets(evidence) == {p \in Items(evidence) : Len(evidence[p[1]][p[2]].text) > MinSnippetChars}
LongestSnippet(evidence) ==
    LET length(p) == Len(evidence[p[1]][p[2]].text)
    IN  CHOOSE p \in Snippets(evidence) : \A q \in Snippets(evidence) \ {p} :
            length(q) < length(p) \/ (length(q) = length(p) /\ Before(p, q))

Lists(evidence) == {l \in DOMAIN evidence : Len(evidence[l]) > 1}
LongestList(evidence) ==
    CHOOSE l \in Lists(evidence) : \A m \in Lists(evidence) \ {l} :
        Len(evidence[m]) < Len(evidence[l]) \/ (Len(evidence[m]) = Len(evidence[l]) /\ l < m)

Excess(evidence, budget) == (Tokens(evidence) - budget) * CharsPerToken

\* _truncate_longest_snippet: the excess goes, and the suffix comes.
TruncateLongestSnippet(evidence, budget) ==
    LET p == LongestSnippet(evidence)
        keep == Len(evidence[p[1]][p[2]].text) - Excess(evidence, budget)
    IN  [evidence EXCEPT ![p[1]][p[2]].text = IF keep > 0 THEN SubSeq(@, 1, keep) \o Suffix ELSE <<>>]

\* _trim_longest_list: its first half stays.
TrimLongestList(evidence) ==
    [evidence EXCEPT ![LongestList(evidence)] = SubSeq(@, 1, Len(@) \div 2)]

\* (mutant) A payload without a long text is left as it is.
TrimTexts(evidence, budget, order) ==
    IF Snippets(evidence) # {} THEN TruncateLongestSnippet(evidence, budget) ELSE evidence

\* What a round of apply_prompt_budget does, or the evidence as it is when
\* there is nothing to cut.
TrimRound(evidence, budget, order) ==
    IF Snippets(evidence) # {} /\ (order = "snippets_then_lists" \/ Lists(evidence) = {})
    THEN TruncateLongestSnippet(evidence, budget)
    ELSE IF Lists(evidence) # {} THEN TrimLongestList(evidence)
    ELSE evidence

\* The cuts that leave nothing of a text: every long text erased, and every
\* list halved, halvings[n] times if it has n items.
Cuts(evidence, halvings) ==
    LET long(text) == IF Len(text) > MinSnippetChars THEN 1 ELSE 0
    IN  Total([l \in DOMAIN evidence |->
            halvings[Len(evidence[l])] + Total([i \in DOMAIN evidence[l] |-> long(evidence[l][i].text)])])
=============================================================================
