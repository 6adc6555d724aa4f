--------------------------- MODULE ModelTurnProofs --------------------------
(***************************************************************************)
(* Facts of ModelTurn for every question, conversation, evidence and       *)
(* answer of a model: however a question was routed, the plan serves it;   *)
(* however its evidence was cut, the prompt exceeds its budget by no more  *)
(* than the mark of an omission.                                           *)
(*                                                                         *)
(* The operators these facts are about recurse over sequences.  What a     *)
(* recursive function computes is proved by induction on a set (UpTo),     *)
(* once it is known that there is such a function (Iteration).             *)
(***************************************************************************)
EXTENDS ModelTurn, FiniteSetTheorems, WellFoundedInduction, TLAPS

-----------------------------------------------------------------------------
(* Recursion over a sequence.                                               *)

\* Induction over 0 .. n: the members of a set that is left with its successor.
LEMMA UpTo ==
  ASSUME NEW n \in Nat, NEW A, 0 \in A, \A i \in 1 .. n : i - 1 \in A => i \in A
  PROVE  \A i \in 0 .. n : i \in A
<1> DEFINE T == {i \in 0 .. n : i \notin A}
<1> SUFFICES ASSUME T # {} PROVE FALSE
  OBVIOUS
<1>1. T \subseteq Nat
  OBVIOUS
<1>2. PICK i \in T : \A j \in T : ~ (<<j, i>> \in OpToRel(<, Nat))
  <2> HIDE DEF T
  <2>1. QED
    BY <1>1, NatLessThanWellFounded, WFMin
<1>3. \A j \in T : ~ (j < i)
  <2> HIDE DEF T
  <2>1. QED
    BY <1>1, <1>2 DEF OpToRel
<1>4. i \in 0 .. n /\ i \notin A
  OBVIOUS
<1>5. i \in 1 .. n
  BY <1>4
<1>6. i - 1 \notin A
  BY <1>4, <1>5
<1>7. i - 1 \in T
  BY <1>5, <1>6
<1>8. QED
  BY <1>3, <1>5, <1>7

Iterates(f, n, T, base, step) ==
    /\ f \in [0 .. n -> T]
    /\ f[0] = base
    /\ \A i \in 1 .. n : f[i] = step[i][f[i - 1]]

\* A step can be iterated as often as one likes.
LEMMA Iteration ==
  ASSUME NEW n \in Nat, NEW T, NEW base \in T, NEW step \in [1 .. n -> [T -> T]]
  PROVE  \E f : Iterates(f, n, T, base, step)
<1> DEFINE A == {k \in 0 .. n : \E f : Iterates(f, k, T, base, step)}
<1>1. 0 \in A
  <2>1. Iterates([i \in 0 .. 0 |-> base], 0, T, base, step)
    BY DEF Iterates
  <2>2. QED
    BY <2>1
<1>2. ASSUME NEW k \in 1 .. n, k - 1 \in A PROVE k \in A
  <2>1. PICK f : Iterates(f, k - 1, T, base, step)
    BY <1>2
  <2>2. /\ k - 1 \in 0 .. k - 1 /\ k \in 0 .. k /\ 0 \in 0 .. k - 1 /\ 0 \in 0 .. k /\ k # 0
        /\ \A i \in 1 .. k : i \in 0 .. k /\ i - 1 \in 0 .. k - 1 /\ i - 1 # k
                             /\ i - 1 \in 0 .. k /\ (i # k => i \in 0 .. k - 1 /\ i \in 1 .. k - 1)
        /\ \A i \in 0 .. k : i # k => i \in 0 .. k - 1
    OBVIOUS
  <2> DEFINE last == step[k][f[k - 1]]
             g == [i \in 0 .. k |-> IF i = k THEN last ELSE f[i]]
  <2>3. /\ f \in [0 .. k - 1 -> T] /\ f[0] = base
        /\ \A i \in 1 .. k - 1 : f[i] = step[i][f[i - 1]]
    BY <2>1 DEF Iterates
  <2>4. last \in T
    BY <2>2, <2>3
  <2> HIDE DEF last
  <2>5. g \in [0 .. k -> T]
    BY <2>2, <2>3, <2>4
  <2>6. g[0] = base
    BY <2>2, <2>3
  <2>7. \A i \in 1 .. k : g[i - 1] = f[i - 1] /\ g[i] = IF i = k THEN last ELSE f[i]
    BY <2>2
  <2>8. \A i \in 1 .. k : g[i] = step[i][g[i - 1]]
    BY <2>2, <2>3, <2>7 DEF last
  <2> HIDE DEF g
  <2>9. k \in 0 .. n /\ Iterates(g, k, T, base, step)
    BY <2>5, <2>6, <2>8 DEF Iterates
  <2>10. QED
    BY <2>9
<1>3. n \in A
  <2> HIDE DEF A
  <2>1. n \in 0 .. n
    OBVIOUS
  <2>2. QED
    BY <1>1, <1>2, <2>1, UpTo
<1>4. QED
  BY <1>3

-----------------------------------------------------------------------------
(* Names.                                                                   *)

\* What one more item and what a second sequence adds.
LEMMA AppendSet ==
  ASSUME NEW S, NEW s \in Seq(S), NEW x \in S
  PROVE  Append(s, x) \in Seq(S) /\ ToSet(Append(s, x)) = ToSet(s) \cup {x}
<1>1. /\ DOMAIN s = 1 .. Len(s) /\ Len(s) \in Nat /\ DOMAIN Append(s, x) = 1 .. Len(s) + 1
      /\ Append(s, x) \in Seq(S) /\ Append(s, x)[Len(s) + 1] = x
      /\ \A i \in 1 .. Len(s) : Append(s, x)[i] = s[i]
  OBVIOUS
<1>2. 1 .. Len(s) + 1 = (1 .. Len(s)) \cup {Len(s) + 1}
  BY <1>1
<1> DEFINE t == Append(s, x)
<1> HIDE DEF t
<1>3. {t[i] : i \in (1 .. Len(s)) \cup {Len(s) + 1}} = {s[i] : i \in 1 .. Len(s)} \cup {x}
  BY <1>1 DEF t
<1>4. QED
  BY <1>1, <1>2, <1>3 DEF t, ToSet

LEMMA JoinSet ==
  ASSUME NEW S, NEW s \in Seq(S), NEW t \in Seq(S)
  PROVE  s \o t \in Seq(S) /\ ToSet(s \o t) = ToSet(s) \cup ToSet(t)
<1>1. /\ DOMAIN s = 1 .. Len(s) /\ Len(s) \in Nat /\ DOMAIN t = 1 .. Len(t) /\ Len(t) \in Nat
      /\ DOMAIN (s \o t) = 1 .. Len(s) + Len(t) /\ s \o t \in Seq(S)
      /\ \A i \in 1 .. Len(s) : (s \o t)[i] = s[i]
      /\ \A i \in 1 .. Len(t) : (s \o t)[Len(s) + i] = t[i]
  OBVIOUS
<1> DEFINE j == s \o t
<1>2. ASSUME NEW i \in DOMAIN j PROVE j[i] \in ToSet(s) \cup ToSet(t)
  <2>1. CASE i \in 1 .. Len(s)
    BY <1>1, <2>1 DEF ToSet
  <2>2. CASE i \notin 1 .. Len(s)
    <3>1. i - Len(s) \in 1 .. Len(t) /\ Len(s) + (i - Len(s)) = i
      BY <1>1, <1>2, <2>2
    <3>2. j[i] = t[i - Len(s)]
      BY <1>1, <3>1
    <3>3. QED
      BY <1>1, <3>1, <3>2 DEF ToSet
  <2>3. QED
    BY <2>1, <2>2
<1>3. ASSUME NEW i \in DOMAIN s PROVE s[i] \in ToSet(j)
  <2>1. i \in DOMAIN j /\ j[i] = s[i]
    BY <1>1
  <2> HIDE DEF j
  <2>2. QED
    BY <2>1 DEF ToSet
<1>4. ASSUME NEW i \in DOMAIN t PROVE t[i] \in ToSet(j)
  <2>1. Len(s) + i \in DOMAIN j /\ j[Len(s) + i] = t[i]
    BY <1>1
  <2> HIDE DEF j
  <2>2. QED
    BY <2>1 DEF ToSet
<1>5. QED
  BY <1>1, <1>2, <1>3, <1>4 DEF ToSet

\* Nothing is lost or added by leaving out what is there already.
LEMMA DedupeKeeps ==
  ASSUME NEW S, NEW items \in Seq(S)
  PROVE  Dedupe(items) \in Seq(S) /\ ToSet(Dedupe(items)) = ToSet(items)
<1> DEFINE with(n, s) == IF items[n] \in ToSet(s) THEN s ELSE Append(s, items[n])
           deduped[n \in 0 .. Len(items)] ==
               IF n = 0 THEN <<>>
               ELSE IF items[n] \in ToSet(deduped[n - 1]) THEN deduped[n - 1]
               ELSE Append(deduped[n - 1], items[n])
           first(n) == {items[i] : i \in 1 .. n}
<1>1. Dedupe(items) = deduped[Len(items)]
  BY DEF Dedupe
<1>2. Len(items) \in Nat /\ <<>> \in Seq(S) /\ DOMAIN items = 1 .. Len(items)
      /\ \A n \in 1 .. Len(items) : items[n] \in S
  OBVIOUS
<1>3. \A n \in 1 .. Len(items) : \A s \in Seq(S) :
          with(n, s) \in Seq(S) /\ ToSet(with(n, s)) = ToSet(s) \cup {items[n]}
  <2> SUFFICES ASSUME NEW n \in 1 .. Len(items), NEW s \in Seq(S)
      PROVE  with(n, s) \in Seq(S) /\ ToSet(with(n, s)) = ToSet(s) \cup {items[n]}
    OBVIOUS
  <2>1. ToSet(Append(s, items[n])) = ToSet(s) \cup {items[n]} /\ Append(s, items[n]) \in Seq(S)
    BY <1>2, AppendSet
  <2>2. items[n] \in ToSet(s) => ToSet(s) = ToSet(s) \cup {items[n]}
    OBVIOUS
  <2>3. QED
    BY <2>1, <2>2
<1> HIDE DEF with
<1>4. deduped = [n \in 0 .. Len(items) |->
                    IF n = 0 THEN <<>>
                    ELSE IF items[n] \in ToSet(deduped[n - 1]) THEN deduped[n - 1]
                    ELSE Append(deduped[n - 1], items[n])]
  <2> DEFINE step == [n \in 1 .. Len(items) |-> [s \in Seq(S) |-> with(n, s)]]
  <2>1. step \in [1 .. Len(items) -> [Seq(S) -> Seq(S)]]
    BY <1>3
  <2>2. PICK f : Iterates(f, Len(items), Seq(S), <<>>, step)
    <3> HIDE DEF step
    <3>1. QED
      BY <1>2, <2>1, Iteration
  <2>3. f \in [0 .. Len(items) -> Seq(S)] /\ f[0] = <<>>
    BY <2>2 DEF Iterates
  <2>4. ASSUME NEW n \in 1 .. Len(items) PROVE f[n] = with(n, f[n - 1])
    <3>1. n - 1 \in 0 .. Len(items)
      OBVIOUS
    <3>2. f[n] = step[n][f[n - 1]] /\ f[n - 1] \in Seq(S)
      BY <2>2, <2>3, <3>1 DEF Iterates
    <3>3. step[n][f[n - 1]] = with(n, f[n - 1])
      BY <3>2
    <3>4. QED
      BY <3>2, <3>3
  <2>5. f = [n \in 0 .. Len(items) |-> IF n = 0 THEN <<>> ELSE with(n, f[n - 1])]
    BY <2>3, <2>4
  <2>6. f = [n \in 0 .. Len(items) |->
                IF n = 0 THEN <<>>
                ELSE IF items[n] \in ToSet(f[n - 1]) THEN f[n - 1]
                ELSE Append(f[n - 1], items[n])]
    BY <2>5, Zenon DEF with
  <2>7. QED
    BY <2>6
<1> HIDE DEF deduped
<1>5. deduped = [n \in 0 .. Len(items) |-> IF n = 0 THEN <<>> ELSE with(n, deduped[n - 1])]
  BY <1>4, Zenon DEF with
<1>6. deduped[0] = <<>> /\ \A n \in 1 .. Len(items) : deduped[n] = with(n, deduped[n - 1])
  BY <1>2, <1>5
<1> DEFINE A == {n \in 0 .. Len(items) : deduped[n] \in Seq(S) /\ ToSet(deduped[n]) = first(n)}
<1>7. 0 \in A
  <2>1. first(0) = {} /\ ToSet(<<>>) = {} /\ 0 \in 0 .. Len(items)
    BY <1>2 DEF ToSet
  <2> HIDE DEF first
  <2>2. QED
    BY <1>2, <1>6, <2>1
<1>8. ASSUME NEW n \in 1 .. Len(items), n - 1 \in A PROVE n \in A
  <2>1. first(n) = first(n - 1) \cup {items[n]}
    <3>1. 1 .. n = (1 .. n - 1) \cup {n}
      OBVIOUS
    <3>2. QED
      BY <3>1
  <2>2. deduped[n - 1] \in Seq(S) /\ ToSet(deduped[n - 1]) = first(n - 1)
    BY <1>8
  <2> HIDE DEF first
  <2>3. n \in 0 .. Len(items) /\ deduped[n] \in Seq(S) /\ ToSet(deduped[n]) = first(n)
    BY <1>3, <1>6, <2>1, <2>2
  <2>4. QED
    BY <2>3
<1>9. Len(items) \in A
  <2> HIDE DEF A
  <2>1. Len(items) \in 0 .. Len(items)
    BY <1>2
  <2>2. QED
    BY <1>2, <1>7, <1>8, <2>1, UpTo
<1>10. first(Len(items)) = ToSet(items)
  BY <1>2 DEF ToSet
<1>11. QED
  BY <1>1, <1>9, <1>10

LEMMA FlattenTyped ==
  ASSUME NEW S, NEW seqs \in Seq(Seq(S))
  PROVE  FlattenSeq(seqs) \in Seq(S)
<1> DEFINE n == Len(seqs)
           flatten[i \in 1 .. Len(seqs)] == IF i = 1 THEN seqs[i] ELSE flatten[i - 1] \o seqs[i]
<1>1. n \in Nat /\ <<>> \in Seq(S) /\ \A i \in 1 .. n : seqs[i] \in Seq(S)
  OBVIOUS
<1>2. CASE n = 0
  <2>1. FlattenSeq(seqs) = seqs /\ seqs = <<>>
    BY <1>2 DEF FlattenSeq
  <2>2. QED
    BY <1>1, <2>1
<1>3. CASE n # 0
  <2>1. FlattenSeq(seqs) = flatten[n]
    BY <1>3 DEF FlattenSeq
  <2>2. flatten = [i \in 1 .. Len(seqs) |-> IF i = 1 THEN seqs[i] ELSE flatten[i - 1] \o seqs[i]]
    <3> DEFINE with(i, s) == IF i = 1 THEN seqs[i] ELSE s \o seqs[i]
               step == [i \in 1 .. n |-> [s \in Seq(S) |-> with(i, s)]]
    <3>1. \A i \in 1 .. n : \A s \in Seq(S) : with(i, s) \in Seq(S)
      BY <1>1
    <3> HIDE DEF with
    <3>2. step \in [1 .. n -> [Seq(S) -> Seq(S)]]
      BY <3>1
    <3>3. PICK f : Iterates(f, n, Seq(S), <<>>, step)
      <4> HIDE DEF step
      <4>1. QED
        BY <1>1, <3>2, Iteration
    <3>4. f \in [0 .. n -> Seq(S)]
      BY <3>3 DEF Iterates
    <3> DEFINE g == [i \in 1 .. Len(seqs) |-> f[i]]
    <3>5. ASSUME NEW i \in 1 .. Len(seqs)
          PROVE  g[i] = IF i = 1 THEN seqs[i] ELSE g[i - 1] \o seqs[i]
      <4>1. i - 1 \in 0 .. n /\ (i # 1 => i - 1 \in 1 .. Len(seqs))
        OBVIOUS
      <4>2. f[i] = step[i][f[i - 1]] /\ f[i - 1] \in Seq(S)
        BY <3>3, <3>4, <4>1 DEF Iterates
      <4>3. g[i] = with(i, f[i - 1])
        BY <4>2
      <4>4. i # 1 => g[i - 1] = f[i - 1]
        BY <4>1
      <4> HIDE DEF g
      <4>5. QED
        BY <4>3, <4>4 DEF with
    <3>6. g = [i \in 1 .. Len(seqs) |-> IF i = 1 THEN seqs[i] ELSE g[i - 1] \o seqs[i]]
      BY <3>5
    <3> HIDE DEF g
    <3>7. QED
      BY <3>6
  <2> HIDE DEF flatten
  <2> DEFINE A == {i \in 0 .. n : i # 0 => flatten[i] \in Seq(S)}
  <2>3. 0 \in A
    BY <1>1
  <2>4. ASSUME NEW i \in 1 .. n, i - 1 \in A PROVE i \in A
    <3>1. flatten[i] = IF i = 1 THEN seqs[i] ELSE flatten[i - 1] \o seqs[i]
      BY <2>2
    <3>2. i # 1 => i - 1 # 0
      OBVIOUS
    <3>3. i # 1 => flatten[i - 1] \in Seq(S)
      BY <2>4, <3>2
    <3>4. flatten[i] \in Seq(S)
      BY <1>1, <3>1, <3>3
    <3>5. QED
      BY <3>4
  <2>5. n \in A
    <3> HIDE DEF A
    <3>1. n \in 0 .. n
      BY <1>1
    <3>2. QED
      BY <1>1, <2>3, <2>4, <3>1, UpTo
  <2>6. QED
    BY <1>3, <2>1, <2>5
<1>4. QED
  BY <1>2, <1>3

LEMMA ReverseTyped ==
  ASSUME NEW S, NEW s \in Seq(S)
  PROVE  Reverse(s) \in Seq(S)
<1>1. \A i \in 1 .. Len(s) : (Len(s) - i) + 1 \in 1 .. Len(s) /\ s[(Len(s) - i) + 1] \in S
  OBVIOUS
<1>2. Len(s) \in Nat
  OBVIOUS
<1>3. Reverse(s) \in [1 .. Len(s) -> S]
  BY <1>1 DEF Reverse
<1>4. QED
  BY <1>2, <1>3

ContextType == [turns : Seq(Seq(Names)), summary : Seq(Names)]
QueryType == [cues : SUBSET ToSet(Cues), refers : BOOLEAN, long : BOOLEAN,
              plain : BOOLEAN, names : Seq(Names)]

LEMMA PriorTyped ==
  ASSUME NEW c \in ContextType
  PROVE  EntitiesFromContext(c) \in Seq(Names)
<1>1. c.turns \in Seq(Seq(Names)) /\ c.summary \in Seq(Names)
  BY DEF ContextType
<1>2. FlattenSeq(Reverse(c.turns)) \in Seq(Names)
  BY <1>1, ReverseTyped, FlattenTyped
<1>3. FlattenSeq(Reverse(c.turns)) \o c.summary \in Seq(Names)
  BY <1>1, <1>2
<1>4. QED
  BY <1>3, DedupeKeeps DEF EntitiesFromContext

\* The names a question is given: with those of the earlier turns, when it
\* refers to them or has none of its own.
LEMMA ResolveKeeps ==
  ASSUME NEW q, NEW c \in ContextType, NEW own \in Seq(Names)
  PROVE  LET prior == ToSet(EntitiesFromContext(c))
             resolved == ResolveEntities(q, own, c)
         IN  /\ resolved \in Seq(Names)
             /\ q.refers \/ resolved = <<>> => prior \subseteq ToSet(resolved)
<1> DEFINE prior == EntitiesFromContext(c)
           resolved == ResolveEntities(q, own, c)
<1>1. prior \in Seq(Names)
  BY PriorTyped
<1>2. prior \o own \in Seq(Names) /\ ToSet(prior \o own) = ToSet(prior) \cup ToSet(own)
  BY <1>1, JoinSet
<1>3. Dedupe(prior \o own) \in Seq(Names) /\ ToSet(Dedupe(prior \o own)) = ToSet(prior) \cup ToSet(own)
  BY <1>2, DedupeKeeps
<1> HIDE DEF prior
<1>4. resolved = IF own = <<>> THEN prior
                 ELSE IF q.refers /\ prior # <<>> THEN Dedupe(prior \o own)
                 ELSE own
  BY Zenon DEF ResolveEntities, prior
<1> HIDE DEF resolved
<1>5. ToSet(<<>>) = {}
  BY DEF ToSet
<1>6. CASE own = <<>>
  BY <1>1, <1>4, <1>6 DEF prior, resolved
<1>7. CASE own # <<>> /\ q.refers /\ prior # <<>>
  BY <1>3, <1>4, <1>7 DEF prior, resolved
<1>8. CASE own # <<>> /\ ~ (q.refers /\ prior # <<>>)
  <2>1. resolved = own /\ (q.refers => ToSet(prior) = {})
    BY <1>4, <1>5, <1>8
  <2>2. resolved \in Seq(Names) /\ (q.refers \/ resolved = <<>> => ToSet(prior) \subseteq ToSet(resolved))
    BY <1>8, <2>1
  <2>3. QED
    BY <2>2 DEF prior, resolved
<1>9. QED
  BY <1>6, <1>7, <1>8

-----------------------------------------------------------------------------
(* Agents.                                                                  *)

AgentNames == ToSet(AgentOrder)
Modes == {"rules", "rules_fallback", "llm"}
IntentType == [mode : Modes, kind : Kinds, agents : Seq(AgentNames), entities : Seq(Names)]

LEMMA Agents == AgentNames = {"indexer", "graph_query", "code_analyst", "memory"}
<1>1. DOMAIN AgentOrder = {1, 2, 3, 4}
  BY DEF AgentOrder
<1>2. /\ AgentOrder[1] = "indexer" /\ AgentOrder[2] = "graph_query"
      /\ AgentOrder[3] = "code_analyst" /\ AgentOrder[4] = "memory"
  BY DEF AgentOrder
<1>3. QED
  BY <1>1, <1>2 DEF AgentNames, ToSet

LEMMA OneSet == \A x : ToSet(<<x>>) = {x}
<1> TAKE x
<1>1. DOMAIN <<x>> = {1} /\ <<x>>[1] = x
  OBVIOUS
<1>2. QED
  BY <1>1 DEF ToSet

\* Ordering the agents neither adds nor drops one of those there are.
LEMMA OrderedKeeps ==
  ASSUME NEW agents
  PROVE  /\ OrderedAgents(agents) \in Seq(AgentNames)
         /\ ToSet(OrderedAgents(agents)) = ToSet(agents) \cap AgentNames
<1> DEFINE kept(n) == IF AgentOrder[n] \in ToSet(agents) THEN <<AgentOrder[n]>> ELSE <<>>
<1>1. OrderedAgents(agents) = kept(1) \o kept(2) \o kept(3) \o kept(4)
  BY Zenon DEF OrderedAgents
<1>2. ASSUME NEW n \in 1 .. 4
      PROVE  kept(n) \in Seq(AgentNames) /\ ToSet(kept(n)) = ToSet(agents) \cap {AgentOrder[n]}
  <2>1. AgentOrder[n] \in AgentNames
    BY Agents DEF AgentOrder
  <2>2. ToSet(<<AgentOrder[n]>>) = {AgentOrder[n]}
    BY OneSet
  <2>3. ToSet(<<>>) = {}
    BY DEF ToSet
  <2>4. CASE AgentOrder[n] \in ToSet(agents)
    BY <2>1, <2>2, <2>4
  <2>5. CASE AgentOrder[n] \notin ToSet(agents)
    BY <2>3, <2>5
  <2>6. QED
    BY <2>4, <2>5
<1> HIDE DEF kept
<1>3. 1 \in 1 .. 4 /\ 2 \in 1 .. 4 /\ 3 \in 1 .. 4 /\ 4 \in 1 .. 4
  OBVIOUS
<1>4. kept(1) \o kept(2) \in Seq(AgentNames)
      /\ ToSet(kept(1) \o kept(2)) = ToSet(agents) \cap {AgentOrder[1], AgentOrder[2]}
  BY <1>2, <1>3, JoinSet
<1> DEFINE two == kept(1) \o kept(2)
           three == two \o kept(3)
           four == three \o kept(4)
<1> HIDE DEF two
<1>5. three \in Seq(AgentNames) /\ ToSet(three) = ToSet(two) \cup ToSet(kept(3))
  <2>1. two \in Seq(AgentNames) /\ kept(3) \in Seq(AgentNames)
    BY <1>2, <1>3, <1>4 DEF two
  <2>2. QED
    BY <2>1, JoinSet
<1> HIDE DEF three
<1>6. four \in Seq(AgentNames) /\ ToSet(four) = ToSet(three) \cup ToSet(kept(4))
  BY <1>2, <1>3, <1>5, JoinSet
<1>7. AgentNames = {AgentOrder[1], AgentOrder[2], AgentOrder[3], AgentOrder[4]}
  BY Agents DEF AgentOrder
<1>8. ToSet(four) = ToSet(agents) \cap AgentNames
  BY <1>2, <1>3, <1>4, <1>5, <1>6, <1>7 DEF two
<1>9. OrderedAgents(agents) = four
  BY <1>1 DEF two, three
<1>10. QED
  BY <1>6, <1>8, <1>9

\* A question for the repository's own code gets both its agents.
LEMMA NormalizedKeeps ==
  ASSUME NEW i \in IntentType, NEW q
  PROVE  LET normal == NormalizeGroundedIntent(i, q)
         IN  /\ normal \in IntentType /\ normal.mode = i.mode /\ normal.entities = i.entities
             /\ ToSet(i.agents) \subseteq ToSet(normal.agents)
             /\ WantsCodebaseGrounding(q) => {"graph_query", "code_analyst"} \subseteq ToSet(normal.agents)
<1> DEFINE normal == NormalizeGroundedIntent(i, q)
           both == <<"graph_query", "code_analyst">>
           kind == CASE i.kind \in {"indexing", "relationship"} -> "mixed"
                     [] i.kind \in {"lookup", "pattern"} -> "explanation"
                     [] OTHER -> i.kind
           agents == OrderedAgents(i.agents \o both)
<1>1. i.agents \in Seq(AgentNames) /\ i.kind \in Kinds
  BY DEF IntentType
<1>2. both \in Seq(AgentNames) /\ ToSet(both) = {"graph_query", "code_analyst"}
  <2>1. "graph_query" \in AgentNames /\ "code_analyst" \in AgentNames
    BY Agents
  <2>2. DOMAIN both = {1, 2} /\ both[1] = "graph_query" /\ both[2] = "code_analyst"
    OBVIOUS
  <2>3. QED
    BY <2>1, <2>2 DEF ToSet
<1>3. agents \in Seq(AgentNames)
      /\ ToSet(agents) = (ToSet(i.agents) \cup {"graph_query", "code_analyst"}) \cap AgentNames
  <2> HIDE DEF both
  <2>1. i.agents \o both \in Seq(AgentNames) /\ ToSet(i.agents \o both) = ToSet(i.agents) \cup ToSet(both)
    BY <1>1, <1>2, JoinSet
  <2>2. QED
    BY <1>2, <2>1, OrderedKeeps
<1>4. ToSet(i.agents) \subseteq AgentNames
  BY <1>1 DEF ToSet
<1>5. kind \in Kinds
  BY <1>1 DEF Kinds
<1>6. normal = IF ~ WantsCodebaseGrounding(q) THEN i ELSE [i EXCEPT !.agents = agents, !.kind = kind]
  BY Zenon DEF NormalizeGroundedIntent
<1> HIDE DEF normal, agents, kind, both
<1>7. CASE ~ WantsCodebaseGrounding(q)
  BY <1>6, <1>7 DEF normal
<1>8. CASE WantsCodebaseGrounding(q)
  <2>1. normal = [i EXCEPT !.agents = agents, !.kind = kind]
    BY <1>6, <1>8
  <2>2. /\ normal \in IntentType /\ normal.mode = i.mode /\ normal.entities = i.entities
        /\ normal.agents = agents
    BY <1>3, <1>5, <2>1 DEF IntentType
  <2>3. ToSet(i.agents) \subseteq ToSet(agents) /\ {"graph_query", "code_analyst"} \subseteq ToSet(agents)
    BY <1>3, <1>4, Agents
  <2>4. QED
    BY <2>2, <2>3 DEF normal
<1>9. QED
  BY <1>7, <1>8


-----------------------------------------------------------------------------
(* The ways to an intent.                                                   *)

\* By rules, a request to index that they leave unambiguous is the indexer's.
LEMMA RulesTyped ==
  ASSUME NEW q \in QueryType
  PROVE  LET route == RuleBasedRoute(q)
         IN  /\ route.agents \in Seq(AgentNames)
             /\ "index" \in q.cues /\ ~ route.ambiguous => "indexer" \in ToSet(route.agents)
<1> DEFINE cued == IF q.cues = {} /\ q.refers THEN {"lookup"} ELSE q.cues
           rules == IF {"pattern", "explain"} \subseteq cued THEN cued \ {"explain"} ELSE cued
           compatible == rules \ {"lookup"}
           kind == IF compatible = {} THEN "lookup" ELSE CHOOSE c \in compatible : TRUE
           open == q.long \/ rules = {} \/ Cardinality(compatible) > 1
           agents == CASE kind = "index" -> <<"indexer">>
                       [] kind \in {"lookup", "relationship"} -> <<"graph_query">>
                       [] kind = "pattern" -> <<"code_analyst">>
                       [] OTHER -> <<"graph_query", "code_analyst">>
           route == RuleBasedRoute(q)
<1>1. route = IF open
              THEN [agents |-> <<>>, rules |-> IF q.long THEN {"too_long"} ELSE rules, ambiguous |-> TRUE]
              ELSE [rules |-> rules, ambiguous |-> FALSE, agents |-> agents]
  BY Zenon DEF RuleBasedRoute
<1>2. /\ <<>> \in Seq(AgentNames) /\ <<"indexer">> \in Seq(AgentNames)
      /\ <<"graph_query">> \in Seq(AgentNames) /\ <<"code_analyst">> \in Seq(AgentNames)
      /\ <<"graph_query", "code_analyst">> \in Seq(AgentNames)
  <2>1. {"indexer", "graph_query", "code_analyst"} \subseteq AgentNames
    BY Agents
  <2>2. QED
    BY <2>1
<1>3. agents \in Seq(AgentNames)
  <2> HIDE DEF kind
  <2>1. QED
    BY <1>2
<1>4. ASSUME "index" \in q.cues, ~ open PROVE kind = "index"
  <2>1. IsFiniteSet(ToSet(Cues))
    <3>1. DOMAIN Cues = 1 .. 7
      BY DEF Cues
    <3>2. IsFiniteSet(1 .. 7)
      <4>1. 1 \in Int /\ 7 \in Int
        OBVIOUS
      <4>2. QED
        BY <4>1, FS_Interval, Zenon
    <3> DEFINE cue == [n \in 1 .. 7 |-> Cues[n]]
               names == {cue[n] : n \in 1 .. 7}
    <3>3. ToSet(Cues) = names
      BY <3>1 DEF ToSet
    <3>4. cue \in [1 .. 7 -> names] /\ \A x \in names : \E n \in 1 .. 7 : cue[n] = x
      OBVIOUS
    <3>5. cue \in Surjection(1 .. 7, names)
      <4> HIDE DEF cue, names
      <4>1. QED
        BY <3>4 DEF Surjection
    <3> HIDE DEF cue, names
    <3>6. QED
      BY <3>2, <3>3, <3>5, FS_Surjection
  <2>2. q.cues \subseteq ToSet(Cues)
    BY DEF QueryType
  <2>3. cued = q.cues
    BY <1>4
  <2>4. compatible \subseteq ToSet(Cues) /\ "index" \in compatible
    BY <1>4, <2>2, <2>3
  <2> HIDE DEF compatible
  <2>5. IsFiniteSet(compatible)
    BY <2>1, <2>4, FS_Subset
  <2>6. ~ (Cardinality(compatible) > 1)
    BY <1>4
  <2>7. \A c \in compatible : c = "index"
    <3> SUFFICES ASSUME NEW c \in compatible, c # "index" PROVE FALSE
      OBVIOUS
    <3>1. /\ IsFiniteSet(compatible \ {"index"}) /\ IsFiniteSet((compatible \ {"index"}) \ {c})
          /\ Cardinality(compatible \ {"index"}) = Cardinality(compatible) - 1
          /\ Cardinality((compatible \ {"index"}) \ {c}) = Cardinality(compatible \ {"index"}) - 1
      BY <2>4, <2>5, FS_RemoveElement
    <3>2. Cardinality((compatible \ {"index"}) \ {c}) \in Nat /\ Cardinality(compatible) \in Nat
      BY <2>5, <3>1, FS_CardinalityType
    <3>3. QED
      BY <2>6, <3>1, <3>2
  <2>8. QED
    BY <2>4, <2>7
<1> HIDE DEF open, agents, kind
<1>5. ASSUME "index" \in q.cues, ~ open PROVE ToSet(agents) = {"indexer"}
  <2>1. agents = <<"indexer">>
    BY <1>4, <1>5 DEF agents
  <2>2. QED
    BY <2>1, OneSet
<1> HIDE DEF route
<1>6. CASE open
  <2>1. route.agents = <<>> /\ route.ambiguous
    BY <1>1, <1>6
  <2>2. QED
    BY <1>2, <2>1 DEF route
<1>7. CASE ~ open
  <2>1. route.agents = agents
    BY <1>1, <1>7
  <2>2. QED
    BY <1>3, <1>5, <1>7, <2>1 DEF route
<1>8. QED
  BY <1>6, <1>7

\* What is known of an intent before it becomes the plan.
Indexed(i, q) == "index" \in q.cues /\ i.mode # "llm" => "indexer" \in ToSet(i.agents)

LEMMA FromRules ==
  ASSUME NEW q \in QueryType, NEW c \in ContextType, NEW mode \in Modes,
         ~ RuleBasedRoute(q).ambiguous
  PROVE  LET i == IntentFromRuleResult(q, RuleBasedRoute(q), mode, c)
         IN  i \in IntentType /\ Indexed(i, q)
<1> DEFINE route == RuleBasedRoute(q)
           kind == CASE route.agents = <<"indexer">> -> "indexing"
                     [] route.agents = <<"code_analyst">> -> "pattern"
                     [] route.agents = <<"graph_query">> ->
                            IF "relationship" \in route.rules THEN "relationship" ELSE "lookup"
                     [] OTHER -> IF "compare" \in route.rules THEN "comparison" ELSE "explanation"
           entities == ResolveEntities(q, q.names, c)
           raw == [mode |-> mode, agents |-> route.agents, entities |-> entities, kind |-> kind]
<1>1. route.agents \in Seq(AgentNames) /\ ("index" \in q.cues => "indexer" \in ToSet(route.agents))
  BY RulesTyped
<1> HIDE DEF route
<1>2. kind \in Kinds
  BY DEF Kinds
<1> HIDE DEF kind
<1>3. q.names \in Seq(Names)
  BY DEF QueryType
<1>4. entities \in Seq(Names)
  BY <1>3, ResolveKeeps
<1> HIDE DEF entities
<1>5. raw \in IntentType /\ Indexed(raw, q)
  BY <1>1, <1>2, <1>4 DEF IntentType, Indexed
<1>6. IntentFromRuleResult(q, route, mode, c) = NormalizeGroundedIntent(raw, q)
  BY Zenon DEF IntentFromRuleResult, kind, entities
<1> HIDE DEF raw
<1>7. QED
  BY <1>5, <1>6, NormalizedKeeps DEF route, Indexed

LEMMA FallbackTyped ==
  ASSUME NEW q
  PROVE  /\ FallbackTargetAgents(q) \in Seq(AgentNames)
         /\ "index" \in q.cues => "indexer" \in ToSet(FallbackTargetAgents(q))
<1>1. <<"indexer">> \in Seq(AgentNames) /\ <<"graph_query", "code_analyst">> \in Seq(AgentNames)
      /\ <<>> \in Seq(AgentNames)
  <2>1. {"indexer", "graph_query", "code_analyst"} \subseteq AgentNames
    BY Agents
  <2>2. QED
    BY <2>1
<1> DEFINE first == IF "index" \in q.cues THEN <<"indexer">> ELSE <<>>
           both == <<"graph_query", "code_analyst">>
<1>2. first \in Seq(AgentNames) /\ ("index" \in q.cues => "indexer" \in ToSet(first))
  BY <1>1, OneSet
<1>3. FallbackTargetAgents(q) = first \o both
  BY DEF FallbackTargetAgents
<1>4. both \in Seq(AgentNames)
  BY <1>1
<1> HIDE DEF first, both
<1>5. first \o both \in Seq(AgentNames) /\ ToSet(first \o both) = ToSet(first) \cup ToSet(both)
  BY <1>2, <1>4, JoinSet
<1>6. QED
  BY <1>2, <1>3, <1>5

LEMMA FromFallback ==
  ASSUME NEW q \in QueryType, NEW c \in ContextType
  PROVE  RulesFallback(q, c) \in IntentType /\ Indexed(RulesFallback(q, c), q)
<1> DEFINE raw == [mode |-> "rules_fallback", kind |-> "mixed", agents |-> FallbackTargetAgents(q),
                   entities |-> ResolveEntities(q, q.names, c)]
<1>1. CASE ~ RuleBasedRoute(q).ambiguous
  <2>1. RulesFallback(q, c) = IntentFromRuleResult(q, RuleBasedRoute(q), "rules_fallback", c)
    BY <1>1, Zenon DEF RulesFallback
  <2>2. "rules_fallback" \in Modes
    BY DEF Modes
  <2>3. QED
    BY <1>1, <2>1, <2>2, FromRules
<1>2. CASE RuleBasedRoute(q).ambiguous
  <2>1. RulesFallback(q, c) = NormalizeGroundedIntent(raw, q)
    BY <1>2, Zenon DEF RulesFallback
  <2>2. q.names \in Seq(Names)
    BY DEF QueryType
  <2>3. ResolveEntities(q, q.names, c) \in Seq(Names)
    BY <2>2, ResolveKeeps
  <2>4. "rules_fallback" \in Modes /\ "mixed" \in Kinds
    BY DEF Modes, Kinds
  <2>5. raw \in IntentType /\ Indexed(raw, q)
    BY <2>3, <2>4, FallbackTyped DEF IntentType, Indexed
  <2> HIDE DEF raw
  <2>6. QED
    BY <2>1, <2>5, NormalizedKeeps DEF Indexed
<1>3. QED
  BY <1>1, <1>2


\* What a model answers is typed, and marked as its own.
LEMMA FromModel ==
  ASSUME NEW provider, query \in QueryType, context \in ContextType, NEW i \in IntentsOf(provider)
  PROVE  i \in IntentType /\ Indexed(i, query)
<1>1. \A m \in ModelIntents : /\ m.kind \in Kinds /\ m.agents \in Seq(AgentNames)
                              /\ m.entities \in Seq(Names)
  BY TurnAssumption DEF AgentNames
<1>2. "llm" \in Modes
  BY DEF Modes
<1>3. CASE provider = "jev"
  <2>1. PICK m \in ModelIntents :
            i = IntentFromAnswers(m.kind, OrderedAgents(m.agents), query.names,
                                  EntitiesFromContext(context), FallbackTargetAgents(query))
    BY <1>3, Zenon DEF IntentsOf
  <2> DEFINE agents == IF OrderedAgents(m.agents) = <<>> THEN FallbackTargetAgents(query)
                       ELSE OrderedAgents(m.agents)
             entities == IF query.names = <<>> THEN EntitiesFromContext(context) ELSE query.names
  <2>2. i = [mode |-> "llm", kind |-> m.kind, agents |-> agents, entities |-> entities]
    BY <2>1, Zenon DEF IntentFromAnswers
  <2>3. agents \in Seq(AgentNames)
    BY FallbackTyped, OrderedKeeps
  <2>4. entities \in Seq(Names)
    BY PriorTyped DEF QueryType
  <2> HIDE DEF agents, entities
  <2>5. QED
    BY <1>1, <1>2, <2>2, <2>3, <2>4 DEF IntentType, Indexed
<1>4. CASE provider # "jev"
  <2>1. PICK m \in ModelIntents :
            i = [mode |-> "llm", kind |-> m.kind, agents |-> m.agents, entities |-> m.entities]
    BY <1>4, Zenon DEF IntentsOf
  <2>2. QED
    BY <1>1, <1>2, <2>1 DEF IntentType, Indexed
<1>5. QED
  BY <1>3, <1>4

\* The plan of PlanServesQuestion, of any question and conversation.
Serves(i, q, c) ==
    LET prior == ToSet(EntitiesFromContext(c))
    IN  /\ WantsCodebaseGrounding(q) => {"graph_query", "code_analyst"} \subseteq ToSet(i.agents)
        /\ q.refers \/ i.entities = <<>> => prior \subseteq ToSet(i.entities)
        /\ Indexed(i, q)

LEMMA AnalyzedServes ==
  ASSUME NEW q, NEW c \in ContextType, NEW i \in IntentType, Indexed(i, q)
  PROVE  Analyzed(i, q, c) \in IntentType /\ Serves(Analyzed(i, q, c), q, c)
<1> DEFINE resolved == ResolveEntities(q, i.entities, c)
           named == [i EXCEPT !.entities = resolved]
           prior == ToSet(EntitiesFromContext(c))
<1>1. i.entities \in Seq(Names)
  BY DEF IntentType
<1>2. resolved \in Seq(Names) /\ (q.refers \/ resolved = <<>> => prior \subseteq ToSet(resolved))
  BY <1>1, ResolveKeeps
<1>3. ApplyConversationEntities(i, q, c) = named
  BY DEF ApplyConversationEntities
<1> HIDE DEF resolved, prior
<1>4. named \in IntentType /\ named.entities = resolved /\ named.agents = i.agents /\ named.mode = i.mode
  BY <1>2 DEF IntentType
<1> HIDE DEF named
<1> DEFINE normal == NormalizeGroundedIntent(named, q)
<1>5. /\ normal \in IntentType /\ normal.mode = named.mode /\ normal.entities = named.entities
      /\ ToSet(named.agents) \subseteq ToSet(normal.agents)
      /\ WantsCodebaseGrounding(q) => {"graph_query", "code_analyst"} \subseteq ToSet(normal.agents)
  BY <1>4, NormalizedKeeps
<1>6. Analyzed(i, q, c) = normal
  BY <1>3 DEF Analyzed
<1> HIDE DEF normal
<1>7. Indexed(normal, q)
  BY <1>4, <1>5 DEF Indexed
<1>8. QED
  BY <1>2, <1>4, <1>5, <1>6, <1>7 DEF Serves, prior

-----------------------------------------------------------------------------
(* The invariant.                                                           *)

Served ==
    /\ query \in QueryType /\ context \in ContextType
    /\ intent = None \/ Serves(intent, query, context)

LEMMA RouteServes ==
  ASSUME Served, UNCHANGED turn, NEW i \in IntentType, Indexed(i, query), Route(i)
  PROVE  Served'
<1>1. intent' = Analyzed(i, query, context)
  BY DEF Route, Planned
<1>2. query \in QueryType /\ context \in ContextType /\ query' = query /\ context' = context
  BY DEF Served, turn
<1>3. Serves(Analyzed(i, query, context), query, context)
  BY <1>2, AnalyzedServes
<1>4. Serves(intent', query', context')
  BY <1>1, <1>2, <1>3
<1>5. QED
  BY <1>2, <1>4 DEF Served

LEMMA ServedKept == Served /\ [Next]_vars => Served'
<1> SUFFICES ASSUME Served, [Next]_vars PROVE Served'
  OBVIOUS
<1> DEFINE still == UNCHANGED <<turn, intent>>
<1>1. still => Served'
  BY DEF Served, turn
<1>2. CASE RouteByRules
  <2>1. ~ RuleBasedRoute(query).ambiguous /\ query \in QueryType /\ context \in ContextType
    BY <1>2 DEF RouteByRules, NeedsModel, Served
  <2> DEFINE i == IntentFromRuleResult(query, RuleBasedRoute(query), "rules", context)
  <2>2. i \in IntentType /\ Indexed(i, query)
    <3>1. "rules" \in Modes
      BY DEF Modes
    <3>2. QED
      BY <2>1, <3>1, FromRules
  <2>3. Route(i) /\ UNCHANGED turn
    BY <1>2 DEF RouteByRules
  <2> HIDE DEF i
  <2>4. QED
    BY <2>2, <2>3, RouteServes
<1>3. CASE RoutingAttempt
  <2> DEFINE provider == ProviderFor(settings.providers, "routing")
  <2>1. UNCHANGED turn /\ query \in QueryType /\ context \in ContextType
    BY <1>3 DEF RoutingAttempt, Served
  <2>2. \/ \E answered \in IntentsOf(provider) : Route(Analyzed(answered, query, context))
        \/ UNCHANGED intent
        \/ Route(RulesFallback(query, context))
    BY <1>3, Zenon DEF RoutingAttempt
  <2> HIDE DEF provider
  <2>3. CASE \E answered \in IntentsOf(provider) : Route(Analyzed(answered, query, context))
    <3>1. PICK answered \in IntentsOf(provider) : Route(Analyzed(answered, query, context))
      BY <2>3
    <3>2. answered \in IntentType /\ Indexed(answered, query)
      BY <2>1, FromModel
    <3>3. Analyzed(answered, query, context) \in IntentType
          /\ Serves(Analyzed(answered, query, context), query, context)
      BY <2>1, <3>2, AnalyzedServes
    <3>4. Indexed(Analyzed(answered, query, context), query)
      BY <3>3 DEF Serves
    <3>5. QED
      BY <2>1, <3>1, <3>3, <3>4, RouteServes
  <2>4. CASE UNCHANGED intent
    BY <1>1, <2>1, <2>4
  <2>5. CASE Route(RulesFallback(query, context))
    BY <2>1, <2>5, FromFallback, RouteServes
  <2>6. QED
    BY <2>2, <2>3, <2>4, <2>5
<1>4. CASE RunPlan
  BY <1>1, <1>4 DEF RunPlan
<1>5. CASE RoutingError
  BY <1>1, <1>5 DEF RoutingError
<1>6. CASE Trim
  BY <1>1, <1>6 DEF Trim
<1>7. CASE StartSynthesis
  BY <1>1, <1>7 DEF StartSynthesis
<1>8. CASE Delta
  BY <1>1, <1>8 DEF Delta
<1>9. CASE Synthesized
  BY <1>1, <1>9 DEF Synthesized
<1>10. CASE SynthesisFails
  BY <1>1, <1>10 DEF SynthesisFails
<1>11. CASE UNCHANGED vars
  BY <1>1, <1>11 DEF vars, turn
<1>12. QED
  BY <1>2, <1>3, <1>4, <1>5, <1>6, <1>7, <1>8, <1>9, <1>10, <1>11 DEF Next

\* Whatever the question, the conversation before it, and the answers and
\* failures of the model that routes it: the plan has the agents and the
\* names the question calls for.  The code reaches the plan on four ways
\* (route_query, analyze_query, Jev's judgments and the fallback), each with
\* its own calls of the resolution of names and of the normalisation.
THEOREM ModelTurnPlanServes == Spec => []PlanServesQuestion
<1>1. Init => Served
  <2> SUFFICES ASSUME Init PROVE Served
    OBVIOUS
  <2>1. query \in Queries /\ context \in Contexts /\ intent = None
    BY DEF Init
  <2>2. query \in QueryType /\ context \in ContextType
    BY <2>1, TurnAssumption DEF QueryType, ContextType
  <2>3. QED
    BY <2>1, <2>2 DEF Served
<1>2. Served => PlanServesQuestion
  BY DEF Served, Serves, Indexed, PlanServesQuestion
<1>3. QED
  BY <1>1, <1>2, ServedKept, PTL DEF Spec

-----------------------------------------------------------------------------
(* Sums.                                                                    *)

Summing(s, f) ==
    /\ f \in [0 .. Len(s) -> Int] /\ f[0] = 0
    /\ \A n \in 1 .. Len(s) : f[n] = f[n - 1] + s[n]

\* There is one way to sum up a sequence, and Total follows it.
LEMMA TotalSums ==
  ASSUME NEW s \in Seq(Int)
  PROVE  \E f : Summing(s, f) /\ Total(s) = f[Len(s)]
<1> DEFINE sums[n \in 0 .. Len(s)] == IF n = 0 THEN 0 ELSE sums[n - 1] + s[n]
<1>1. Len(s) \in Nat /\ \A n \in 1 .. Len(s) : s[n] \in Int
  OBVIOUS
<1>2. Total(s) = sums[Len(s)]
  BY DEF Total
<1>3. sums = [n \in 0 .. Len(s) |-> IF n = 0 THEN 0 ELSE sums[n - 1] + s[n]]
  <2> DEFINE step == [n \in 1 .. Len(s) |-> [x \in Int |-> x + s[n]]]
  <2>1. step \in [1 .. Len(s) -> [Int -> Int]]
    BY <1>1
  <2>2. PICK f : Iterates(f, Len(s), Int, 0, step)
    <3> HIDE DEF step
    <3>1. 0 \in Int
      OBVIOUS
    <3>2. QED
      BY <1>1, <2>1, <3>1, Iteration
  <2>3. f \in [0 .. Len(s) -> Int] /\ f[0] = 0
    BY <2>2 DEF Iterates
  <2>4. ASSUME NEW n \in 1 .. Len(s) PROVE f[n] = f[n - 1] + s[n]
    <3>1. n - 1 \in 0 .. Len(s)
      OBVIOUS
    <3>2. f[n] = step[n][f[n - 1]] /\ f[n - 1] \in Int
      BY <2>2, <2>3, <3>1 DEF Iterates
    <3>3. QED
      BY <3>2
  <2>5. f = [n \in 0 .. Len(s) |-> IF n = 0 THEN 0 ELSE f[n - 1] + s[n]]
    BY <2>3, <2>4
  <2>6. QED
    BY <2>5
<1> HIDE DEF sums
<1>4. sums[0] = 0 /\ \A n \in 1 .. Len(s) : sums[n] = sums[n - 1] + s[n]
  BY <1>1, <1>3
<1> DEFINE A == {n \in 0 .. Len(s) : sums[n] \in Int}
<1>5. A = 0 .. Len(s)
  <2>1. 0 \in A
    BY <1>1, <1>4
  <2>2. \A n \in 1 .. Len(s) : n - 1 \in A => n \in A
    BY <1>1, <1>4
  <2>3. A \subseteq 0 .. Len(s)
    OBVIOUS
  <2> HIDE DEF A
  <2>4. \A n \in 0 .. Len(s) : n \in A
    BY <1>1, <2>1, <2>2, UpTo
  <2>5. QED
    BY <2>3, <2>4
<1>6. Summing(s, sums)
  <2>1. \A n \in 0 .. Len(s) : sums[n] \in Int
    BY <1>5
  <2>2. sums \in [0 .. Len(s) -> Int]
    BY <1>3, <2>1
  <2>3. QED
    BY <1>4, <2>2 DEF Summing
<1>7. QED
  BY <1>2, <1>6

LEMMA TotalIs ==
  ASSUME NEW s \in Seq(Int), NEW f, Summing(s, f)
  PROVE  Total(s) = f[Len(s)]
<1>1. PICK g : Summing(s, g) /\ Total(s) = g[Len(s)]
  BY TotalSums
<1> DEFINE A == {n \in 0 .. Len(s) : f[n] = g[n]}
<1>2. Len(s) \in Nat
  OBVIOUS
<1>3. 0 \in A
  BY <1>1, <1>2 DEF Summing
<1>4. ASSUME NEW n \in 1 .. Len(s), n - 1 \in A PROVE n \in A
  BY <1>1, <1>4 DEF Summing
<1>5. Len(s) \in A
  <2> HIDE DEF A
  <2>1. Len(s) \in 0 .. Len(s)
    BY <1>2
  <2>2. QED
    BY <1>2, <1>3, <1>4, <2>1, UpTo
<1>6. QED
  BY <1>1, <1>5

LEMMA TotalType ==
  ASSUME NEW s \in Seq(Nat)
  PROVE  Total(s) \in Nat
<1>1. s \in Seq(Int) /\ Len(s) \in Nat /\ \A n \in 1 .. Len(s) : s[n] \in Nat
  OBVIOUS
<1>2. PICK f : Summing(s, f) /\ Total(s) = f[Len(s)]
  BY <1>1, TotalSums
<1> DEFINE A == {n \in 0 .. Len(s) : f[n] \in Nat}
<1>3. 0 \in A
  BY <1>1, <1>2 DEF Summing
<1>4. ASSUME NEW n \in 1 .. Len(s), n - 1 \in A PROVE n \in A
  BY <1>1, <1>2, <1>4 DEF Summing
<1>5. Len(s) \in A
  <2> HIDE DEF A
  <2>1. Len(s) \in 0 .. Len(s)
    BY <1>1
  <2>2. QED
    BY <1>1, <1>3, <1>4, <2>1, UpTo
<1>6. QED
  BY <1>2, <1>5

LEMMA TotalJoin ==
  ASSUME NEW s \in Seq(Nat), NEW t \in Seq(Nat)
  PROVE  Total(s \o t) = Total(s) + Total(t)
<1>1. /\ s \in Seq(Int) /\ t \in Seq(Int) /\ s \o t \in Seq(Int)
      /\ Len(s) \in Nat /\ Len(t) \in Nat /\ Len(s \o t) = Len(s) + Len(t)
      /\ \A n \in 1 .. Len(s) : (s \o t)[n] = s[n] /\ s[n] \in Int
      /\ \A n \in 1 .. Len(t) : (s \o t)[Len(s) + n] = t[n] /\ t[n] \in Int
  OBVIOUS
<1>2. PICK f : Summing(s, f) /\ Total(s) = f[Len(s)]
  BY <1>1, TotalSums
<1>3. PICK g : Summing(t, g) /\ Total(t) = g[Len(t)]
  BY <1>1, TotalSums
<1> DEFINE j == s \o t
           h == [n \in 0 .. Len(s) + Len(t) |->
                    IF n <= Len(s) THEN f[n] ELSE f[Len(s)] + g[n - Len(s)]]
<1>4. /\ f \in [0 .. Len(s) -> Int] /\ f[0] = 0
      /\ \A n \in 1 .. Len(s) : f[n] = f[n - 1] + s[n]
      /\ g \in [0 .. Len(t) -> Int] /\ g[0] = 0
      /\ \A n \in 1 .. Len(t) : g[n] = g[n - 1] + t[n]
  BY <1>2, <1>3 DEF Summing
<1> HIDE DEF j
<1>5. Len(j) = Len(s) + Len(t) /\ h \in [0 .. Len(j) -> Int] /\ h[0] = 0 /\ h[Len(j)] = f[Len(s)] + g[Len(t)]
  <2>1. Len(j) = Len(s) + Len(t)
    BY <1>1 DEF j
  <2>2. \A n \in 0 .. Len(s) + Len(t) :
            /\ n <= Len(s) => n \in 0 .. Len(s) /\ f[n] \in Int
            /\ ~ (n <= Len(s)) => n - Len(s) \in 0 .. Len(t) /\ g[n - Len(s)] \in Int
    <3> SUFFICES ASSUME NEW n \in 0 .. Len(s) + Len(t)
        PROVE  /\ n <= Len(s) => n \in 0 .. Len(s) /\ f[n] \in Int
               /\ ~ (n <= Len(s)) => n - Len(s) \in 0 .. Len(t) /\ g[n - Len(s)] \in Int
      OBVIOUS
    <3>1. n <= Len(s) => n \in 0 .. Len(s)
      BY <1>1
    <3>2. ~ (n <= Len(s)) => n - Len(s) \in 0 .. Len(t)
      BY <1>1
    <3>3. QED
      BY <1>4, <3>1, <3>2
  <2>3. f[Len(s)] \in Int
    BY <1>1, <1>4
  <2>4. h \in [0 .. Len(s) + Len(t) -> Int] /\ h[0] = 0
    BY <1>1, <1>4, <2>2, <2>3
  <2>5. CASE Len(t) = 0
    <3>1. h[Len(s)] = f[Len(s)] /\ Len(s) + Len(t) = Len(s) /\ f[Len(s)] + 0 = f[Len(s)]
      BY <1>1, <2>3, <2>5
    <3> HIDE DEF h
    <3>2. QED
      BY <1>4, <2>1, <2>4, <2>5, <3>1
  <2>6. CASE Len(t) # 0
    <3>1. /\ Len(s) + Len(t) \in 0 .. Len(s) + Len(t) /\ ~ (Len(s) + Len(t) <= Len(s))
          /\ (Len(s) + Len(t)) - Len(s) = Len(t)
      BY <1>1, <2>6
    <3>2. h[Len(s) + Len(t)] = f[Len(s)] + g[Len(t)]
      BY <3>1
    <3> HIDE DEF h
    <3>3. QED
      BY <2>1, <2>4, <3>2
  <2>7. QED
    BY <2>5, <2>6
<1>6. ASSUME NEW n \in 1 .. Len(j) PROVE h[n] = h[n - 1] + j[n]
  <2>1. n \in 0 .. Len(s) + Len(t) /\ n - 1 \in 0 .. Len(s) + Len(t)
    BY <1>1 DEF j
  <2>2. /\ h[n] = IF n <= Len(s) THEN f[n] ELSE f[Len(s)] + g[n - Len(s)]
        /\ h[n - 1] = IF n - 1 <= Len(s) THEN f[n - 1] ELSE f[Len(s)] + g[n - 1 - Len(s)]
    BY <2>1
  <2> HIDE DEF h
  <2>3. CASE n <= Len(s)
    BY <1>1, <1>4, <2>2, <2>3 DEF j
  <2>4. CASE n > Len(s)
    <3>1. n - Len(s) \in 1 .. Len(t)
      BY <1>1, <2>4 DEF j
    <3>2. j[n] = t[n - Len(s)] /\ g[n - Len(s)] = g[n - Len(s) - 1] + t[n - Len(s)]
      BY <1>1, <1>4, <3>1 DEF j
    <3>3. g[n - Len(s) - 1] \in Int /\ t[n - Len(s)] \in Int /\ f[Len(s)] \in Int
      <4>1. n - Len(s) - 1 \in 0 .. Len(t) /\ Len(s) \in 0 .. Len(s)
        BY <1>1, <3>1
      <4>2. QED
        BY <1>1, <1>4, <3>1, <4>1
    <3>4. CASE n - 1 <= Len(s)
      <4>1. n - 1 = Len(s) /\ n - Len(s) = 1 /\ n - Len(s) - 1 = 0
        BY <1>1, <2>4, <3>4
      <4>2. QED
        BY <1>4, <2>2, <2>4, <3>2, <3>3, <4>1
    <3>5. CASE n - 1 > Len(s)
      <4>1. n - 1 - Len(s) = n - Len(s) - 1
        BY <1>1
      <4>2. QED
        BY <2>2, <2>4, <3>2, <3>3, <3>5, <4>1
    <3>6. QED
      BY <1>1, <3>4, <3>5
  <2>5. QED
    BY <1>1, <2>3, <2>4
<1> HIDE DEF h
<1>7. j \in Seq(Int) /\ j = s \o t
  BY <1>1 DEF j
<1>8. Summing(j, h) /\ j \in Seq(Int)
  BY <1>5, <1>6, <1>7 DEF Summing
<1>9. Total(j) = h[Len(j)]
  BY <1>8, TotalIs
<1>10. QED
  BY <1>2, <1>3, <1>5, <1>7, <1>9

\* What replacing one summand changes.
LEMMA TotalUpdate ==
  ASSUME NEW s \in Seq(Nat), NEW t \in Seq(Nat), NEW p \in 1 .. Len(s), Len(t) = Len(s),
         \A n \in 1 .. Len(s) : n # p => t[n] = s[n]
  PROVE  Total(t) = Total(s) - s[p] + t[p]
<1>1. /\ s \in Seq(Int) /\ t \in Seq(Int) /\ Len(s) \in Nat
      /\ \A n \in 1 .. Len(s) : s[n] \in Int /\ t[n] \in Int
  OBVIOUS
<1>2. PICK f : Summing(s, f) /\ Total(s) = f[Len(s)]
  BY <1>1, TotalSums
<1> DEFINE h == [n \in 0 .. Len(s) |-> IF n < p THEN f[n] ELSE f[n] - s[p] + t[p]]
<1>3. /\ f \in [0 .. Len(s) -> Int] /\ f[0] = 0
      /\ \A n \in 1 .. Len(s) : f[n] = f[n - 1] + s[n]
  BY <1>2 DEF Summing
<1>4. h \in [0 .. Len(t) -> Int] /\ h[0] = 0
  BY <1>1, <1>3
<1>5. ASSUME NEW n \in 1 .. Len(t) PROVE h[n] = h[n - 1] + t[n]
  <2>1. n \in 0 .. Len(s) /\ n - 1 \in 0 .. Len(s) /\ n \in 1 .. Len(s)
    BY <1>1
  <2>2. /\ h[n] = IF n < p THEN f[n] ELSE f[n] - s[p] + t[p]
        /\ h[n - 1] = IF n - 1 < p THEN f[n - 1] ELSE f[n - 1] - s[p] + t[p]
    BY <2>1
  <2> HIDE DEF h
  <2>3. /\ n # p => t[n] = s[n]
        /\ f[n] = f[n - 1] + s[n] /\ f[n] \in Int /\ f[n - 1] \in Int
        /\ s[n] \in Int /\ t[n] \in Int /\ s[p] \in Int /\ t[p] \in Int
    BY <1>1, <1>3, <2>1
  <2>4. CASE n < p
    BY <1>1, <2>1, <2>2, <2>3, <2>4
  <2>5. CASE n = p
    <3>1. h[n] = f[n] - s[p] + t[p] /\ h[n - 1] = f[n - 1] /\ s[n] = s[p] /\ t[n] = t[p]
      BY <2>2, <2>5
    <3>2. QED
      BY <2>3, <3>1
  <2>6. CASE n > p
    <3>1. h[n] = f[n] - s[p] + t[p] /\ h[n - 1] = f[n - 1] - s[p] + t[p] /\ s[n] = t[n]
      BY <2>1, <2>2, <2>3, <2>6
    <3>2. f[n] - s[p] + t[p] = f[n - 1] - s[p] + t[p] + s[n]
      BY <2>3, SMTT(60)
    <3>3. QED
      BY <3>1, <3>2
  <2>7. QED
    BY <1>1, <2>4, <2>5, <2>6
<1>6. h[Len(t)] = f[Len(s)] - s[p] + t[p]
  BY <1>1
<1> HIDE DEF h
<1>7. Total(t) = h[Len(t)]
  BY <1>1, <1>4, <1>5, TotalIs DEF Summing
<1>8. QED
  BY <1>2, <1>6, <1>7

LEMMA TotalTerm ==
  ASSUME NEW s \in Seq(Nat), NEW p \in 1 .. Len(s)
  PROVE  s[p] <= Total(s)
<1> DEFINE t == [s EXCEPT ![p] = 0]
<1>1. /\ t \in Seq(Nat) /\ Len(t) = Len(s) /\ t[p] = 0 /\ s[p] \in Nat
      /\ \A n \in 1 .. Len(s) : n # p => t[n] = s[n]
  OBVIOUS
<1> HIDE DEF t
<1>2. Total(t) = Total(s) - s[p] + t[p]
  BY <1>1, TotalUpdate
<1>3. Total(t) \in Nat /\ Total(s) \in Nat
  BY <1>1, TotalType
<1>4. QED
  BY <1>1, <1>2, <1>3

\* Summands that are not there any more count at least one each, if none is zero.
LEMMA TotalLength ==
  ASSUME NEW s \in Seq(Nat \ {0})
  PROVE  Len(s) <= Total(s)
<1>1. s \in Seq(Int) /\ Len(s) \in Nat /\ \A n \in 1 .. Len(s) : s[n] \in Nat \ {0}
  OBVIOUS
<1>2. PICK f : Summing(s, f) /\ Total(s) = f[Len(s)]
  BY <1>1, TotalSums
<1>3. /\ f \in [0 .. Len(s) -> Int] /\ f[0] = 0
      /\ \A n \in 1 .. Len(s) : f[n] = f[n - 1] + s[n]
  BY <1>2 DEF Summing
<1> DEFINE A == {n \in 0 .. Len(s) : n <= f[n]}
<1>4. 0 \in A
  BY <1>1, <1>3
<1>5. ASSUME NEW n \in 1 .. Len(s), n - 1 \in A PROVE n \in A
  <2>1. n - 1 <= f[n - 1] /\ f[n] = f[n - 1] + s[n] /\ s[n] \in Nat \ {0}
        /\ f[n - 1] \in Int /\ f[n] \in Int /\ n \in 0 .. Len(s)
    BY <1>1, <1>3, <1>5
  <2>2. QED
    BY <2>1
<1>6. Len(s) \in A
  <2> HIDE DEF A
  <2>1. Len(s) \in 0 .. Len(s)
    BY <1>1
  <2>2. QED
    BY <1>1, <1>4, <1>5, <2>1, UpTo
<1>7. QED
  BY <1>2, <1>6

\* A beginning of a sequence, and what is cut off.
LEMMA Cutting ==
  ASSUME NEW S, NEW s \in Seq(S), NEW k \in 0 .. Len(s)
  PROVE  /\ SubSeq(s, 1, k) \in Seq(S) /\ SubSeq(s, k + 1, Len(s)) \in Seq(S)
         /\ Len(SubSeq(s, 1, k)) = k /\ Len(SubSeq(s, k + 1, Len(s))) = Len(s) - k
         /\ \A n \in 1 .. k : SubSeq(s, 1, k)[n] = s[n]
         /\ s = SubSeq(s, 1, k) \o SubSeq(s, k + 1, Len(s))
<1> DEFINE a == SubSeq(s, 1, k)
           b == SubSeq(s, k + 1, Len(s))
<1>1. Len(s) \in Nat /\ k \in Nat /\ k <= Len(s)
  OBVIOUS
<1>2. a \in Seq(S) /\ Len(a) = k /\ \A n \in 1 .. k : a[n] = s[n]
  OBVIOUS
<1>3. b \in Seq(S) /\ Len(b) = Len(s) - k /\ \A n \in 1 .. Len(s) - k : b[n] = s[k + n]
  OBVIOUS
<1> HIDE DEF a, b
<1>4. s = a \o b
  <2>1. Len(a \o b) = Len(s) /\ a \o b \in Seq(S)
    BY <1>1, <1>2, <1>3
  <2>2. ASSUME NEW n \in 1 .. Len(s) PROVE (a \o b)[n] = s[n]
    <3>1. CASE n <= k
      BY <1>1, <1>2, <1>3, <3>1
    <3>2. CASE n > k
      <4>1. n - k \in 1 .. Len(s) - k /\ k + (n - k) = n
        BY <1>1, <3>2
      <4>2. (a \o b)[n] = b[n - k] /\ b[n - k] = s[n]
        BY <1>1, <1>2, <1>3, <3>2, <4>1
      <4>3. QED
        BY <4>2
    <3>3. n <= k \/ n > k
      BY <1>1
    <3>4. QED
      BY <3>1, <3>2, <3>3, Zenon
  <2> DEFINE j == a \o b
  <2> HIDE DEF j
  <2>3. j \in Seq(S) /\ Len(j) = Len(s) /\ \A n \in 1 .. Len(s) : j[n] = s[n]
    BY <2>1, <2>2 DEF j
  <2>4. s = j
    BY <2>3
  <2>5. QED
    BY <2>4 DEF j
<1>5. QED
  BY <1>2, <1>3, <1>4 DEF a, b

LEMMA TotalCut ==
  ASSUME NEW s \in Seq(Nat), NEW k \in 0 .. Len(s)
  PROVE  /\ Total(SubSeq(s, 1, k)) <= Total(s)
         /\ s \in Seq(Nat \ {0}) => Total(SubSeq(s, 1, k)) + (Len(s) - k) <= Total(s)
<1> DEFINE a == SubSeq(s, 1, k)
           b == SubSeq(s, k + 1, Len(s))
<1>1. a \in Seq(Nat) /\ b \in Seq(Nat) /\ s = a \o b /\ Len(b) = Len(s) - k
  BY Cutting
<1>2. s \in Seq(Nat \ {0}) => b \in Seq(Nat \ {0})
  BY Cutting
<1> HIDE DEF a, b
<1>3. Total(s) = Total(a) + Total(b) /\ Total(a) \in Nat /\ Total(b) \in Nat
  BY <1>1, TotalJoin, TotalType
<1>4. s \in Seq(Nat \ {0}) => Len(s) - k <= Total(b)
  BY <1>1, <1>2, TotalLength
<1>5. Len(s) - k \in Int
  OBVIOUS
<1>6. QED
  BY <1>3, <1>4, <1>5 DEF a

-----------------------------------------------------------------------------
(* What a sequence weighs, item by item.                                    *)

Weights(s, w) == [i \in DOMAIN s |-> w[s[i]]]
Weight(s, w) == Total(Weights(s, w))

LEMMA WeightType ==
  ASSUME NEW S, NEW s \in Seq(S), NEW w \in [S -> Nat]
  PROVE  /\ Weights(s, w) \in Seq(Nat) /\ Len(Weights(s, w)) = Len(s)
         /\ \A i \in 1 .. Len(s) : Weights(s, w)[i] = w[s[i]]
         /\ Weight(s, w) \in Nat
<1>1. DOMAIN s = 1 .. Len(s) /\ Len(s) \in Nat /\ \A i \in 1 .. Len(s) : w[s[i]] \in Nat
  OBVIOUS
<1>2. Weights(s, w) \in [1 .. Len(s) -> Nat] /\ \A i \in 1 .. Len(s) : Weights(s, w)[i] = w[s[i]]
  BY <1>1 DEF Weights
<1>3. Weights(s, w) \in Seq(Nat) /\ Len(Weights(s, w)) = Len(s)
  BY <1>1, <1>2
<1>4. QED
  BY <1>2, <1>3, TotalType DEF Weight

Put(s, p, x) == [s EXCEPT ![p] = x]

LEMMA WeightUpdate ==
  ASSUME NEW S, NEW s \in Seq(S), NEW w \in [S -> Nat], NEW p \in 1 .. Len(s), NEW x \in S
  PROVE  Put(s, p, x) \in Seq(S) /\ Weight(Put(s, p, x), w) = Weight(s, w) - w[s[p]] + w[x]
<1> DEFINE t == Put(s, p, x)
<1>1. t \in Seq(S) /\ Len(t) = Len(s) /\ t[p] = x /\ \A i \in 1 .. Len(s) : i # p => t[i] = s[i]
  BY DEF Put
<1> HIDE DEF t
<1>2. /\ Weights(s, w) \in Seq(Nat) /\ Len(Weights(s, w)) = Len(s)
      /\ \A i \in 1 .. Len(s) : Weights(s, w)[i] = w[s[i]]
  BY WeightType
<1>3. /\ Weights(t, w) \in Seq(Nat) /\ Len(Weights(t, w)) = Len(s)
      /\ \A i \in 1 .. Len(s) : Weights(t, w)[i] = w[t[i]]
  <2>1. /\ Weights(t, w) \in Seq(Nat) /\ Len(Weights(t, w)) = Len(t)
        /\ \A i \in 1 .. Len(t) : Weights(t, w)[i] = w[t[i]]
    BY <1>1, WeightType
  <2>2. QED
    BY <1>1, <2>1
<1>4. \A i \in 1 .. Len(Weights(s, w)) : i # p => Weights(t, w)[i] = Weights(s, w)[i]
  BY <1>1, <1>2, <1>3
<1>5. Total(Weights(t, w)) = Total(Weights(s, w)) - Weights(s, w)[p] + Weights(t, w)[p]
  <2> DEFINE a == Weights(s, w)
             b == Weights(t, w)
  <2>1. /\ a \in Seq(Nat) /\ b \in Seq(Nat) /\ p \in 1 .. Len(a) /\ Len(b) = Len(a)
        /\ \A i \in 1 .. Len(a) : i # p => b[i] = a[i]
    BY <1>2, <1>3, <1>4
  <2> HIDE DEF a, b
  <2>2. Total(b) = Total(a) - a[p] + b[p]
    BY <2>1, TotalUpdate
  <2>3. QED
    BY <2>2 DEF a, b
<1>6. QED
  BY <1>1, <1>2, <1>3, <1>5 DEF Weight, t

LEMMA WeightCut ==
  ASSUME NEW S, NEW s \in Seq(S), NEW w \in [S -> Nat], NEW k \in 0 .. Len(s)
  PROVE  LET t == SubSeq(s, 1, k)
         IN  t \in Seq(S) /\ Len(t) = k /\ Weight(t, w) <= Weight(s, w)
<1> DEFINE t == SubSeq(s, 1, k)
<1>1. t \in Seq(S) /\ Len(t) = k /\ \A i \in 1 .. k : t[i] = s[i]
  BY Cutting
<1> HIDE DEF t
<1>2. /\ Weights(s, w) \in Seq(Nat) /\ Len(Weights(s, w)) = Len(s)
      /\ \A i \in 1 .. Len(s) : Weights(s, w)[i] = w[s[i]]
  BY WeightType
<1>3. /\ Weights(t, w) \in Seq(Nat) /\ Len(Weights(t, w)) = k
      /\ \A i \in 1 .. k : Weights(t, w)[i] = w[t[i]]
  BY <1>1, WeightType
<1> DEFINE a == Weights(s, w)
           c == SubSeq(a, 1, k)
<1>4. /\ c \in Seq(Nat) /\ Len(c) = k /\ \A i \in 1 .. k : c[i] = a[i]
      /\ Total(c) <= Total(a)
  <2>1. a \in Seq(Nat) /\ k \in 0 .. Len(a)
    BY <1>2
  <2> HIDE DEF a
  <2>2. QED
    BY <2>1, Cutting, TotalCut
<1> HIDE DEF c
<1>5. ASSUME NEW i \in 1 .. k PROVE c[i] = Weights(t, w)[i]
  <2>1. i \in 1 .. Len(s)
    OBVIOUS
  <2>2. c[i] = a[i] /\ a[i] = w[s[i]] /\ Weights(t, w)[i] = w[t[i]] /\ t[i] = s[i]
    BY <1>1, <1>2, <1>3, <1>4, <2>1
  <2>3. QED
    BY <2>2
<1>6. c = Weights(t, w)
  BY <1>3, <1>4, <1>5
<1>7. QED
  BY <1>1, <1>4, <1>6 DEF Weight, t

LEMMA WeightTerm ==
  ASSUME NEW S, NEW s \in Seq(S), NEW w \in [S -> Nat], NEW p \in 1 .. Len(s)
  PROVE  w[s[p]] <= Weight(s, w)
<1>1. /\ Weights(s, w) \in Seq(Nat) /\ Len(Weights(s, w)) = Len(s)
      /\ Weights(s, w)[p] = w[s[p]]
  BY WeightType
<1>2. QED
  BY <1>1, TotalTerm DEF Weight

LEMMA WeightLength ==
  ASSUME NEW S, NEW s \in Seq(S), NEW w \in [S -> Nat], \A x \in S : w[x] # 0
  PROVE  Len(s) <= Weight(s, w)
<1>1. /\ Weights(s, w) \in Seq(Nat) /\ Len(Weights(s, w)) = Len(s)
      /\ \A i \in 1 .. Len(s) : Weights(s, w)[i] = w[s[i]] /\ s[i] \in S
  BY WeightType
<1>2. \A i \in 1 .. Len(s) : Weights(s, w)[i] \in Nat \ {0}
  BY <1>1
<1> DEFINE c == Weights(s, w)
<1> HIDE DEF c
<1>3. c \in Seq(Nat \ {0})
  <2>1. c \in [1 .. Len(s) -> Nat \ {0}] /\ Len(s) \in Nat
    BY <1>1, <1>2 DEF c
  <2>2. QED
    BY <2>1
<1>4. QED
  BY <1>1, <1>3, TotalLength DEF Weight, c

-----------------------------------------------------------------------------
(* Evidence.                                                                *)

EvidenceType == Seq(Seq(Item))

\* A rank of the lengths of lists: what each halving lowers.
Rank(h) == h \in [Nat -> Nat] /\ \A n \in Nat : n > 1 => h[n \div 2] < h[n]

Shown == [x \in Item |-> ItemCost(x)]
Long == [x \in Item |-> IF Len(x.text) > MinSnippetChars THEN 1 ELSE 0]
ListShown == [s \in Seq(Item) |-> Weight(s, Shown)]
ListCuts(h) == [s \in Seq(Item) |-> h[Len(s)] + Weight(s, Long)]
Chars(e) == Overhead + Weight(e, ListShown)

LEMMA CostType ==
  ASSUME NEW t \in Costs
  PROVE  Cost(t) \in Nat /\ Len(t) <= Cost(t)
<1>1. t \in Seq(Nat) /\ t \in Seq(Nat \ {0})
  BY DEF Costs
<1>2. QED
  BY <1>1, TotalType, TotalLength DEF Cost

LEMMA ShownType ==
  /\ Shown \in [Item -> Nat] /\ \A x \in Item : Shown[x] = x.cost + Cost(x.text) /\ Shown[x] # 0
  /\ Long \in [Item -> Nat]
  /\ ListShown \in [Seq(Item) -> Nat]
<1>1. \A x \in Item : x.text \in Costs /\ x.cost \in Nat \ {0}
  BY DEF Item
<1>2. \A x \in Item : Cost(x.text) \in Nat
  BY <1>1, CostType
<1>3. \A x \in Item : Shown[x] = x.cost + Cost(x.text)
  BY DEF Shown, ItemCost
<1>4. \A x \in Item : Shown[x] \in Nat /\ Shown[x] # 0
  BY <1>1, <1>2, <1>3
<1>5. Shown \in [Item -> Nat]
  BY <1>4 DEF Shown
<1>6. Long \in [Item -> Nat]
  BY DEF Long
<1>7. \A s \in Seq(Item) : Weight(s, Shown) \in Nat
  BY <1>5, WeightType
<1>8. ListShown \in [Seq(Item) -> Nat]
  BY <1>7 DEF ListShown
<1>9. QED
  BY <1>3, <1>4, <1>5, <1>6, <1>8

LEMMA ListCutsType ==
  ASSUME NEW h, Rank(h)
  PROVE  ListCuts(h) \in [Seq(Item) -> Nat]
<1>1. ASSUME NEW s \in Seq(Item) PROVE h[Len(s)] + Weight(s, Long) \in Nat
  <2>1. Len(s) \in Nat /\ h[Len(s)] \in Nat
    BY DEF Rank
  <2>2. Weight(s, Long) \in Nat
    BY ShownType, WeightType
  <2>3. QED
    BY <2>1, <2>2
<1>2. QED
  BY <1>1 DEF ListCuts

\* What the model counts is a weight.
LEMMA TokensWeigh ==
  ASSUME NEW e \in EvidenceType
  PROVE  Tokens(e) = (Chars(e) + CharsPerToken - 1) \div CharsPerToken /\ Chars(e) \in Nat
<1> DEFINE lists == [l \in DOMAIN e |-> Total([i \in DOMAIN e[l] |-> ItemCost(e[l][i])])]
<1>1. ASSUME NEW l \in DOMAIN e
      PROVE  Total([i \in DOMAIN e[l] |-> ItemCost(e[l][i])]) = ListShown[e[l]]
  <2>1. e[l] \in Seq(Item)
    BY DEF EvidenceType
  <2>2. \A i \in DOMAIN e[l] : e[l][i] \in Item
    BY <2>1
  <2>3. [i \in DOMAIN e[l] |-> ItemCost(e[l][i])] = Weights(e[l], Shown)
    BY <2>2 DEF Weights, Shown
  <2>4. ListShown[e[l]] = Total(Weights(e[l], Shown))
    BY <2>1 DEF ListShown, Weight
  <2>5. QED
    BY <2>3, <2>4
<1>2. lists = [l \in DOMAIN e |-> ListShown[e[l]]]
  BY <1>1
<1> HIDE DEF lists
<1>3. Total(lists) = Weight(e, ListShown)
  BY <1>2 DEF Weight, Weights
<1>4. Tokens(e) = (Overhead + Total(lists) + CharsPerToken - 1) \div CharsPerToken
  BY DEF Tokens, lists
<1>5. Weight(e, ListShown) \in Nat
  BY ShownType, WeightType DEF EvidenceType
<1>6. QED
  BY <1>3, <1>4, <1>5, PromptAssumption DEF Chars

LEMMA CutsWeigh ==
  ASSUME NEW e \in EvidenceType, NEW h, Rank(h)
  PROVE  Cuts(e, h) = Weight(e, ListCuts(h)) /\ Cuts(e, h) \in Nat
<1> DEFINE long(text) == IF Len(text) > MinSnippetChars THEN 1 ELSE 0
           lists == [l \in DOMAIN e |->
                        h[Len(e[l])] + Total([i \in DOMAIN e[l] |-> long(e[l][i].text)])]
<1>1. ASSUME NEW l \in DOMAIN e
      PROVE  h[Len(e[l])] + Total([i \in DOMAIN e[l] |-> long(e[l][i].text)]) = ListCuts(h)[e[l]]
  <2>1. e[l] \in Seq(Item)
    BY DEF EvidenceType
  <2>2. \A i \in DOMAIN e[l] : e[l][i] \in Item
    BY <2>1
  <2>3. [i \in DOMAIN e[l] |-> long(e[l][i].text)] = Weights(e[l], Long)
    BY <2>2 DEF Weights, Long
  <2>4. ListCuts(h)[e[l]] = h[Len(e[l])] + Total(Weights(e[l], Long))
    BY <2>1 DEF ListCuts, Weight
  <2> HIDE DEF long
  <2>5. QED
    BY <2>3, <2>4
<1>2. lists = [l \in DOMAIN e |-> ListCuts(h)[e[l]]]
  <2> HIDE DEF long
  <2>1. QED
    BY <1>1
<1>3. Cuts(e, h) = Total(lists)
  BY Zenon DEF Cuts
<1> HIDE DEF lists
<1>4. Total(lists) = Weight(e, ListCuts(h))
  BY <1>2 DEF Weight, Weights
<1>5. Weight(e, ListCuts(h)) \in Nat
  BY ListCutsType, WeightType DEF EvidenceType
<1>6. QED
  BY <1>3, <1>4, <1>5

LEMMA Least ==
  ASSUME NEW S, S \subseteq Nat, S # {}
  PROVE  \E m \in S : \A k \in S : m <= k
<1>1. PICK m \in S : \A k \in S : ~ (<<k, m>> \in OpToRel(<, Nat))
  BY NatLessThanWellFounded, WFMin
<1>2. \A k \in S : ~ (k < m) /\ k \in Nat /\ m \in Nat
  BY <1>1 DEF OpToRel
<1>3. \A k \in S : m <= k
  BY <1>2
<1>4. QED
  BY <1>3

\* Among the greatest of some places there is a first one.
LEMMA FirstGreatest ==
  ASSUME NEW P, P \subseteq Nat \X Nat, P # {}, NEW f \in [P -> Nat], NEW B \in Nat,
         \A p \in P : f[p] <= B
  PROVE  \E p \in P : \A q \in P \ {p} : f[q] < f[p] \/ (f[q] = f[p] /\ Before(p, q))
<1>1. PICK p0 \in P : \A q \in P : f[q] <= f[p0]
  <2> DEFINE D == {B - f[p] : p \in P}
  <2>1. D \subseteq Nat /\ D # {}
    OBVIOUS
  <2>2. PICK d \in D : \A k \in D : d <= k
    <3> HIDE DEF D
    <3>1. QED
      BY <2>1, Least
  <2>3. PICK p \in P : d = B - f[p]
    OBVIOUS
  <2>4. ASSUME NEW q \in P PROVE f[q] <= f[p]
    <3>1. B - f[q] \in D
      OBVIOUS
    <3>2. B - f[p] <= B - f[q] /\ f[p] \in Nat /\ f[q] \in Nat
      BY <2>2, <2>3, <3>1
    <3>3. QED
      BY <3>2
  <2>5. QED
    BY <2>4
<1> DEFINE M == {p \in P : f[p] = f[p0]}
           rows == {p[1] : p \in M}
<1>2. rows \subseteq Nat /\ rows # {}
  OBVIOUS
<1>3. PICK r \in rows : \A k \in rows : r <= k
  <2> HIDE DEF rows
  <2>1. QED
    BY <1>2, Least
<1> DEFINE R == {p \in M : p[1] = r}
           cols == {p[2] : p \in R}
<1>4. cols \subseteq Nat /\ cols # {}
  OBVIOUS
<1>5. PICK c \in cols : \A k \in cols : c <= k
  <2> HIDE DEF cols
  <2>1. QED
    BY <1>4, Least
<1>6. PICK p \in P : f[p] = f[p0] /\ p[1] = r /\ p[2] = c
  OBVIOUS
<1>7. ASSUME NEW q \in P \ {p} PROVE f[q] < f[p] \/ (f[q] = f[p] /\ Before(p, q))
  <2>1. f[q] \in Nat /\ f[p] \in Nat /\ f[q] <= f[p]
    BY <1>1, <1>6
  <2>2. CASE f[q] = f[p]
    <3>1. q[1] \in rows /\ q \in M
      BY <1>6, <2>2
    <3>2. p[1] <= q[1] /\ p[1] \in Nat /\ q[1] \in Nat /\ p[2] \in Nat /\ q[2] \in Nat
      BY <1>3, <1>6, <3>1
    <3>3. CASE q[1] = p[1]
      <4>1. q[2] \in cols
        BY <1>6, <3>1, <3>3
      <4>2. p[2] <= q[2]
        BY <1>5, <1>6, <4>1
      <4>3. p = <<p[1], p[2]>> /\ q = <<q[1], q[2]>> /\ p # q
        OBVIOUS
      <4>4. p[2] # q[2]
        BY <3>3, <4>3
      <4>5. QED
        BY <2>2, <3>2, <3>3, <4>2, <4>4 DEF Before
    <3>4. CASE q[1] # p[1]
      BY <2>2, <3>2, <3>4 DEF Before
    <3>5. QED
      BY <3>3, <3>4
  <2>3. QED
    BY <2>1, <2>2
<1>8. QED
  BY <1>7

LEMMA LongestSnippetIs ==
  ASSUME NEW e \in EvidenceType, Snippets(e) # {}
  PROVE  \E l \in DOMAIN e : \E i \in DOMAIN e[l] :
             LongestSnippet(e) = <<l, i>> /\ Len(e[l][i].text) > MinSnippetChars
<1> DEFINE P == Snippets(e)
           f == [p \in P |-> Len(e[p[1]][p[2]].text)]
           B == Weight(e, ListShown)
<1>1. ASSUME NEW p \in P
      PROVE  /\ p = <<p[1], p[2]>> /\ p[1] \in DOMAIN e /\ p[2] \in DOMAIN e[p[1]]
             /\ p \in Nat \X Nat /\ Len(e[p[1]][p[2]].text) > MinSnippetChars
             /\ f[p] \in Nat /\ f[p] <= B
  <2>1. PICK l \in DOMAIN e, i \in Nat : i \in DOMAIN e[l] /\ p = <<l, i>>
    <3>1. p \in UNION {{<<l, i>> : i \in DOMAIN e[l]} : l \in DOMAIN e}
      BY DEF Snippets, Items
    <3>2. \A l \in DOMAIN e : DOMAIN e[l] \subseteq Nat
      BY DEF EvidenceType
    <3>3. QED
      BY <3>1, <3>2
  <2>2. l \in 1 .. Len(e) /\ e[l] \in Seq(Item) /\ i \in 1 .. Len(e[l]) /\ e[l][i] \in Item
    BY <2>1 DEF EvidenceType
  <2>3. p[1] = l /\ p[2] = i /\ Len(e[l][i].text) > MinSnippetChars
    BY <2>1 DEF Snippets
  <2>4. e[l][i].text \in Costs /\ e[l][i].cost \in Nat
    BY <2>2 DEF Item
  <2>5. Len(e[l][i].text) \in Nat /\ Len(e[l][i].text) <= Cost(e[l][i].text) /\ Cost(e[l][i].text) \in Nat
    BY <2>4, CostType DEF Costs
  <2>6. Shown[e[l][i]] = e[l][i].cost + Cost(e[l][i].text)
    BY <2>2, ShownType
  <2>7. Shown[e[l][i]] <= Weight(e[l], Shown) /\ Weight(e[l], Shown) \in Nat
    BY <2>2, ShownType, WeightTerm, WeightType
  <2>8. ListShown[e[l]] = Weight(e[l], Shown)
    BY <2>2 DEF ListShown
  <2>9. ListShown[e[l]] <= B /\ B \in Nat
    BY <2>2, ShownType, WeightTerm, WeightType DEF EvidenceType
  <2>10. Len(e[l][i].text) <= B
    BY <2>4, <2>5, <2>6, <2>7, <2>8, <2>9
  <2>11. f[p] = Len(e[l][i].text)
    BY <2>3
  <2> HIDE DEF f, B
  <2>12. l \in Nat
    BY <2>2
  <2>13. QED
    BY <2>1, <2>3, <2>5, <2>10, <2>11, <2>12
<1>2. B \in Nat
  BY ShownType, WeightType DEF EvidenceType
<1>3. f \in [P -> Nat]
  BY <1>1
<1>4. \A p \in P : f[p] = Len(e[p[1]][p[2]].text)
  OBVIOUS
<1> HIDE DEF f, B
<1>5. \E p \in P : \A q \in P \ {p} : f[q] < f[p] \/ (f[q] = f[p] /\ Before(p, q))
  <2> HIDE DEF P
  <2>1. P \subseteq Nat \X Nat /\ \A p \in P : f[p] <= B
    BY <1>1
  <2>2. P # {}
    BY DEF P
  <2>3. QED
    BY <1>2, <1>3, <2>1, <2>2, FirstGreatest
<1> DEFINE length(p) == Len(e[p[1]][p[2]].text)
           first(p) == \A q \in P \ {p} : length(q) < length(p) \/ (length(q) = length(p) /\ Before(p, q))
<1>6. \E p \in P : first(p)
  BY <1>4, <1>5
<1>7. LongestSnippet(e) = CHOOSE p \in P : first(p)
  BY Zenon DEF LongestSnippet
<1> HIDE DEF first
<1>8. LongestSnippet(e) \in P
  <2> HIDE DEF P
  <2>1. QED
    BY <1>6, <1>7
<1>9. QED
  BY <1>1, <1>8

LEMMA LongestListIs ==
  ASSUME NEW e \in EvidenceType, Lists(e) # {}
  PROVE  LongestList(e) \in 1 .. Len(e) /\ Len(e[LongestList(e)]) > 1
<1> DEFINE P == {<<l, 0>> : l \in Lists(e)}
           f == [p \in P |-> Len(e[p[1]])]
           B == Weight(e, ListShown)
<1>1. ASSUME NEW l \in Lists(e)
      PROVE  l \in 1 .. Len(e) /\ Len(e[l]) \in Nat /\ Len(e[l]) > 1 /\ Len(e[l]) <= B
  <2>1. l \in 1 .. Len(e) /\ Len(e[l]) > 1 /\ e[l] \in Seq(Item)
    BY DEF Lists, EvidenceType
  <2>2. Len(e[l]) <= Weight(e[l], Shown) /\ Weight(e[l], Shown) \in Nat
    BY <2>1, ShownType, WeightLength, WeightType
  <2>3. ListShown[e[l]] = Weight(e[l], Shown)
    BY <2>1 DEF ListShown
  <2>4. ListShown[e[l]] <= B /\ B \in Nat
    BY <2>1, ShownType, WeightTerm, WeightType DEF EvidenceType
  <2>5. Len(e[l]) \in Nat
    BY <2>1
  <2> HIDE DEF B
  <2>6. QED
    BY <2>1, <2>2, <2>3, <2>4, <2>5
<1>2. B \in Nat
  BY ShownType, WeightType DEF EvidenceType
<1> HIDE DEF B
<1>3. \A l \in Lists(e) : <<l, 0>> \in P /\ f[<<l, 0>>] = Len(e[l])
  OBVIOUS
<1>4. f \in [P -> Nat] /\ P # {} /\ P \subseteq Nat \X Nat /\ \A p \in P : f[p] <= B
  <2>1. \A l \in Lists(e) : l \in Nat /\ Len(e[l]) \in Nat /\ Len(e[l]) <= B
    BY <1>1
  <2>2. ASSUME NEW p \in P PROVE p \in Nat \X Nat /\ Len(e[p[1]]) \in Nat /\ Len(e[p[1]]) <= B
    <3>1. PICK l \in Lists(e) : p = <<l, 0>>
      OBVIOUS
    <3>2. QED
      BY <2>1, <3>1
  <2>3. P # {}
    OBVIOUS
  <2> HIDE DEF P
  <2>4. QED
    BY <2>2, <2>3
<1>5. PICK p \in P : \A q \in P \ {p} : f[q] < f[p] \/ (f[q] = f[p] /\ Before(p, q))
  <2> HIDE DEF P, f
  <2>1. QED
    BY <1>2, <1>4, FirstGreatest
<1> DEFINE first(l) == \A m \in Lists(e) \ {l} :
               Len(e[m]) < Len(e[l]) \/ (Len(e[m]) = Len(e[l]) /\ l < m)
<1>6. \E l \in Lists(e) : first(l)
  <2>1. PICK l \in Lists(e) : p = <<l, 0>>
    OBVIOUS
  <2>2. ASSUME NEW m \in Lists(e) \ {l}
        PROVE  Len(e[m]) < Len(e[l]) \/ (Len(e[m]) = Len(e[l]) /\ l < m)
    <3>1. <<m, 0>> \in P \ {p}
      BY <2>1
    <3>2. f[<<m, 0>>] < f[p] \/ (f[<<m, 0>>] = f[p] /\ Before(p, <<m, 0>>))
      BY <1>5, <3>1
    <3>3. f[p] = Len(e[l]) /\ f[<<m, 0>>] = Len(e[m])
      BY <1>3, <2>1
    <3>4. Before(p, <<m, 0>>) => l < m
      BY <2>1 DEF Before
    <3> HIDE DEF f
    <3>5. QED
      BY <3>2, <3>3, <3>4
  <2>3. first(l)
    BY <2>2
  <2>4. QED
    BY <2>3
<1>7. LongestList(e) = CHOOSE l \in Lists(e) : first(l)
  BY Zenon DEF LongestList
<1> HIDE DEF first
<1>8. LongestList(e) \in Lists(e)
  BY <1>6, <1>7
<1>9. QED
  BY <1>1, <1>8

-----------------------------------------------------------------------------
(* Cutting.                                                                 *)

\* Over the budget by no more than the mark of an omission.
Close(e, budget) == Chars(e) <= budget * CharsPerToken + Cost(Suffix)

LEMMA TextReplaced ==
  ASSUME NEW e \in EvidenceType, NEW l \in 1 .. Len(e), NEW i \in 1 .. Len(e[l]), NEW u \in Costs,
         NEW h, Rank(h)
  PROVE  LET t == [e EXCEPT ![l][i].text = u]
         IN  /\ t \in EvidenceType
             /\ Chars(t) = Chars(e) - Cost(e[l][i].text) + Cost(u)
             /\ Cuts(t, h) = Cuts(e, h) - Long[e[l][i]] + (IF Len(u) > MinSnippetChars THEN 1 ELSE 0)
<1> DEFINE x == [e[l][i] EXCEPT !.text = u]
           row == Put(e[l], i, x)
           t == Put(e, l, row)
           mark == IF Len(u) > MinSnippetChars THEN 1 ELSE 0
<1>1. e \in Seq(Seq(Item)) /\ e[l] \in Seq(Item) /\ e[l][i] \in Item
  BY DEF EvidenceType
<1>2. x \in Item /\ x.text = u /\ x.cost = e[l][i].cost
  BY <1>1 DEF Item
<1>3. [e EXCEPT ![l][i].text = u] = t
  BY DEF Put
<1>4. Cost(u) \in Nat /\ Cost(e[l][i].text) \in Nat /\ e[l][i].cost \in Nat
  BY <1>1, CostType DEF Item
<1>5. /\ Shown[x] = x.cost + Cost(u) /\ Shown[e[l][i]] = e[l][i].cost + Cost(e[l][i].text)
      /\ Long[x] = mark
  BY <1>1, <1>2, ShownType DEF Long
<1> HIDE DEF x
<1>6. /\ row \in Seq(Item) /\ Len(row) = Len(e[l])
      /\ Weight(row, Shown) = Weight(e[l], Shown) - Shown[e[l][i]] + Shown[x]
      /\ Weight(row, Long) = Weight(e[l], Long) - Long[e[l][i]] + Long[x]
  <2>1. Shown \in [Item -> Nat] /\ Long \in [Item -> Nat]
    BY ShownType
  <2>2. row \in Seq(Item) /\ Len(row) = Len(e[l])
    BY <1>1, <1>2 DEF Put
  <2>3. e[l] \in Seq(Item)
    BY <1>1
  <2>4. x \in Item
    BY <1>2
  <2>5. Weight(row, Shown) = Weight(e[l], Shown) - Shown[e[l][i]] + Shown[x]
    BY <2>1, <2>3, <2>4, WeightUpdate
  <2>6. Weight(row, Long) = Weight(e[l], Long) - Long[e[l][i]] + Long[x]
    BY <2>1, <2>3, <2>4, WeightUpdate
  <2>7. QED
    BY <2>2, <2>5, <2>6
<1> HIDE DEF row
<1>7. /\ ListShown[row] = Weight(row, Shown) /\ ListShown[e[l]] = Weight(e[l], Shown)
      /\ ListCuts(h)[row] = h[Len(row)] + Weight(row, Long)
      /\ ListCuts(h)[e[l]] = h[Len(e[l])] + Weight(e[l], Long)
  BY <1>1, <1>6 DEF ListShown, ListCuts
<1>8. /\ t \in Seq(Seq(Item))
      /\ Weight(t, ListShown) = Weight(e, ListShown) - ListShown[e[l]] + ListShown[row]
  <2>1. ListShown \in [Seq(Item) -> Nat] /\ e \in Seq(Seq(Item)) /\ row \in Seq(Item)
    BY <1>1, <1>6, ShownType
  <2>2. QED
    BY <2>1, WeightUpdate
<1>9. Weight(t, ListCuts(h)) = Weight(e, ListCuts(h)) - ListCuts(h)[e[l]] + ListCuts(h)[row]
  <2>1. e \in Seq(Seq(Item))
    BY <1>1
  <2>2. row \in Seq(Item)
    BY <1>6
  <2>3. ListCuts(h) \in [Seq(Item) -> Nat]
    BY ListCutsType
  <2>4. QED
    BY <2>1, <2>2, <2>3, WeightUpdate
<1>10. /\ Weight(e[l], Shown) \in Nat /\ Weight(e[l], Long) \in Nat /\ Long[e[l][i]] \in Nat
       /\ Weight(e, ListShown) \in Nat /\ Weight(e, ListCuts(h)) \in Nat /\ h[Len(e[l])] \in Nat
       /\ Overhead \in Nat /\ mark \in Nat
  <2>1. Weight(e[l], Shown) \in Nat /\ Weight(e[l], Long) \in Nat /\ Weight(e, ListShown) \in Nat
    BY <1>1, ShownType, WeightType
  <2>2. Weight(e, ListCuts(h)) \in Nat
    BY <1>1, ListCutsType, WeightType
  <2>3. Len(e[l]) \in Nat
    BY <1>1
  <2>4. h[Len(e[l])] \in Nat
    BY <2>3 DEF Rank
  <2>5. Long[e[l][i]] \in Nat
    BY <1>1, ShownType
  <2>6. QED
    BY <2>1, <2>2, <2>4, <2>5, PromptAssumption
<1> HIDE DEF t, mark
<1>11. Weight(t, ListShown) = Weight(e, ListShown) - Cost(e[l][i].text) + Cost(u)
  <2>1. ListShown[row] = ListShown[e[l]] - Cost(e[l][i].text) + Cost(u)
    <3>1. Shown[x] = Shown[e[l][i]] - Cost(e[l][i].text) + Cost(u) /\ Shown[e[l][i]] \in Nat
      BY <1>2, <1>4, <1>5
    <3>2. Weight(row, Shown) = Weight(e[l], Shown) - Shown[e[l][i]] + Shown[x]
          /\ Weight(e[l], Shown) \in Nat
      BY <1>6, <1>10
    <3>3. Weight(row, Shown) = Weight(e[l], Shown) - Cost(e[l][i].text) + Cost(u)
      BY <1>4, <3>1, <3>2
    <3>4. QED
      BY <1>7, <3>3
  <2>2. ListShown[e[l]] \in Nat
    BY <1>7, <1>10
  <2>3. QED
    BY <1>4, <1>8, <1>10, <2>1, <2>2
<1>12. Weight(t, ListCuts(h)) = Weight(e, ListCuts(h)) - Long[e[l][i]] + mark
  <2>1. ListCuts(h)[row] = ListCuts(h)[e[l]] - Long[e[l][i]] + mark
    BY <1>5, <1>6, <1>7, <1>10
  <2>2. ListCuts(h)[e[l]] \in Nat
    BY <1>7, <1>10
  <2>3. QED
    BY <1>9, <1>10, <2>1, <2>2
<1>13. t \in EvidenceType /\ Chars(t) = Chars(e) - Cost(e[l][i].text) + Cost(u)
  BY <1>4, <1>8, <1>10, <1>11 DEF EvidenceType, Chars
<1>14. Cuts(t, h) = Cuts(e, h) - Long[e[l][i]] + mark
  BY <1>12, <1>13, CutsWeigh
<1>15. QED
  BY <1>3, <1>13, <1>14 DEF mark

\* The arithmetic of tokens.
LEMMA Rounded ==
  ASSUME NEW chars \in Nat, NEW c \in Nat \ {0}
  PROVE  LET t == (chars + c - 1) \div c IN t \in Nat /\ chars <= t * c /\ t * c <= chars + c - 1
OBVIOUS

LEMMA RoundedOver ==
  ASSUME NEW chars \in Nat, NEW c \in Nat \ {0}, NEW b \in Nat, NEW s \in Nat, chars <= b * c + s
  PROVE  (chars + c - 1) \div c - b <= (s + c - 1) \div c
<1> DEFINE t == (chars + c - 1) \div c
           d == (s + c - 1) \div c
<1>1. t \in Nat /\ t * c <= chars + c - 1 /\ d \in Nat /\ s <= d * c
  BY Rounded
<1> HIDE DEF t, d
<1>2. b * c \in Nat /\ d * c \in Nat /\ t * c \in Nat /\ (b + d) * c = b * c + d * c
  BY <1>1
<1>3. t * c < (b + d) * c + c
  BY <1>1, <1>2
<1>4. (b + d) * c + c = (b + d + 1) * c
  BY <1>1
<1>5. ~ (t >= b + d + 1)
  <2> SUFFICES ASSUME t >= b + d + 1 PROVE FALSE
    OBVIOUS
  <2> DEFINE k == t - (b + d + 1)
  <2>1. k \in Nat /\ t = (b + d + 1) + k
    BY <1>1
  <2> HIDE DEF k
  <2>2. t * c = (b + d + 1) * c + k * c /\ k * c \in Nat
    BY <1>1, <2>1
  <2>3. (b + d + 1) * c \in Nat
    BY <1>1
  <2>4. QED
    BY <1>2, <1>3, <1>4, <2>2, <2>3
<1>6. t - b <= d
  BY <1>1, <1>5
<1>7. QED
  BY <1>6 DEF t, d

\* What a cut that keeps k characters of a text leaves.
LEMMA TextCut ==
  ASSUME NEW t \in Costs, NEW k \in 1 .. Len(t)
  PROVE  LET u == SubSeq(t, 1, k) \o Suffix
         IN  u \in Costs /\ Cost(u) + (Len(t) - k) <= Cost(t) + Cost(Suffix)
<1> DEFINE a == SubSeq(t, 1, k)
<1>1. t \in Seq(Nat) /\ t \in Seq(Nat \ {0}) /\ k \in 0 .. Len(t) /\ Len(t) - k \in Int
  BY DEF Costs
<1>2. Suffix \in Seq(Nat \ {0}) /\ Suffix \in Seq(Nat)
  BY PromptAssumption DEF Costs
<1>3. a \in Seq(Nat \ {0}) /\ Total(a) + (Len(t) - k) <= Total(t)
  BY <1>1, Cutting, TotalCut
<1>4. a \in Seq(Nat)
  BY <1>3
<1> HIDE DEF a
<1>5. a \o Suffix \in Seq(Nat \ {0})
  BY <1>2, <1>3
<1>6. Total(a \o Suffix) = Total(a) + Total(Suffix)
  BY <1>2, <1>4, TotalJoin
<1>7. Total(a) \in Nat /\ Total(Suffix) \in Nat /\ Total(t) \in Nat
  BY <1>1, <1>2, <1>4, TotalType
<1>8. Total(a \o Suffix) + (Len(t) - k) <= Total(t) + Total(Suffix)
  BY <1>1, <1>3, <1>6, <1>7
<1>9. QED
  BY <1>5, <1>8 DEF Costs, Cost, a

\* A text from which something is left brings the prompt close to its
\* budget; one of which nothing is left is a place less.
LEMMA SnippetCut ==
  ASSUME NEW e \in EvidenceType, Snippets(e) # {}, NEW b \in Nat, Tokens(e) > b, NEW h, Rank(h)
  PROVE  LET t == TruncateLongestSnippet(e, b)
         IN  /\ t \in EvidenceType
             /\ Close(t, b) \/ (Chars(t) <= Chars(e) /\ Cuts(t, h) < Cuts(e, h))
<1>1. PICK l \in DOMAIN e, i \in Nat : /\ i \in DOMAIN e[l] /\ LongestSnippet(e) = <<l, i>>
                                       /\ Len(e[l][i].text) > MinSnippetChars
  <2>1. \A l \in DOMAIN e : DOMAIN e[l] \subseteq Nat
    BY DEF EvidenceType
  <2>2. QED
    BY <2>1, LongestSnippetIs
<1>2. /\ l \in 1 .. Len(e) /\ i \in 1 .. Len(e[l]) /\ e[l][i] \in Item
  BY <1>1 DEF EvidenceType
<1> DEFINE text == e[l][i].text
           excess == (Tokens(e) - b) * CharsPerToken
           keep == Len(text) - excess
           u == IF keep > 0 THEN SubSeq(text, 1, keep) \o Suffix ELSE <<>>
           t == [e EXCEPT ![l][i].text = u]
<1>3. TruncateLongestSnippet(e, b) = t
  <2>1. LongestSnippet(e)[1] = l /\ LongestSnippet(e)[2] = i
    BY <1>1
  <2>2. QED
    BY <2>1, Zenon DEF TruncateLongestSnippet, Excess
<1>4. text \in Costs /\ Len(text) \in Nat /\ Cost(text) \in Nat
  BY <1>2, CostType DEF Item, Costs
<1>5. CharsPerToken \in Nat \ {0} /\ MinSnippetChars \in Nat \ {0} /\ Suffix \in Costs
  BY PromptAssumption
<1>6. Cost(Suffix) \in Nat /\ Chars(e) \in Nat
  BY <1>5, CostType, TokensWeigh
<1>7. Tokens(e) \in Nat /\ Chars(e) <= Tokens(e) * CharsPerToken
  BY <1>5, <1>6, TokensWeigh, Rounded
<1>8. /\ excess \in Nat /\ b * CharsPerToken \in Nat
      /\ Tokens(e) * CharsPerToken = excess + b * CharsPerToken
  <2>1. Tokens(e) - b \in Nat
    BY <1>7
  <2>2. \A n, c \in Nat : n * c \in Nat
    OBVIOUS
  <2>3. (Tokens(e) - b) * CharsPerToken = Tokens(e) * CharsPerToken - b * CharsPerToken
    BY <1>5, <1>7
  <2>4. b * CharsPerToken \in Nat /\ Tokens(e) * CharsPerToken \in Nat /\ excess \in Nat
    BY <1>5, <1>7, <2>1, <2>2
  <2>5. QED
    BY <2>3, <2>4
<1> HIDE DEF text, excess
<1>9. CASE keep > 0
  <2>1. keep \in 1 .. Len(text) /\ Len(text) - keep = excess
    BY <1>4, <1>8, <1>9
  <2>2. u = SubSeq(text, 1, keep) \o Suffix
    BY <1>9
  <2> HIDE DEF keep, u
  <2>3. u \in Costs /\ Cost(u) + excess <= Cost(text) + Cost(Suffix)
    BY <1>4, <2>1, <2>2, TextCut
  <2>4. Cost(u) \in Nat
    BY <2>3, CostType
  <2>5. t \in EvidenceType /\ Chars(t) = Chars(e) - Cost(text) + Cost(u)
    BY <1>2, <2>3, TextReplaced DEF text
  <2> HIDE DEF t
  <2>6. Chars(t) <= b * CharsPerToken + Cost(Suffix)
    BY <1>4, <1>6, <1>7, <1>8, <2>3, <2>4, <2>5
  <2>7. QED
    BY <1>3, <2>5, <2>6 DEF Close
<1>10. CASE ~ (keep > 0)
  <2>1. u = <<>>
    BY <1>10
  <2> HIDE DEF keep, u
  <2>2. u \in Costs /\ Len(u) = 0
    BY <2>1 DEF Costs
  <2>3. Cost(u) = 0
    <3>1. Summing(<<>>, [n \in 0 .. 0 |-> 0]) /\ <<>> \in Seq(Int)
      BY DEF Summing
    <3>2. Total(<<>>) = [n \in 0 .. 0 |-> 0][Len(<<>>)]
      BY <3>1, TotalIs
    <3>3. QED
      BY <2>1, <3>2 DEF Cost
  <2>4. /\ t \in EvidenceType /\ Chars(t) = Chars(e) - Cost(text) + Cost(u)
        /\ Cuts(t, h) = Cuts(e, h) - Long[e[l][i]] + (IF Len(u) > MinSnippetChars THEN 1 ELSE 0)
    BY <1>2, <2>2, TextReplaced DEF text
  <2>5. Long[e[l][i]] = 1
    BY <1>1, <1>2 DEF Long
  <2>6. Cuts(e, h) \in Nat
    BY CutsWeigh
  <2> HIDE DEF t
  <2>7. Chars(t) <= Chars(e)
    BY <1>4, <1>6, <2>3, <2>4
  <2>8. Cuts(t, h) < Cuts(e, h)
    BY <1>5, <2>2, <2>4, <2>5, <2>6
  <2>9. QED
    BY <1>3, <2>4, <2>7, <2>8
<1>11. QED
  BY <1>9, <1>10

LEMMA ListHalved ==
  ASSUME NEW e \in EvidenceType, Lists(e) # {}, NEW h, Rank(h)
  PROVE  LET t == TrimLongestList(e)
         IN  t \in EvidenceType /\ Chars(t) <= Chars(e) /\ Cuts(t, h) < Cuts(e, h)
<1> DEFINE l == LongestList(e)
           k == Len(e[l]) \div 2
           row == SubSeq(e[l], 1, k)
           t == Put(e, l, row)
<1>1. l \in 1 .. Len(e) /\ Len(e[l]) > 1
  BY LongestListIs
<1> HIDE DEF l
<1>2. TrimLongestList(e) = t
  BY DEF TrimLongestList, Put, l
<1>3. e \in Seq(Seq(Item)) /\ e[l] \in Seq(Item)
  BY <1>1 DEF EvidenceType
<1>4. Len(e[l]) \in Nat /\ k \in 0 .. Len(e[l])
  <2>1. Len(e[l]) \in Nat
    BY <1>3
  <2>2. \A n \in Nat : n \div 2 \in 0 .. n
    OBVIOUS
  <2>3. QED
    BY <2>1, <2>2
<1>5. Shown \in [Item -> Nat] /\ Long \in [Item -> Nat] /\ ListShown \in [Seq(Item) -> Nat]
  BY ShownType
<1>6. ListCuts(h) \in [Seq(Item) -> Nat]
  BY ListCutsType
<1>7. h[k] < h[Len(e[l])] /\ h[k] \in Nat /\ h[Len(e[l])] \in Nat
  <2> DEFINE n == Len(e[l])
  <2>1. n \in Nat /\ n > 1 /\ k = n \div 2 /\ k \in Nat
    <3>1. k = n \div 2
      OBVIOUS
    <3>2. n \in Nat
      BY <1>4
    <3>3. n > 1
      BY <1>1
    <3> HIDE DEF n, k
    <3>4. k \in Nat
      BY <3>1, <3>2
    <3>5. QED
      BY <3>1, <3>2, <3>3, <3>4
  <2> HIDE DEF n, k
  <2>2. h[n \div 2] < h[n] /\ h \in [Nat -> Nat]
    BY <2>1 DEF Rank
  <2>3. h[k] < h[n] /\ h[k] \in Nat /\ h[n] \in Nat
    BY <2>1, <2>2
  <2>4. QED
    BY <2>3 DEF n
<1> HIDE DEF k
<1>8. row \in Seq(Item) /\ Len(row) = k /\ Weight(row, Shown) <= Weight(e[l], Shown)
  BY <1>3, <1>4, <1>5, WeightCut
<1>9. Weight(row, Long) <= Weight(e[l], Long)
  BY <1>3, <1>4, <1>5, WeightCut
<1> HIDE DEF row
<1>10. /\ ListShown[row] = Weight(row, Shown) /\ ListShown[e[l]] = Weight(e[l], Shown)
       /\ ListCuts(h)[row] = h[k] + Weight(row, Long)
       /\ ListCuts(h)[e[l]] = h[Len(e[l])] + Weight(e[l], Long)
  BY <1>3, <1>8 DEF ListShown, ListCuts
<1>11. /\ Weight(row, Long) \in Nat /\ Weight(e[l], Long) \in Nat
       /\ Weight(row, Shown) \in Nat /\ Weight(e[l], Shown) \in Nat
  BY <1>3, <1>5, <1>8, WeightType
<1>12. t \in Seq(Seq(Item))
       /\ Weight(t, ListShown) = Weight(e, ListShown) - ListShown[e[l]] + ListShown[row]
  <2>1. row \in Seq(Item)
    BY <1>8
  <2>2. e \in Seq(Seq(Item))
    BY <1>3
  <2>3. QED
    BY <1>1, <1>5, <2>1, <2>2, WeightUpdate
<1>13. Weight(t, ListCuts(h)) = Weight(e, ListCuts(h)) - ListCuts(h)[e[l]] + ListCuts(h)[row]
  <2>1. row \in Seq(Item)
    BY <1>8
  <2>2. e \in Seq(Seq(Item))
    BY <1>3
  <2>3. QED
    BY <1>1, <1>6, <2>1, <2>2, WeightUpdate
<1>14. Weight(e, ListShown) \in Nat /\ Weight(e, ListCuts(h)) \in Nat /\ Overhead \in Nat
  BY <1>3, <1>5, <1>6, WeightType, PromptAssumption
<1> HIDE DEF t
<1>15. t \in EvidenceType
  BY <1>12 DEF EvidenceType
<1>16. Chars(t) <= Chars(e)
  <2>1. ListShown[row] <= ListShown[e[l]] /\ ListShown[row] \in Nat /\ ListShown[e[l]] \in Nat
    BY <1>8, <1>10, <1>11
  <2>2. Weight(t, ListShown) <= Weight(e, ListShown) /\ Weight(t, ListShown) \in Int
    BY <1>12, <1>14, <2>1
  <2>3. QED
    BY <1>14, <2>2 DEF Chars
<1>17. Cuts(t, h) < Cuts(e, h)
  <2>1. ListCuts(h)[row] < ListCuts(h)[e[l]] /\ ListCuts(h)[row] \in Nat /\ ListCuts(h)[e[l]] \in Nat
    BY <1>7, <1>9, <1>10, <1>11
  <2>2. Weight(t, ListCuts(h)) < Weight(e, ListCuts(h))
    BY <1>13, <1>14, <2>1
  <2>3. QED
    BY <1>15, <2>2, CutsWeigh
<1>18. QED
  BY <1>2, <1>15, <1>16, <1>17

\* A long text counts among the places.
LEMMA SnippetIsCut ==
  ASSUME NEW e \in EvidenceType, Snippets(e) # {}, NEW h, Rank(h)
  PROVE  Cuts(e, h) > 0
<1>1. PICK l \in DOMAIN e, i \in Nat : i \in DOMAIN e[l] /\ Len(e[l][i].text) > MinSnippetChars
  <2>1. \A l \in DOMAIN e : DOMAIN e[l] \subseteq Nat
    BY DEF EvidenceType
  <2>2. QED
    BY <2>1, LongestSnippetIs
<1>2. l \in 1 .. Len(e) /\ i \in 1 .. Len(e[l]) /\ e[l] \in Seq(Item) /\ e[l][i] \in Item
  BY <1>1 DEF EvidenceType
<1>3. Long[e[l][i]] = 1
  BY <1>1, <1>2 DEF Long
<1>4. Long \in [Item -> Nat] /\ ListCuts(h) \in [Seq(Item) -> Nat]
  BY ShownType, ListCutsType
<1>5. 1 <= Weight(e[l], Long) /\ Weight(e[l], Long) \in Nat
  BY <1>2, <1>3, <1>4, WeightTerm, WeightType
<1>6. ListCuts(h)[e[l]] = h[Len(e[l])] + Weight(e[l], Long)
  BY <1>2 DEF ListCuts
<1>7. Len(e[l]) \in Nat
  BY <1>2
<1>8. h[Len(e[l])] \in Nat
  BY <1>7 DEF Rank
<1>9. ListCuts(h)[e[l]] <= Weight(e, ListCuts(h))
  BY <1>2, <1>4, WeightTerm DEF EvidenceType
<1>10. Cuts(e, h) = Weight(e, ListCuts(h)) /\ Cuts(e, h) \in Nat
  BY CutsWeigh
<1>11. QED
  BY <1>5, <1>6, <1>8, <1>9, <1>10

-----------------------------------------------------------------------------
(* The invariant of the rounds.                                             *)

\* As long as no cut has brought the prompt close to its budget, each round
\* has used up a place.
RoundsUsed(h) ==
    /\ evidence \in EvidenceType /\ settings.budget \in Nat
    /\ round \in 0 .. MaxTrimRounds
    /\ phase \in {"routing", "planned"} => round = 0
    /\ phase \in {"trimming", "synthesis", "answered"} =>
           Close(evidence, settings.budget) \/ Cuts(evidence, h) + round <= MaxTrimRounds
    /\ phase \in {"synthesis", "answered"} => Fits \/ ~ Trimmable \/ round = MaxTrimRounds

LEMMA TrimKeeps ==
  ASSUME NEW h, Rank(h), RoundsUsed(h), Trim
  PROVE  RoundsUsed(h)'
<1> DEFINE b == settings.budget
           t == TrimRound(evidence, b, settings.order)
<1>1. /\ evidence \in EvidenceType /\ b \in Nat /\ round \in 0 .. MaxTrimRounds
      /\ Close(evidence, b) \/ Cuts(evidence, h) + round <= MaxTrimRounds
  BY DEF RoundsUsed, Trim
<1>2. /\ phase = "trimming" /\ phase' = phase /\ settings' = settings
      /\ evidence' = t /\ round' = round + 1 /\ round < MaxTrimRounds
  BY DEF Trim, turn
<1>3. Tokens(evidence) \in Nat /\ ~ (Tokens(evidence) <= b) /\ (Snippets(evidence) # {} \/ Lists(evidence) # {})
  <2>1. CharsPerToken \in Nat \ {0}
    BY PromptAssumption
  <2>2. Tokens(evidence) \in Nat
    BY <1>1, <2>1, TokensWeigh, Rounded
  <2>3. QED
    BY <2>2 DEF Trim, Fits, Trimmable
<1>4. \/ Snippets(evidence) # {} /\ t = TruncateLongestSnippet(evidence, b)
      \/ Lists(evidence) # {} /\ t = TrimLongestList(evidence)
  BY <1>3, Zenon DEF TrimRound
<1>5. t \in EvidenceType /\ (Close(t, b) \/ (Chars(t) <= Chars(evidence) /\ Cuts(t, h) < Cuts(evidence, h)))
  <2>1. CASE Snippets(evidence) # {} /\ t = TruncateLongestSnippet(evidence, b)
    <3>1. Tokens(evidence) > b
      BY <1>1, <1>3
    <3>2. QED
      BY <1>1, <2>1, <3>1, SnippetCut
  <2>2. CASE Lists(evidence) # {} /\ t = TrimLongestList(evidence)
    BY <1>1, <2>2, ListHalved
  <2>3. QED
    BY <1>4, <2>1, <2>2
<1> HIDE DEF t, b
<1>6. Cuts(t, h) \in Nat /\ Cuts(evidence, h) \in Nat
  BY <1>1, <1>5, CutsWeigh
<1>7. MaxTrimRounds \in Nat /\ CharsPerToken \in Nat /\ Suffix \in Costs
  BY PromptAssumption
<1>8. Close(t, b) \/ Cuts(t, h) + (round + 1) <= MaxTrimRounds
  <2>1. Chars(t) \in Nat /\ Chars(evidence) \in Nat /\ Cost(Suffix) \in Nat
    BY <1>1, <1>5, <1>7, TokensWeigh, CostType
  <2> DEFINE bound == b * CharsPerToken + Cost(Suffix)
  <2>2. bound \in Nat
    BY <1>1, <1>7, <2>1
  <2>3. /\ Close(t, b) <=> Chars(t) <= bound
        /\ Close(evidence, b) <=> Chars(evidence) <= bound
    BY DEF Close
  <2> HIDE DEF bound
  <2>4. CASE Chars(t) <= Chars(evidence) /\ Cuts(t, h) < Cuts(evidence, h)
    <3>1. Close(evidence, b) => Close(t, b)
      BY <2>1, <2>2, <2>3, <2>4
    <3>2. Cuts(evidence, h) + round <= MaxTrimRounds => Cuts(t, h) + (round + 1) <= MaxTrimRounds
      BY <1>1, <1>6, <1>7, <2>4
    <3>3. QED
      BY <1>1, <3>1, <3>2
  <2>5. QED
    BY <1>5, <2>4
<1>9. round + 1 \in 0 .. MaxTrimRounds
  BY <1>1, <1>2, <1>7
<1>10. b' = b
  BY <1>2 DEF b
<1>11. QED
  BY <1>1, <1>2, <1>5, <1>8, <1>9, <1>10 DEF RoundsUsed, b

LEMMA CutsKept ==
  ASSUME NEW h, Rank(h), FewCuts(h)
  PROVE  RoundsUsed(h) /\ [Next]_vars => RoundsUsed(h)'
<1> SUFFICES ASSUME RoundsUsed(h), [Next]_vars PROVE RoundsUsed(h)'
  OBVIOUS
<1>1. CASE RouteByRules
  BY <1>1 DEF RouteByRules, Route, turn, RoundsUsed, Fits, Trimmable
<1>2. CASE RoutingAttempt
  <2>1. /\ phase = "routing" /\ phase' \in {"routing", "planned"}
        /\ UNCHANGED <<settings, evidence, round>>
    BY <1>2 DEF RoutingAttempt, Route, turn
  <2>2. QED
    BY <2>1 DEF RoundsUsed
<1>3. CASE RunPlan
  <2>1. PICK found \in Evidences : evidence' = <<CompactNeighbors(found.neighbors), found.snippets>>
    BY <1>3 DEF RunPlan
  <2>2. found.neighbors \in Seq(Item) /\ found.snippets \in Seq(Item)
    BY TurnAssumption
  <2>3. CompactNeighbors(found.neighbors) \in Seq(Item)
    <3> DEFINE k == IF Len(found.neighbors) < NeighborKeep THEN Len(found.neighbors) ELSE NeighborKeep
    <3>1. NeighborKeep \in Nat /\ Len(found.neighbors) \in Nat
      BY <2>2, PromptAssumption
    <3>2. k \in 0 .. Len(found.neighbors)
      BY <3>1
    <3>3. CompactNeighbors(found.neighbors) = SubSeq(found.neighbors, 1, k)
      BY Zenon DEF CompactNeighbors
    <3> HIDE DEF k
    <3>4. QED
      BY <2>2, <3>2, <3>3, Cutting
  <2>4. evidence' \in EvidenceType
    BY <2>1, <2>2, <2>3 DEF EvidenceType
  <2>5. Cuts(evidence', h) <= MaxTrimRounds /\ Cuts(evidence', h) \in Nat
    BY <2>1, <2>4, CutsWeigh DEF FewCuts
  <2>6. phase = "planned" /\ phase' = "trimming" /\ UNCHANGED <<settings, round>>
    BY <1>3 DEF RunPlan, turn
  <2>7. round = 0
    BY <2>6 DEF RoundsUsed
  <2>8. Cuts(evidence', h) + round' <= MaxTrimRounds
    BY <2>5, <2>6, <2>7
  <2>9. QED
    BY <2>4, <2>6, <2>8 DEF RoundsUsed
<1>4. CASE RoutingError
  BY <1>4 DEF RoutingError, turn, RoundsUsed
<1>5. CASE Trim
  BY <1>5, TrimKeeps
<1>6. CASE StartSynthesis
  <2>1. /\ phase = "trimming" /\ phase' = "synthesis" /\ UNCHANGED <<settings, evidence, round>>
        /\ Fits \/ ~ Trimmable \/ round = MaxTrimRounds
    BY <1>6 DEF StartSynthesis, turn
  <2>2. Fits' = Fits /\ Trimmable' = Trimmable
    BY <2>1 DEF Fits, Trimmable
  <2>3. QED
    BY <2>1, <2>2 DEF RoundsUsed
<1> DEFINE same == phase \in {"synthesis", "answered"} /\ phase' \in {"synthesis", "answered"}
                   /\ UNCHANGED <<settings, evidence, round>>
<1>7. same => RoundsUsed(h)'
  <2> SUFFICES ASSUME same PROVE RoundsUsed(h)'
    OBVIOUS
  <2>1. Fits' = Fits /\ Trimmable' = Trimmable
    BY DEF Fits, Trimmable
  <2>2. QED
    BY <2>1 DEF RoundsUsed
<1>8. CASE Delta
  BY <1>7, <1>8 DEF Delta, turn
<1>9. CASE Synthesized
  BY <1>7, <1>9 DEF Synthesized, turn
<1>10. CASE SynthesisFails
  BY <1>7, <1>10 DEF SynthesisFails, turn
<1>11. CASE UNCHANGED vars
  <2>1. UNCHANGED <<settings, phase, evidence, round>>
    BY <1>11 DEF vars
  <2>2. Fits' = Fits /\ Trimmable' = Trimmable
    BY <2>1 DEF Fits, Trimmable
  <2>3. QED
    BY <2>1, <2>2 DEF RoundsUsed
<1>12. QED
  BY <1>1, <1>2, <1>3, <1>4, <1>5, <1>6, <1>8, <1>9, <1>10, <1>11 DEF Next

\* Whatever the evidence, the budget and the order of cutting: if there are
\* less places to cut than rounds, by any rank of the lists' lengths, then what
\* is sent exceeds the budget by no more than the mark of an omission, unless
\* nothing was left to cut (apply_prompt_budget).
THEOREM ModelTurnOverrun ==
  ASSUME NEW h, Rank(h), FewCuts(h)
  PROVE  Spec => []OverrunBounded
<1>1. Init => RoundsUsed(h)
  <2> SUFFICES ASSUME Init PROVE RoundsUsed(h)
    OBVIOUS
  <2>1. evidence = <<>> /\ round = 0 /\ phase = "routing" /\ settings.budget \in Budgets
    BY DEF Init
  <2>2. settings.budget \in Nat /\ MaxTrimRounds \in Nat
    BY <2>1, TurnAssumption, PromptAssumption
  <2>3. QED
    BY <2>1, <2>2 DEF RoundsUsed, EvidenceType
<1>2. RoundsUsed(h) => OverrunBounded
  <2> SUFFICES ASSUME RoundsUsed(h), phase \in {"synthesis", "answered"}, settings.budget > 0, Trimmable
      PROVE  Tokens(evidence) - settings.budget <= (Cost(Suffix) + CharsPerToken - 1) \div CharsPerToken
    BY DEF OverrunBounded
  <2> DEFINE b == settings.budget
             over == (Cost(Suffix) + CharsPerToken - 1) \div CharsPerToken
  <2>1. CharsPerToken \in Nat \ {0} /\ Cost(Suffix) \in Nat /\ MaxTrimRounds \in Nat
    BY PromptAssumption, CostType
  <2>2. evidence \in EvidenceType /\ b \in Nat /\ b > 0 /\ round \in 0 .. MaxTrimRounds
    BY DEF RoundsUsed
  <2>3. /\ Chars(evidence) \in Nat
        /\ Tokens(evidence) = (Chars(evidence) + CharsPerToken - 1) \div CharsPerToken
    BY <2>2, TokensWeigh
  <2>4. Tokens(evidence) \in Nat
    BY <2>1, <2>3, Rounded
  <2>5. over \in Nat
    BY <2>1, Rounded
  <2> HIDE DEF over
  <2>6. CASE Tokens(evidence) <= b
    BY <2>2, <2>4, <2>5, <2>6 DEF over
  <2>7. CASE Close(evidence, b)
    <3>1. Chars(evidence) <= b * CharsPerToken + Cost(Suffix)
      BY <2>7 DEF Close
    <3> HIDE DEF b
    <3>2. (Chars(evidence) + CharsPerToken - 1) \div CharsPerToken - b <= over
      BY <2>1, <2>2, <2>3, <3>1, RoundedOver DEF over
    <3>3. QED
      BY <2>3, <3>2 DEF b, over
  <2>8. ~ (round = MaxTrimRounds /\ Cuts(evidence, h) + round <= MaxTrimRounds)
    <3> SUFFICES ASSUME round = MaxTrimRounds, Cuts(evidence, h) + round <= MaxTrimRounds PROVE FALSE
      OBVIOUS
    <3>1. Cuts(evidence, h) = 0
      BY <2>1, <2>2, CutsWeigh
    <3>2. CASE Snippets(evidence) # {}
      BY <2>2, <3>1, <3>2, SnippetIsCut
    <3>3. CASE Lists(evidence) # {}
      BY <2>2, <3>1, <3>3, ListHalved, CutsWeigh
    <3>4. QED
      BY <3>2, <3>3 DEF Trimmable
  <2>9. (Tokens(evidence) <= b) \/ round = MaxTrimRounds
    BY <2>2 DEF RoundsUsed, Fits
  <2>10. Close(evidence, b) \/ Cuts(evidence, h) + round <= MaxTrimRounds
    BY DEF RoundsUsed
  <2>11. QED
    BY <2>6, <2>7, <2>8, <2>9, <2>10
<1>3. QED
  BY <1>1, <1>2, CutsKept, PTL DEF Spec

=============================================================================
