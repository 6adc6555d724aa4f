------------------------ MODULE MemorySessionProofs ------------------------
(***************************************************************************)
(* What holds of the conversation memory for any number of workers and     *)
(* turns and every retention, with stale reads and failures anywhere.      *)
(*                                                                         *)
(* The invariant says what a stale read is still good for.  A session row  *)
(* read earlier mentions only turns that are folded by now, because folds  *)
(* are never undone.  Rows read after it are disjoint from it, and with    *)
(* what is folded by now they have no gap, because the rows a summarizer   *)
(* chose are the oldest unfolded ones of a past state.                     *)
(***************************************************************************)
EXTENDS MemorySession, FiniteSetTheorems, TLAPS

Covered(session) == \A i \in Ids : /\ session.content[i] <= 1
                                   /\ session.content[i] = 1 => i \in folded

\* What a summarizer or get_context has read.
Reading(w) == workers[w].pc \in {"fold_rows", "llm", "context_rows", "answer"} =>
                Covered(workers[w].session)
Disjoint(w) == workers[w].pc \in {"llm", "answer"} =>
                 \A i \in workers[w].rows : workers[w].session.content[i] = 0
Chosen(w) == At(w, "llm") =>
               /\ workers[w].rows \subseteq 1 .. Len(turns)
               /\ \A i \in workers[w].rows : /\ i + RecentTurnsToKeep <= Len(turns)
                                             /\ 1 .. i \subseteq workers[w].rows \cup folded

MemoryInv == /\ TypeOK
             /\ Covered(summary)
             /\ FoldedIsPrefix
             /\ RecentStayVerbatim
             /\ \A w \in Workers : Reading(w) /\ Disjoint(w) /\ Chosen(w)

-----------------------------------------------------------------------------
\* What FoldSlice returns: the oldest unfolded rows but for the last
\* recent_turns_to_keep of the session.
LEMMA FoldSliceFacts ==
  ASSUME TypeOK, FoldedIsPrefix
  PROVE  /\ FoldSlice \subseteq Unfolded
         /\ \A i \in FoldSlice : /\ i + RecentTurnsToKeep <= Len(turns)
                                 /\ 1 .. i \subseteq FoldSlice \cup folded
<1>1. FoldSlice \subseteq Unfolded /\ Unfolded \subseteq 1 .. Len(turns) /\ Len(turns) \in Nat
  BY DEF FoldSlice, Unfolded, TypeOK
<1> DEFINE Above(i) == {j \in Unfolded : j > i}
<1>2. \A i \in Unfolded : /\ IsFiniteSet(Above(i)) /\ Cardinality(Above(i)) \in Nat
                          /\ Cardinality(Above(i)) <= Len(turns) - i
  <2> TAKE i \in Unfolded
  <2>1. i \in 1 .. Len(turns)
    BY <1>1
  <2>2. /\ IsFiniteSet((i + 1) .. Len(turns))
        /\ Cardinality((i + 1) .. Len(turns)) = Len(turns) - i
    BY <1>1, <2>1, FS_Interval
  <2>3. Above(i) \in SUBSET ((i + 1) .. Len(turns))
    <3>1. ASSUME NEW j \in Above(i)
          PROVE  j \in (i + 1) .. Len(turns)
      <4>1. j \in 1 .. Len(turns) /\ j > i
        BY <1>1
      <4>2. QED
        BY <1>1, <2>1, <4>1
    <3>2. QED
      BY <3>1
  <2> HIDE DEF Above
  <2>4. IsFiniteSet(Above(i)) /\ Cardinality(Above(i)) <= Cardinality((i + 1) .. Len(turns))
    BY <2>2, <2>3, FS_Subset
  <2>5. Cardinality(Above(i)) \in Nat
    BY <2>4, FS_CardinalityType
  <2>6. QED
    BY <2>2, <2>4, <2>5
<1>3. ASSUME NEW i \in FoldSlice
      PROVE  /\ i + RecentTurnsToKeep <= Len(turns)
             /\ 1 .. i \subseteq FoldSlice \cup folded
  <2>1. /\ i \in Unfolded /\ i \in 1 .. Len(turns)
        /\ RecentTurnsToKeep > 0 /\ Cardinality(Above(i)) >= RecentTurnsToKeep
    BY <1>1, <1>3 DEF FoldSlice
  <2>2. i + RecentTurnsToKeep <= Len(turns)
    <3> HIDE DEF Above
    <3>1. QED
      BY <1>1, <1>2, <2>1, MemoryAssumption
  <2>3. ASSUME NEW j \in 1 .. i, j \notin folded
        PROVE  j \in FoldSlice
    <3>1. j \in Unfolded /\ j <= i
      BY <1>1, <2>1, <2>3 DEF Unfolded
    <3>2. Above(i) \subseteq Above(j)
      <4>1. \A k \in Unfolded : k \in Nat /\ (k > i => k > j)
        BY <1>1, <2>1, <3>1
      <4>2. QED
        BY <4>1
    <3>3. Cardinality(Above(j)) >= RecentTurnsToKeep
      <4> HIDE DEF Above
      <4>1. Cardinality(Above(i)) <= Cardinality(Above(j))
        BY <1>2, <2>1, <3>1, <3>2, FS_Subset
      <4>2. QED
        BY <1>2, <2>1, <3>1, <4>1, MemoryAssumption
    <3>4. QED
      BY <2>1, <3>1, <3>3 DEF FoldSlice
  <2>4. QED
    BY <2>2, <2>3
<1>4. QED
  BY <1>1, <1>3

LEMMA RecordTypes == Idle \in Worker /\ DefaultSummary \in Summary
                     /\ \A i \in Ids : DefaultSummary.content[i] = 0
BY DEF Idle, Worker, DefaultSummary, Summary, Content

LEMMA MemoryInvInit == Init => MemoryInv
<1> SUFFICES ASSUME Init PROVE MemoryInv
  OBVIOUS
<1>1. TypeOK
  BY RecordTypes, MemoryAssumption DEF Init, TypeOK
<1>2. folded = {} /\ Covered(summary)
  BY RecordTypes DEF Init, Covered
<1>3. \A w \in Workers : workers[w].pc = "idle"
  BY DEF Init, Idle
<1>4. QED
  BY <1>1, <1>2, <1>3
     DEF MemoryInv, FoldedIsPrefix, RecentStayVerbatim, Reading, Disjoint, Chosen, At

-----------------------------------------------------------------------------
\* One worker moves on while turns and folds only grow: the others' reads
\* stay good, and so does its own if it is said what it became.
LEMMA WorkerMoves ==
  ASSUME MemoryInv, NEW w \in Workers, NEW x \in Worker, Become(w, x),
         turns' \in Seq(Nat), Len(turns) <= Len(turns'), folded \subseteq folded',
         (Reading(w) /\ Disjoint(w) /\ Chosen(w))'
  PROVE  /\ workers' \in [Workers -> Worker]
         /\ \A v \in Workers : (Reading(v) /\ Disjoint(v) /\ Chosen(v))'
<1>1. /\ workers' \in [Workers -> Worker]
      /\ \A v \in Workers : v # w => workers'[v] = workers[v]
  BY DEF Become, MemoryInv, TypeOK
<1>2. Len(turns) \in Nat /\ Len(turns') \in Nat
  BY DEF MemoryInv, TypeOK
<1>3. ASSUME NEW v \in Workers, v # w
      PROVE  (Reading(v) /\ Disjoint(v) /\ Chosen(v))'
  <2>1. workers'[v] = workers[v] /\ Reading(v) /\ Disjoint(v) /\ Chosen(v)
    BY <1>1, <1>3 DEF MemoryInv
  <2>2. Reading(v)'
    BY <2>1 DEF Reading, Covered
  <2>3. Disjoint(v)'
    BY <2>1 DEF Disjoint
  <2>4. Chosen(v)'
    <3>1. \A i \in 1 .. Len(turns) :
             i \in 1 .. Len(turns') /\ (i + RecentTurnsToKeep <= Len(turns) => i + RecentTurnsToKeep <= Len(turns'))
      BY <1>2, MemoryAssumption
    <3>2. QED
      BY <2>1, <3>1 DEF Chosen, At
  <2>5. QED
    BY <2>2, <2>3, <2>4
<1>4. QED
  BY <1>1, <1>3

\* A worker that has become idle, or has read nothing yet, is subject to nothing.
LEMMA NothingRead ==
  ASSUME NEW w \in Workers, NEW x, workers' = [workers EXCEPT ![w] = x], TypeOK,
         x.pc \in {"idle", "needs_session", "needs_rows", "fold_session"}
  PROVE  (Reading(w) /\ Disjoint(w) /\ Chosen(w))'
<1>1. workers'[w].pc \in {"idle", "needs_session", "needs_rows", "fold_session"}
  BY DEF TypeOK
<1>2. QED
  BY <1>1 DEF Reading, Disjoint, Chosen, At

\* The steps that write nothing, given what the worker became.
LEMMA ReadKeeps ==
  ASSUME MemoryInv, NEW w \in Workers, NEW x \in Worker, Become(w, x), UnchangedRows,
         (Reading(w) /\ Disjoint(w) /\ Chosen(w))'
  PROVE  MemoryInv'
<1>1. turns' = turns /\ folded' = folded /\ summary' = summary
  BY DEF UnchangedRows
<1>2. turns' \in Seq(Nat) /\ Len(turns) <= Len(turns')
  BY <1>1 DEF MemoryInv, TypeOK
<1>3. /\ workers' \in [Workers -> Worker]
      /\ \A v \in Workers : (Reading(v) /\ Disjoint(v) /\ Chosen(v))'
  BY <1>1, <1>2, WorkerMoves
<1>4. QED
  BY <1>1, <1>3 DEF MemoryInv, TypeOK, Covered, FoldedIsPrefix, RecentStayVerbatim

LEMMA AppendKeeps == ASSUME MemoryInv, NEW w \in Workers, AppendTurn(w) PROVE MemoryInv'
<1> DEFINE x == [Idle EXCEPT !.pc = "needs_session"]
<1>1. x \in Worker /\ x.pc = "needs_session"
  BY RecordTypes DEF Worker, Idle
<1> HIDE DEF x
<1>2. Become(w, x) /\ folded' = folded /\ summary' = summary
  BY DEF AppendTurn, x
<1>3. PICK tokens \in TurnTokens : turns' = Append(turns, tokens)
  BY DEF AppendTurn
<1>4. turns' \in Seq(Nat) /\ Len(turns') = Len(turns) + 1 /\ Len(turns') <= MaxTurns
      /\ Len(turns) \in Nat
  BY <1>3, MemoryAssumption DEF AppendTurn, MemoryInv, TypeOK
<1>5. (Reading(w) /\ Disjoint(w) /\ Chosen(w))'
  BY <1>1, <1>2, NothingRead DEF Become, MemoryInv
<1>6. /\ workers' \in [Workers -> Worker]
      /\ \A v \in Workers : (Reading(v) /\ Disjoint(v) /\ Chosen(v))'
  BY <1>1, <1>2, <1>4, <1>5, WorkerMoves
<1>7. folded' \subseteq 1 .. Len(turns') /\ RecentStayVerbatim'
  BY <1>2, <1>4, MemoryAssumption DEF MemoryInv, TypeOK, RecentStayVerbatim
<1>8. QED
  BY <1>2, <1>4, <1>6, <1>7 DEF MemoryInv, TypeOK, Covered, FoldedIsPrefix

LEMMA CommitKeeps == ASSUME MemoryInv, NEW w \in Workers, FoldCommits(w) PROVE MemoryInv'
<1> DEFINE session == workers[w].session
           rows == workers[w].rows
<1>1. /\ session \in Summary /\ rows \subseteq Ids
      /\ Covered(session) /\ \A i \in rows : session.content[i] = 0
      /\ rows \subseteq 1 .. Len(turns)
      /\ \A i \in rows : i + RecentTurnsToKeep <= Len(turns) /\ 1 .. i \subseteq rows \cup folded
  BY DEF FoldCommits, MemoryInv, TypeOK, Worker, Reading, Disjoint, Chosen, At
<1>2. /\ folded' = folded \cup rows /\ turns' = turns /\ Become(w, Idle)
      /\ summary'.content = Summarized(session, rows) /\ summary'.tokens \in SummaryTokens
      /\ summary' = [content |-> Summarized(session, rows), tokens |-> summary'.tokens]
  BY DEF FoldCommits
<1> HIDE DEF session, rows
<1>3. /\ Summarized(session, rows) \in Content
      /\ \A i \in Ids : Summarized(session, rows)[i] = session.content[i] + (IF i \in rows THEN 1 ELSE 0)
  BY <1>1 DEF Summarized, Content, Summary
<1>4. summary' \in Summary
  BY <1>2, <1>3, MemoryAssumption DEF Summary
<1>5. Covered(summary)'
  <2>1. \A i \in Ids : session.content[i] \in Nat
    BY <1>1 DEF Summary, Content
  <2>2. QED
    BY <1>1, <1>2, <1>3, <2>1 DEF Covered
<1>6. FoldedIsPrefix' /\ RecentStayVerbatim' /\ folded' \subseteq 1 .. Len(turns')
  BY <1>1, <1>2 DEF MemoryInv, TypeOK, FoldedIsPrefix, RecentStayVerbatim
<1>7. (Reading(w) /\ Disjoint(w) /\ Chosen(w))'
  BY <1>2, NothingRead DEF Become, MemoryInv, Idle
<1>8. turns' \in Seq(Nat) /\ Len(turns') <= MaxTurns /\ Len(turns) <= Len(turns')
  BY <1>2 DEF MemoryInv, TypeOK
<1>9. /\ workers' \in [Workers -> Worker]
      /\ \A v \in Workers : (Reading(v) /\ Disjoint(v) /\ Chosen(v))'
  BY <1>2, <1>7, <1>8, RecordTypes, WorkerMoves
<1>10. QED
  BY <1>4, <1>5, <1>6, <1>8, <1>9 DEF MemoryInv, TypeOK

\* The reads.
LEMMA ReadsKeep ==
  ASSUME MemoryInv, NEW w \in Workers, WorkerStep(w), ~AppendTurn(w), ~FoldCommits(w)
  PROVE  MemoryInv'
<1>1. /\ workers \in [Workers -> Worker] /\ workers[w] \in Worker
      /\ summary \in Summary /\ Covered(summary) /\ TypeOK
      /\ Reading(w)
  BY DEF MemoryInv, TypeOK
<1>2. /\ Idle \in Worker /\ Idle.pc = "idle"
      /\ [Idle EXCEPT !.pc = "fold_session"] \in Worker
      /\ [Idle EXCEPT !.pc = "fold_session"].pc = "fold_session"
  BY RecordTypes DEF Idle, Worker
<1>3. ASSUME NEW x \in Worker, Become(w, x), UnchangedRows,
             x.pc \in {"idle", "needs_session", "needs_rows", "fold_session"}
      PROVE  MemoryInv'
  BY <1>1, <1>3, NothingRead, ReadKeeps DEF Become
\* A session row has been read, the turns have not.
<1>4. ASSUME NEW x \in Worker, Become(w, x), UnchangedRows,
             x.pc \in {"fold_rows", "context_rows"}, x.session = summary
      PROVE  MemoryInv'
  <2>1. workers'[w] = x /\ folded' = folded
    BY <1>1, <1>4 DEF Become, UnchangedRows
  <2>2. (Reading(w) /\ Disjoint(w) /\ Chosen(w))'
    BY <1>1, <1>4, <2>1 DEF Reading, Disjoint, Chosen, At, Covered
  <2>3. QED
    BY <1>4, <2>2, ReadKeeps
\* The turns have been read as well: unfolded ones, so none of the session's.
<1>5. ASSUME NEW x \in Worker, Become(w, x), UnchangedRows,
             At(w, "fold_rows") \/ At(w, "context_rows"),
             x.session = workers[w].session, x.rows \subseteq Unfolded,
             \/ x.pc = "answer"
             \/ x.pc = "llm" /\ x.rows = FoldSlice
      PROVE  MemoryInv'
  <2>1. workers'[w] = x /\ folded' = folded /\ turns' = turns
    BY <1>1, <1>5 DEF Become, UnchangedRows
  <2>2. Covered(x.session) /\ x.session \in Summary /\ x.rows \subseteq Ids
    BY <1>1, <1>5 DEF Reading, At, Worker
  <2>3. \A i \in x.rows : x.session.content[i] = 0
    <3>1. \A i \in x.rows : i \in Ids /\ i \notin folded /\ x.session.content[i] \in Nat
      BY <1>5, <2>2 DEF Unfolded, Summary, Content
    <3>2. QED
      BY <2>2, <3>1 DEF Covered
  <2>4. Reading(w)' /\ Disjoint(w)'
    BY <2>1, <2>2, <2>3 DEF Reading, Disjoint, Covered
  <2>5. Chosen(w)'
    <3>1. CASE x.pc = "answer"
      BY <2>1, <3>1 DEF Chosen, At
    <3>2. CASE x.pc = "llm" /\ x.rows = FoldSlice
      <4>1. Unfolded \subseteq 1 .. Len(turns)
        BY DEF Unfolded
      <4>2. /\ x.rows \subseteq 1 .. Len(turns)
            /\ \A i \in x.rows : /\ i + RecentTurnsToKeep <= Len(turns)
                                 /\ 1 .. i \subseteq x.rows \cup folded
        BY <1>5, <3>2, <4>1, FoldSliceFacts DEF MemoryInv
      <4>3. QED
        BY <2>1, <4>2 DEF Chosen
    <3>3. QED
      BY <1>5, <3>1, <3>2
  <2>6. QED
    BY <1>5, <2>4, <2>5, ReadKeeps
<1>6. CASE NeedsReadsSession(w)
  <2> DEFINE x == [workers[w] EXCEPT !.pc = "needs_rows", !.session = summary]
  <2>1. x \in Worker /\ x.pc = "needs_rows"
    BY <1>1 DEF Worker
  <2> HIDE DEF x
  <2>2. QED
    BY <1>3, <1>6, <2>1 DEF NeedsReadsSession, x
<1>7. CASE NeedsReadsRows(w)
  BY <1>2, <1>3, <1>7 DEF NeedsReadsRows
<1>8. CASE SummarizeSession(w)
  BY <1>2, <1>3, <1>8 DEF SummarizeSession
<1>9. CASE FoldReadsSession(w)
  <2> DEFINE x == [workers[w] EXCEPT !.pc = "fold_rows", !.session = summary]
  <2>1. x \in Worker /\ x.pc = "fold_rows" /\ x.session = summary
    BY <1>1 DEF Worker
  <2> HIDE DEF x
  <2>2. QED
    BY <1>4, <1>9, <2>1 DEF FoldReadsSession, x
<1>10. CASE FoldReadsRows(w)
  <2> DEFINE x == [workers[w] EXCEPT !.pc = "llm", !.rows = FoldSlice]
  <2>1. FoldSlice \subseteq Unfolded /\ Unfolded \subseteq Ids
    BY MemoryAssumption DEF FoldSlice, Unfolded, Ids, MemoryInv, TypeOK
  <2>2. x \in Worker /\ x.pc = "llm" /\ x.session = workers[w].session /\ x.rows = FoldSlice
    BY <1>1, <2>1 DEF Worker
  <2> HIDE DEF x
  <2>3. Become(w, x) \/ Become(w, Idle)
    BY <1>10 DEF FoldReadsRows, x
  <2>4. QED
    BY <1>2, <1>3, <1>5, <1>10, <2>1, <2>2, <2>3 DEF FoldReadsRows
<1>11. CASE ContextReadsSession(w)
  <2>1. PICK budget \in ContextBudgets :
           Become(w, [Idle EXCEPT !.pc = "context_rows", !.session = summary, !.budget = budget])
    BY <1>11 DEF ContextReadsSession
  <2> DEFINE x == [Idle EXCEPT !.pc = "context_rows", !.session = summary, !.budget = budget]
  <2>2. x \in Worker /\ x.pc = "context_rows" /\ x.session = summary
    BY <1>1, <1>2, MemoryAssumption DEF Worker, Idle
  <2> HIDE DEF x
  <2>3. QED
    BY <1>4, <1>11, <2>1, <2>2 DEF ContextReadsSession, x
<1>12. CASE ContextReadsRows(w)
  <2> DEFINE rows == Recent(Remaining(workers[w].budget, workers[w].session.tokens))
             x == [workers[w] EXCEPT !.pc = "answer", !.rows = rows]
  <2>1. rows \subseteq Unfolded /\ Unfolded \subseteq Ids
    BY MemoryAssumption DEF Recent, Unfolded, Ids, MemoryInv, TypeOK
  <2>2. Become(w, x)
    BY <1>12 DEF ContextReadsRows
  <2> HIDE DEF rows
  <2>3. x \in Worker /\ x.pc = "answer" /\ x.session = workers[w].session /\ x.rows = rows
    BY <1>1, <2>1 DEF Worker
  <2> HIDE DEF x
  <2>4. QED
    BY <1>5, <1>12, <2>1, <2>2, <2>3 DEF ContextReadsRows
<1>13. CASE ContextAnswers(w) \/ Fails(w)
  BY <1>2, <1>3, <1>13 DEF ContextAnswers, Fails
<1>14. QED
  BY <1>6, <1>7, <1>8, <1>9, <1>10, <1>11, <1>12, <1>13 DEF WorkerStep

LEMMA MemoryInvNext == MemoryInv /\ [Next]_vars => MemoryInv'
<1>1. ASSUME MemoryInv, Next PROVE MemoryInv'
  BY <1>1, AppendKeeps, CommitKeeps, ReadsKeep DEF Next
<1>2. ASSUME MemoryInv, UNCHANGED vars PROVE MemoryInv'
  BY <1>2 DEF vars, MemoryInv, TypeOK, Covered, FoldedIsPrefix, RecentStayVerbatim,
              Reading, Disjoint, Chosen, At
<1>3. QED
  BY <1>1, <1>2

LEMMA MemoryInvAlways == Spec => []MemoryInv
BY MemoryInvInit, MemoryInvNext, PTL DEF Spec

-----------------------------------------------------------------------------
(* The rows have their types; folded_at is set on existing turns only.      *)
THEOREM MemoryTyped == Spec => []TypeOK
BY MemoryInvAlways, PTL DEF MemoryInv

(* However many summarizations overlap, whatever they have read and whenever *)
(* they fail, no turn is summarized into the rolling summary twice.          *)
THEOREM SummaryNeverDoubles == Spec => []SummaryOnce
<1>1. MemoryInv => SummaryOnce
  BY DEF MemoryInv, Covered, SummaryOnce
<1>2. QED
  BY <1>1, MemoryInvAlways, PTL

(* Overlapping summarizations leave no gap in the folded history.            *)
THEOREM FoldingIsOldestFirst == Spec => []FoldedIsPrefix
BY MemoryInvAlways, PTL DEF MemoryInv

(* For every retention, the last recent_turns_to_keep turns stay verbatim.   *)
THEOREM RecentTurnsKept == Spec => []RecentStayVerbatim
BY MemoryInvAlways, PTL DEF MemoryInv

(* The two reads of get_context never show a turn verbatim and summarized.   *)
THEOREM ContextShowsOnce == Spec => []ContextDisjoint
<1>1. MemoryInv => ContextDisjoint
  BY DEF MemoryInv, Disjoint, ContextDisjoint, At
<1>2. QED
  BY <1>1, MemoryInvAlways, PTL
=============================================================================
