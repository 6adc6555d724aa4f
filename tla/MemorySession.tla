--------------------------- MODULE MemorySession ---------------------------
(***************************************************************************)
(* The conversation memory of core/memory/service.py: the turns of one     *)
(* session and their rolling summary, in SQLite.                           *)
(*                                                                         *)
(* Every tool call is served by a coroutine of its own with a connection   *)
(* of its own, here a worker.  A SELECT opens no transaction, so what a    *)
(* worker has read may be stale at its next await; what it writes is       *)
(* committed in one transaction, hence in one step.  Calls of a session    *)
(* overlap when two requests share it and when the orchestrator's client   *)
(* gives up on a call at its timeout and sends it again while the first    *)
(* one still waits for the summarizer.                                     *)
(*                                                                         *)
(* Abstractions.  A turn is its row id and its token estimate, a summary   *)
(* is the turns the summarizer was given for it, with multiplicity, and    *)
(* its token count: the summarizer is taken to forget nothing.  Sessions   *)
(* share no rows, so one is modelled.  A worker that fails or is cancelled *)
(* anywhere (the LLM, a locked database, the caller) has written nothing   *)
(* since its last commit; a restart of the agent is that, for all workers. *)
(***************************************************************************)
EXTENDS Naturals, Sequences, FiniteSets, Functions

CONSTANTS Workers,         \* tool calls being served at a time
          MaxTurns,        \* bound: turns appended in the session's life
          TurnTokens,      \* token estimates of turns
          SummaryTokens,   \* token estimates of summaries
          TokenBudget,     \* MEM_TOKEN_BUDGET
          ContextBudgets,  \* token budgets get_context is called with
          RecentTurnsToKeep

ASSUME MemoryAssumption ==
    /\ MaxTurns \in Nat /\ TokenBudget \in Nat /\ RecentTurnsToKeep \in Nat
    /\ TurnTokens \subseteq Nat /\ SummaryTokens \subseteq Nat /\ ContextBudgets \subseteq Nat

VARIABLES turns,    \* rows of turns: id |-> token_estimate
          folded,   \* ids with folded_at set
          summary,  \* sessions.summary and .summary_token_count; the first turn
                    \* inserts the sessions row, so there is one iff there are turns
          workers

vars == <<turns, folded, summary, workers>>

Ids == 1 .. MaxTurns

\* How often each turn went into the summary.
Content == [Ids -> Nat]
Summary == [content : Content, tokens : Nat]
DefaultSummary == [content |-> [i \in Ids |-> 0], tokens |-> 0]

\* session: the sessions row as read; rows: the turns chosen from those read.
Worker == [pc : {"idle", "needs_session", "needs_rows", "fold_session", "fold_rows",
                 "llm", "context_rows", "answer"},
           session : Summary, rows : SUBSET Ids, budget : Nat]
Idle == [pc |-> "idle", session |-> DefaultSummary, rows |-> {}, budget |-> 0]

TypeOK == /\ turns \in Seq(Nat) /\ Len(turns) <= MaxTurns
          /\ folded \subseteq 1 .. Len(turns)
          /\ summary \in Summary
          /\ workers \in [Workers -> Worker]

Init == /\ turns = <<>>
        /\ folded = {}
        /\ summary = DefaultSummary
        /\ workers = [w \in Workers |-> Idle]

-----------------------------------------------------------------------------
\* WHERE folded_at IS NULL
Unfolded == (1 .. Len(turns)) \ folded

TokensOf(ids) == SumFunctionOnSet(turns, ids)

\* (mutant) the newest rows are folded, the oldest kept
FoldSliceNewest == {i \in Unfolded : /\ RecentTurnsToKeep > 0
                                     /\ Cardinality({j \in Unfolded : j < i}) >= RecentTurnsToKeep}

\* (mutant) one row too many
FoldSliceOneMore == {i \in Unfolded : /\ RecentTurnsToKeep > 0
                                      /\ Cardinality({j \in Unfolded : j > i}) + 1 >= RecentTurnsToKeep}

\* (mutant) positions in the list instead of row ids
FoldSlicePositions == {i - 1 : i \in {j \in Unfolded : j + RecentTurnsToKeep <= Len(turns)}}

\* all_rows[:-recent_turns_to_keep], which is empty when nothing is to be kept.
FoldSlice == {i \in Unfolded : /\ RecentTurnsToKeep > 0
                               /\ Cardinality({j \in Unfolded : j > i}) >= RecentTurnsToKeep}

\* The newest unfolded turns that fit, taken until one does not.
Recent(remaining) == {i \in Unfolded : TokensOf({j \in Unfolded : j >= i}) <= remaining}

\* max(budget - used, 0)
Remaining(budget, used) == IF budget < used THEN 0 ELSE budget - used

At(w, pc) == workers[w].pc = pc
Become(w, worker) == workers' = [workers EXCEPT ![w] = worker]
UnchangedRows == UNCHANGED <<turns, folded, summary>>

-----------------------------------------------------------------------------
\* append_turn: the insert and its commit.
AppendTurn(w) ==
    /\ At(w, "idle")
    /\ Len(turns) < MaxTurns
    /\ \E tokens \in TurnTokens : turns' = Append(turns, tokens)
    /\ Become(w, [Idle EXCEPT !.pc = "needs_session"])
    /\ UNCHANGED <<folded, summary>>

\* _needs_summary: the session row, then the turns.
NeedsReadsSession(w) ==
    /\ At(w, "needs_session")
    /\ Become(w, [workers[w] EXCEPT !.pc = "needs_rows", !.session = summary])
    /\ UnchangedRows

NeedsReadsRows(w) ==
    /\ At(w, "needs_rows")
    /\ LET total == workers[w].session.tokens + TokensOf(Unfolded)
       IN Become(w, IF total > TokenBudget /\ Cardinality(Unfolded) > RecentTurnsToKeep
                      THEN [Idle EXCEPT !.pc = "fold_session"] ELSE Idle)
    /\ UnchangedRows

\* The summarize_session tool: nothing to do for a session that does not exist.
SummarizeSession(w) ==
    /\ At(w, "idle")
    /\ turns # <<>>
    /\ Become(w, [Idle EXCEPT !.pc = "fold_session"])
    /\ UnchangedRows

FoldReadsSession(w) ==
    /\ At(w, "fold_session")
    /\ Become(w, [workers[w] EXCEPT !.pc = "fold_rows", !.session = summary])
    /\ UnchangedRows

FoldReadsRows(w) ==
    /\ At(w, "fold_rows")
    /\ Become(w, IF Cardinality(Unfolded) > RecentTurnsToKeep
                   THEN [workers[w] EXCEPT !.pc = "llm", !.rows = FoldSlice] ELSE Idle)
    /\ UnchangedRows

\* What the summarizer makes of the session and the rows it was shown.
Summarized(session, rows) == [i \in Ids |-> session.content[i] + (IF i \in rows THEN 1 ELSE 0)]

\* (mutant) the session row is read again when the summary is written
FoldCommitsOnCurrent(w) ==
    /\ At(w, "llm")
    /\ \E tokens \in SummaryTokens :
          summary' = [content |-> Summarized(summary, workers[w].rows), tokens |-> tokens]
    /\ folded' = folded \cup workers[w].rows
    /\ Become(w, Idle)
    /\ UNCHANGED turns

\* (mutant) two transactions, and the second one is not reached
FoldCommitsSummaryOnly(w) ==
    /\ At(w, "llm")
    /\ \E tokens \in SummaryTokens :
          summary' = [content |-> Summarized(workers[w].session, workers[w].rows), tokens |-> tokens]
    /\ Become(w, Idle)
    /\ UNCHANGED <<turns, folded>>

\* The summarizer answered: both updates and the commit.
FoldCommits(w) ==
    /\ At(w, "llm")
    /\ \E tokens \in SummaryTokens :
          summary' = [content |-> Summarized(workers[w].session, workers[w].rows), tokens |-> tokens]
    /\ folded' = folded \cup workers[w].rows
    /\ Become(w, Idle)
    /\ UNCHANGED turns

\* get_context: the session row, the turns, the answer on its way.
ContextReadsSession(w) ==
    /\ At(w, "idle")
    /\ turns # <<>>
    /\ \E budget \in ContextBudgets :
          Become(w, [Idle EXCEPT !.pc = "context_rows", !.session = summary, !.budget = budget])
    /\ UnchangedRows

ContextReadsRows(w) ==
    /\ At(w, "context_rows")
    /\ LET remaining == Remaining(workers[w].budget, workers[w].session.tokens)
       IN Become(w, [workers[w] EXCEPT !.pc = "answer", !.rows = Recent(remaining)])
    /\ UnchangedRows

ContextAnswers(w) ==
    /\ At(w, "answer")
    /\ Become(w, Idle)
    /\ UnchangedRows

\* The worker's coroutine raises or is cancelled at an await.
Fails(w) == /\ ~At(w, "idle")
            /\ Become(w, Idle)
            /\ UnchangedRows

WorkerStep(w) ==
    \/ AppendTurn(w) \/ NeedsReadsSession(w) \/ NeedsReadsRows(w)
    \/ SummarizeSession(w) \/ FoldReadsSession(w) \/ FoldReadsRows(w) \/ FoldCommits(w)
    \/ ContextReadsSession(w) \/ ContextReadsRows(w) \/ ContextAnswers(w)
    \/ Fails(w)

Next == \E w \in Workers : WorkerStep(w)

Spec == Init /\ [][Next]_vars

-----------------------------------------------------------------------------
(* No turn goes into the summary twice, however appends, summarizations and *)
(* their retries overlap: the session row is read before the turns, and     *)
(* folded_at is set in the transaction that writes the summary.  ("Prevents *)
(* double-summarization.")                                                  *)
SummaryOnce == \A i \in Ids : summary.content[i] <= 1

(* History is folded oldest first and without gaps, also by a summarizer    *)
(* whose reads are stale when it commits.                                   *)
FoldedIsPrefix == \A i \in folded : 1 .. i \subseteq folded

(* The most recent turns stay verbatim: summarize_session never folds one   *)
(* of the last recent_turns_to_keep turns of the session.                   *)
RecentStayVerbatim == \A i \in folded : i + RecentTurnsToKeep <= Len(turns)

(* An answer of get_context shows no turn both verbatim and in the summary, *)
(* whatever is committed between its two reads.                             *)
ContextDisjoint == \A w \in Workers : At(w, "answer") =>
                     \A i \in workers[w].rows : workers[w].session.content[i] = 0
=============================================================================
