# TLA+ specification of Repo-Agent

Repo-Agent answers questions about a Python repository. A FastAPI gateway talks
to an orchestrator agent, which plans a request and calls four more MCP agents
(indexer, graph query, code analyst, memory). Knowledge lives in a Neo4j graph
the indexer writes; conversations live in SQLite. Everything is asyncio: one
event loop per process, HTTP between the processes.

This directory holds TLA+ models of the parts in which those interleavings
matter and of the pure parts that decide what an answer says, the configurations that model-check them with TLC, and TLAPS proofs.
Paths below are relative to `core/src/core/` unless they start with `agents/`,
`gateway/` or `docs/`.

## 1. Inventory

| Component | State it keeps | Operations | What is hard, and what makes it correct |
|---|---|---|---|
| Circuit breaker (`resilience/circuit_breaker.py`) | state, failure count, time of the last trip | guard, record_success, record_failure, run, snapshot | Calls admitted before a trip end after it. State and counter must agree; failing fast must end. |
| MCP session pool (`resilience/session_pool.py`, `resilience/retry.py`) | per agent: idle sessions, live sessions, slot count; per call: sessions in flight | acquire, release, drop, discard_nowait, purge_idle, aclose, call | Abandoned attempts run on next to their retries. No session in two hands, slots neither lost nor created, every call answers. |
| Conversation memory (`memory/service.py`) | sessions (rolling summary), turns (folded or not), cached responses | append_turn, get_context, summarize_session, cache_get, cache_put | The summarizer's LLM call lies between the read and the write. Nothing summarized twice or lost, history folded oldest first. |
| Index jobs (`gateway/app.py`, `agents/indexer`) | job records, the dispatch task; the indexer's lock and last report | start a job, follow it, dispatch, status poll | Transport timeouts, lost calls, a second job, an indexer that restarts. A job reports its own pass, and ends. |
| Indexing pass (`indexing/indexer.py`, `parser.py`, `cloner.py`) | content hashes, index version, embedding fingerprint | walk, diff, purge, upsert, embed | Many transactions and crashes between them. The graph reflects the tree; nothing in it is out of the next pass's reach. |
| Graph client (`graph/client.py`, `upserts.py`) | Neo4j nodes and edges | run_write_batch, run_read, upserts | A batch is split into several transactions. |
| Orchestrator request (`orchestration/service.py`, `loop.py`, `budget.py`) | the request's budget, ledger, trace | handle_query, run_refinement_loop, check | Checks before calls, exhaustion during them; degraded answers; cache key. What is cached answers the same question; turns are stored in order. |
| Plan executor (`orchestration/executor.py`) | results, coordinate event | graph, code and index tasks of a plan | Tasks that wait on each other under a common budget. It never raises. |
| Synthesis (`orchestration/synthesis.py`, `fallback.py`, `prompt_budget.py`) | tokens streamed so far | synthesize, truncate | A stream that breaks half way; cutting that must end below the budget. |
| Intent router (`orchestration/router.py`) | none | rule_based_route, analyze_query, resolve_entities | Five ways to an intent, two of them fallbacks. Each keeps what a follow-up question refers to. |
| Gateway chat (`gateway.py`, `gateway/app.py`) | event queue of a stream, rate-limit windows | run, stream, allow | Events of several tasks through one queue. The final event is last. |
| Token ledger (`observability/ledger.py`) | calls and tokens per request | open, record, close | Read by the budget. |
| Parsing and linking (`indexing/parser.py`, name resolution of `indexer.py`) | none | parse_file, `_resolve_name`, `_follow_reexports` | Aliases, relative imports, re-exports, packages. The edges are those Python means. |
| Graph querying (`querying/service.py`, `templates.py`) | none | find_entity, get_dependencies, get_dependents, trace_imports, find_related, get_docstring, get_statistics | Limits per branch, merges after them, totals of other queries. What is not marked as truncated is complete. |
| Code analysis (`analysis/service.py`) | none | analyze, explain, compare, find_patterns, get_code_snippet | Two sources (graph and disk) and a model that may fail or answer less than asked. |
| LLM providers (`llm/`) | connections | complete, stream, complete_with_schema_retry | Which provider serves a purpose; bounded attempts. |
| MCP transport (`mcp/`) | connections, contexts | open a session, call, report progress | I/O. |
| Evaluation harness, settings, logging | none at run time | | Not part of the running system. |

How they interact. The gateway calls the orchestrator, and the orchestrator the
other agents, through an `AgentSessionPool`; every pool call passes the callee's
`CircuitBreaker` and then `await_with_timeout_retry`. The orchestrator reads
memory with `get_context` and writes it with `append_turn` and `cache_response`.
The gateway starts index passes through the indexer's `index_repository` tool
and follows them with `get_index_status`. The health endpoint puts a timer of
its own around pool calls, and reading a breaker's snapshot may half-open it.

`PROJECT.json` lists the hazards of this code line by line, with the properties
that cover them or the reason why none does yet.

## 2. Plan

| # | Module | What it models | State |
|---|---|---|---|
| 1 | `CircuitBreaker` | the breaker; also the abstract specification the pool is checked against | done, proved |
| 2 | `SessionPool` | the pool, its retries and abandoned tasks, over `CircuitBreaker` | done, proved |
| 3 | `MemorySession` | turns, folding and context of a session | done, proved |
| 4 | `IndexJob` | the gateway's job and follower with the indexer's lock and report | done, proved |
| 5 | `Indexer` | full, incremental and single-file passes with their transactions, cut short anywhere | done, proved |
| 6 | `QueryExecution` | one question from its plan to its answer: refinement rounds, specialists, evidence, synthesis, budget | done, proved |
| 7 | `AnswerCache`, `ResponseCache` | what the response cache promises, and its table statement by statement, as a refinement | done, the refinement proved for `ChatTurn` |
| 8 | `RateLimiter`, `ChatTurn` | the limiter; chats from the gateway to the answer, composing limiter, event stream, handle_query, ledger, turns and `ResponseCache` | done, proved |
| 9 | `PythonFile`, `CodeGraph`, `GraphQuery`, `CodeAnalysis`, `CodeSearch`, `PythonNames` | parsing, linking, querying and analysing a repository, each on top of the one before; what its names mean in Python | done, proved but for `PythonNames` |
| 10 | `Routing`, `PromptBudget`, `LanguageModel`, `ModelTurn` | routing, the cutting of prompts and the choice of providers, composed to what one question asks of models | done, proved |

What a further step would add: chats of two gateways over one orchestrator, and the
graph query's read-only check of Cypher text.

## 3. The modules

### CircuitBreaker

State: `state`, `failures`, `elapsed` (time since `_opened_at`), and `running`,
the calls between entering and leaving `CircuitBreaker.run`. Actions: `Admit`
(the guard), `Succeed`, `Fail`, `Escape` (an exception that is not counted, or
cancellation of the caller), `Snapshot`, `Tick`. The counter and the clock stop
at the threshold and at the cooldown, the only values the code compares them
with. The threshold is at least 1 and the cooldown at least 0, as `__init__`
clamps them; this is all `BreakerAssumption` says.

### SessionPool

`SessionPool` EXTENDS `CircuitBreaker` and adds one agent's bucket (`idle`,
`live`, `size`), the frame of each call (`calls`: where it awaits, which
attempt, the sessions `in_flight`), the asyncio tasks of its attempts
(`attempts`), sessions whose detached drop is still to run (`discards`), and
whether the pool is closed. A step runs from one await to the next; a critical
section under `_cond` has no await inside and is one step.

| Code | Actions |
|---|---|
| `_AgentSessionBucket.acquire` | `TakeIdle`, `ReserveSlot`, `Wait`, `Exhausted`, `OpenSucceeds`, `OpenSucceedsClosed`, `OpenFails`, `AcquireClosed` |
| `_call_with_session` after acquire | `ToolReturns`, `ToolReturnsClosed`, `ReleaseCloses`, `ToolRaises`, `DropCloses` (with purge and the one retry) |
| `_abandon`, cancel scopes | `TimerExpires`, `Cancelled`, `GraceEnds` |
| `AgentSessionPool.call`, `await_with_timeout_retry` | `CallTool`, `NextAttempt`, `RaiseUnavailable`, `LeaveCall`, `ReadResult`, `CallerCancelled` |
| `discard_nowait`, `aclose` | `DiscardRuns`, `ClosePool` |

An attempt that swallows its cancellation is one for which `Cancelled` is not
taken: it goes on and its call does not wait for it. `CallerCancelled` is
possible for the calls in `OuterTimed`, those of the gateway's health probe.

`drifted` is a history variable. It becomes TRUE at the four events that break
the slot accounting in the code: an opener cancelled with its slot reserved, a
session dropped that is no longer live, a session released that is no longer
live, and a session whose attempt is cancelled after its call has ended. No
guard reads it.

### MemorySession

One session row (`summary`, a bag of turns, and its token count) and its turns
(`folded` or not). Each worker is one MCP tool call: `append_turn` (insert and
commit, then `_needs_summary`, then perhaps `summarize_session`), `get_context`,
or `summarize_session` on its own. Every SQL statement is a step, since each
`await` lets other calls in, and the LLM call lies between `FoldReadsRows` and
`FoldCommits`. A worker keeps what it read. `Fails` is an exception of the LLM.
Turn text is abstracted to the identity of the turn and its token count; the
summary is represented by how often each turn went into it.

### IndexJob

Per job: the gateway's record and follower (`jobs`), its dispatch task
(`dispatch`), the pass in the indexer (`pass`); for the indexer: `lastReport`
in memory and `saved` on disk. `StartJob` is the start of `_run_index_job`, which
asks for the baseline; `Dispatch` takes the baseline, or goes on without one, and
sends the dispatch. `Poll`, `StatusArrives` and `StatusFails` are the loop of
`_follow_index_job`, `GracePasses` and `DeadlinePasses` its two timers, and
`DispatchFails` is the transport giving up on the dispatch.
`IndexRepository`, `PassSaves`, `PassReturns` are the indexer's tool with its
lock; `Restart` is a crash of the indexer. `past` and `faulty` are history
variables: the passes that were over when the job started, and whether a job has
gone on without a baseline or the indexer has restarted.

### Indexer

The checkout (`tree`), the graph (`fileHash`, `modules`, `members`, `edges`,
`vectors`), the two `:Meta` values, and the pass in progress: its statement
(`pc`), the rows of it not written yet (`todo`), the files it writes (`parsed`,
the code's `to_upsert`), and those of them it deletes first (`changed`).

| Code | Actions |
|---|---|
| `index_repository` up to its first write, `index_file` | `IndexRepository`, `IndexFile` |
| `purge_stale_files`, `delete_file_subtree` | `Purge`, `Delete` |
| `_upsert_parsed_files`, one statement after another | `UpsertFile`, `UpsertModule`, `UpsertMembers`, `UpsertEdge`, `NextStatement` |
| `_write_embeddings` | `UpsertEmbedding`, `EmbeddingFails`, `RecordFingerprint` |
| `_update_index_version` and the report | `UpdateIndexVersion`, `Return` |
| an exception or a crash | `CutShort` |
| `clone_repo`, a restart with another `EMBEDDING_BACKEND` | `Edit`, `SwitchBackend` |

A row is a step, which allows every split that `run_write_batch` makes of a
statement, and more. What a file holds is its version, and its entities are
written in one step although the code uses a statement for each kind: a pass cut
short among them leaves what one cut short before the step leaves, something
missing under a hash that says nothing is. The same holds for the kinds of edges.
The tree stays as it is during a pass, since git runs before it under the same
lock; two passes at once are excluded by that lock, which `IndexJob` models.
Parsing and name resolution are the constant `Refers`: which files a version of
a file refers to. `cut` is a history variable, the files that a pass cut short
was writing and that no pass has written since.

### QueryExecution

One question after routing: the plan and its rounds (`plan`, `rounds`, `pc`), the
budget (`left`, `reserve`, `exhausted`, `spent`, `cutoff`), the specialists' tasks
with the calls each has pending (`task`), what they share (`ready`, the code's
`graph_coords_ready`, and `candidates`), the merged outputs (`combined`) and the
answer. `planLeft` is a history variable.

| Code | Actions |
|---|---|
| `handle_query` up to the plan | `Route` |
| `run_refinement_loop`, `refine_plan`, `merge_agent_outputs`, `apply_prompt_reserve` | `FirstRound`, `NextRound`, `StopRounds`, `EndRound` |
| `_run_graph` | `GraphSkips`, `GraphFinds`, `GraphHasCoordinates`, `GraphHasRelationships` |
| `_run_code_maybe_wait`, `_run_code` | `CodeHasNothing`, `CodeSkips`, `CodeAnalyzes`, `CodeReturns` |
| `_run_index` | `IndexStarts`, `IndexReturns` |
| `_call`, `await_with_timeout_retry`, `_abandon` | `CallAnswers`, `CallFails`, `TimeUp` |
| `synthesize_response`, `_missing_entity_answer`, `synthesis_timeout_s` | `Refuse`, `Synthesize`, `Chunk`, `SynthesisEnds` |
| `remaining_s` | `Tick` |

`left` counts down to the request deadline. Code between two awaits takes no
time: `Tick` is possible only while everything waits for an answer or a timer. A
call that is pending may answer, fail, or hang until its timer; a hanging call
is cancelled (`TimeUp`) and given up at most `CancelGrace` later, which the code
calls the cancel grace of `_abandon`. The calls of a gather are issued in one
step with one timer, since they start at the same instant with the same limit.

What is abstracted: find_entity finds the entity it names or nothing, an
analyst's answer is usable or not, tokens count the calls that report usage, and
the cost ceiling, read from the same ledger in the same place, is not told from
the token ceiling. Which broader terms the wording of the question yields, which
relationships it asks for, and whether hits are incidental, are nondeterministic
within the limits the code sets. A failed gather of find_entity calls leaves the
other calls behind; they have no effect on the request and are dropped.

### AnswerCache and ResponseCache

`AnswerCache` is what callers of the response cache rely on: a lookup returns the
last answer stored for its key, or nothing. `ResponseCache` is the table of
`memory/service.py`, whose lookup reads a row, compares its age, and deletes an
expired one by key in a later statement, while another call may have refreshed it
in between. `Abstract` is the refinement mapping: the rows without their age. A
late delete is a `Forget` of the abstract cache, which is why the race is harmless.

### RateLimiter and ChatTurn

`RateLimiter` is `SlidingWindowRateLimiter`. `ChatTurn` takes chats from the
gateway to the answer, with instances of `RateLimiter` and `ResponseCache` on its
own variables.

| Code | Actions |
|---|---|
| `rate_limit_middleware`, `chat`, `chat_ws` | `Arrive`, `Leave` |
| `AgentSessionPool._call_with_session`, the gateway's MCP client | `SessionBreaks`, `CallFails`, `Returns`, `CallRaises` |
| `ChatGatewayService.stream` and what it emits at the end | `Emit`, `Rest`, `Finish` |
| `handle_query` | `GetContext`, `LookedUp`, `Retrieve`, `StreamToken`, `Synthesize`, `AppendTurn`, `Stored`, `Die` |
| statements of the cache, an append that a timed-out call left behind | `CacheServes`, `Land` |
| a completed index pass, the clock | `Reindex`, `Tick` |

An attempt `<<chat, n>>` is one run of handle_query: the pool repeats a call that
fails on a reused session, and the first run goes on unheard. A correlation id is the
client's to choose, so requests may share a ledger entry; `shared` is a
history variable that says so. `own`, `length`, `late`, `graph` and `kind` are
history variables too. `faults` counts failures, `graph` the index passes.

The answer that handle_query returns need not be the tokens it has streamed: when it is
complete, the prefix of an incomplete retrieval, sources and paths may be added. An
attempt has two flags for this, `incomplete` (a specialist failed) and `sourced`;
`Edited` says that the two differ, `Emitted` is what was streamed, `Returned` what was
returned. What is cached and remembered is the latter.

### PythonFile, CodeGraph, GraphQuery, CodeAnalysis, CodeSearch and PythonNames

These are operators, each module over the one before: `PythonFile` reads imports,
definitions and calls from a file's statements (one sequence for all depths, each with
the position of the statement it is in, so that no operator has to be RECURSIVE), `CodeGraph` links the files to nodes
and relationships as a full pass stores them, `GraphQuery` holds the queries with
their limits and flags, `CodeAnalysis` the analyst. A query whose order has ties has
several results; its operator yields the set of them; so does one that asks a model, which
may answer validly, not validly, or not at all (`Complete`, `FindPatterns`). A name imported
under several is looked up among the importers of the `LocalPackage` first. `CodeSearch` puts them
together: a repository is indexed, or not yet, and one question is asked.
`PythonNames` is a second account of the same files, written from
Python's rules and not from the code (`Binders`, `Denotes`, `Meant`); its property
`DependentsAreCallers` compares the two.

### Routing, PromptBudget, LanguageModel and ModelTurn

`Routing` has the router's rules, fallbacks and entity resolution; a question is what
the router's expressions find in it. `PromptBudget` is `apply_prompt_budget` with
characters as costs, since a newline takes two in JSON. `LanguageModel` says which
provider serves a purpose under which settings and how often it is asked. `ModelTurn`
runs one question through them: `RouteByRules` or `RoutingAttempt`, `RunPlan` or
`RoutingError`, `Trim` once per round, and the synthesis.

## 4. The runs

| Run | Question | Answer |
|---|---|---|
| `pool_accounting` | With two calls (one retried, one under a timer of its caller's), two slots and a shutdown: do counter, live list and sessions in use agree while nothing has broken the accounting? Is a session ever closed under its user? Is the breaker used as `CircuitBreaker` says? | yes, no, yes |
| `pool_live` | One slot, two calls, tools that may hang for ever: is a session ever shared, also after the accounting broke? Does every call answer? Does fail-fast end? | no, yes, yes |
| `memory` | Two tool calls overlap on a session of five turns: nothing summarized twice, oldest first, recent turns kept, context shows nothing twice? | yes |
| `index_job` | Two jobs, lost, late and refused calls: can a finished job report a pass that was over before it started? | no, given a baseline and an indexer that stays up |
| `index_job_live` | Does a job end whose indexer crashes, hangs or never answers? | yes |
| `indexer` | Two files that refer to each other, any passes, cut short anywhere, edits in between: is what the graph has of a file always found again, is no edge stale, and what does a completed pass guarantee? | `OwnedByFile`, `NoStaleEdges`; a full pass repairs everything, an incremental one all nodes but those of files cut short |
| `query_execution` | Six kinds of plan, two rounds, calls that answer, fail or hang: does the synthesis keep its time, is the answer there before the deadline, does the analyst work on this round's coordinates, does a later round keep what an earlier one found, is every question answered? | yes, to all |
| `chat` | Two overlapping runs of handle_query in one session, of two chats or of one that is repeated: does a client that stays read exactly the answer, in order, or the tokens of an answer that was edited after them? Is a cached answer one to the same question about the same entities? Are the tokens reported its own? Are turns stored in order? Does the limiter count exactly, and is the cache table a cache? | yes, to all, with the conditions stated in the properties |
| `chat_stale` | Does an index pass invalidate the answers cached before it? | no, see finding 1 |
| `code_search` | Every question, of every small repository: are the dependents of a function the functions that call it? Are neighbours, hits and patterns that are not marked as truncated complete? | yes; patterns while the model's provider answers |
| `model_turn` | Every question in every conversation: does the plan serve it, whichever way it was routed? By how much may a prompt exceed its budget? | yes; by the mark of the omission |
| `prompt_overrun` | Is the prompt cut until it fits? | no, see finding 2 |

### Bounds, and why they are enough

* Pool: two calls are the least that compete; one slot makes them wait, two let
  the purge and the second session meet. One call has one retry, so an abandoned
  attempt runs beside the next attempt of its own call and beside the other
  call. `Cooldown` is 0 where the clock is not in question and 1 where it is;
  thresholds 1 and 2 reach the trip directly and by counting.
  `pool_accounting` has the constraint `NotDrifted`: `SlotAccounting` and
  `NotClosedInUse` say something only before the first accounting fault, and
  states after it are not expanded. The theorems and `pool_live`, which has no
  constraint, cover the states behind it. Sessions are interchangeable; a
  symmetry set is used in the safety run only.
* Memory: `MaxTurns = 5` with two turns kept leaves three to fold, in one or in
  two folds; two workers are enough for two different stale views. The token
  budget 4 with turns of 1 or 2 tokens, and a summary of 0 or 3, takes both
  branches of `_needs_summary`; the context budgets take both ways through
  `get_context`.
* Index jobs: two jobs make one of them meet the lock or the other's report;
  `MaxRestarts` bounds crashes. Counting polls that fail stops at the code's own
  limit of two. `index_job` has the constraint `NotFaulty`, the condition of
  `FreshReport`; it has no restarts for the same reason.
* Indexing: two files, since an edge relates two and a statement has a first and
  a last row; two versions that parse, besides absent and broken, so that a file
  can change and change back, and each refers to the other file in one version
  only. Two backends are switched at will. There is no bound on the number of
  passes, edits or crashes: the state space is finite as it is.
* Query execution: six plans, one for each shape the executor tells apart (a
  lookup with and without the analyst, relationships, a comparison, a pattern, an
  index request; refinement turns lookups into mixed plans); a pattern plan with
  `graph_query` is one the LLM router may return. Two terms, one of them a
  class, so that hits can be partial and the candidate cap of later rounds (1)
  bites where that of the first (2) does not; two rounds, the default of
  `max_plan_iterations`. The deadlines 7, 3, 4 and 2 stand in the order the
  settings require of request deadline, plan deadline, synthesis reserve and
  margin; agent timeouts 1, 2 and 3 expire before, at and after the plan's end; the
  reserve is 4 or 5 because a long prompt raises it; a token budget of 2 is reached
  in routing, between rounds or within one.
* Chats: one chat is over when the clock starts (`Before`), its answer cached; of
  the two others one can be repeated by the pool (`Reused`). The three ask two
  different questions, one of which names what the other's pronoun then stands
  for, so that the words of a key can agree while its entities differ. One client and
  one correlation id are shared by all, the hard case for limiter and ledger. The
  constraint `TwoAttempts` keeps at most two runs of handle_query beside each other,
  one failure, index pass or answer with sources, and fewer ticks the more runs there are; time-to-live,
  window and limit are 1, so the two ticks left pass each boundary. One token, one round and
  one LLM call per request; `Retries` 1 gives an abandoned append and its retry.
* Code search: a package of three files. All 720 combinations of four package
  files, three modules, ten kinds of import and six bodies, chosen so that each
  way of the resolver is taken (own scope, nested function, self, alias, module
  attribute, re-export, re-export from a sibling that has none), and three with a file that
  does not parse. Limits of 1 and 2 are reached by them. `MaxHops` 4 is more than the
  longest chain; cycles end by it.
* Model turn: every combination of cues that the rules tell apart, with and without names
  and pronouns; contexts with turns, with a summary only, and empty. A character costs one or
  two, four of them make two tokens, and the mark costs three; budgets 0 to 8 go from "no
  limit" over "cannot be reached" to "fits". The constraint `OnePrompt` cuts the
  prompt of one question only, since the cutting does not look at the question.
  `MaxTrimRounds` is 8 for the code's 64: more than the places there are to cut (`SmallFewCuts`).
* `CHECK_DEADLOCK FALSE` stands where the system may stop: a closed pool takes
  no call, every job ends, and a question that is answered is over.

### Fairness

* Pool: the steps of a caller (`CallStep`: its timer, the grace period, reading
  a result), the loop's own callbacks and the clock are weakly fair, because
  asyncio runs a ready callback and a timer that is due. Steps of an attempt are
  not fair: a tool may never answer. Nobody is obliged to make a call.
* Index jobs: the follower's steps and the job deadline are weakly fair (a poll
  is answered or times out at the pool). Dispatches, passes and the grace timer
  are not: a dispatch may be lost and a pass may hang.

* Query execution: weak fairness of `Next` as a whole, the event loop's promise to
  run what is ready and to fire timers. Nothing is assumed of a specialist or the
  LLM: `QuestionAnswered` rests on timers alone.
* The other modules state no liveness. A chat ends because the pool's calls do
  (`CallsAnswer`) and because handle_query does (`QuestionAnswered`).

## 5. Proofs

All for every value of the constants that satisfies the modules' assumptions.

* `SessionPoolProofs`, first on the breaker alone: `BreakerTyped` and
  `BreakerTrippedIffAtThreshold`, from `BreakerInv`, their conjunction. Type correctness is
  needed because the counter stops at the threshold. Then `PoolImplementsBreaker` shows that each step of the pool
  is a breaker step or leaves the breaker alone, so `PoolTrippedIffAtThreshold`
  follows from the breaker's invariant. `PoolTyped` includes that the slot counter
  stays in `0 .. MaxSize` even when the accounting is broken.
  `PoolSessionExclusive` needs a stronger invariant than itself: `PoolInv` says
  that an attempt which has a session really names one (`HoldsSession`), that no
  two attempts name the same one (`OneHolder`), and that a session named is not
  idle (`NotIdle`). A new session is picked outside `Referenced`, which is
  where `OneHolder` is preserved; a release is where `NotIdle` is.
  `PoolSlotAccounting` and `PoolNotClosedInUse` follow from `SlotInv`. Its first half holds in
  every state: an attempt that closes its session, or whose bucket is gone, holds one
  that is not live any more (`OutOfLive`, `Closing`), and what a call has in flight
  is neither idle nor in another call's hands (`InFlightOwn`, `Frames`). The second
  half holds while nothing has drifted: the counter counts (`Counted`), each live session
  is idle, used by an attempt, held by a call or waiting for its detached drop, and neither
  an idle session nor one whose caller waits has a drop pending (`Kept`).
* `MemorySessionProofs`: the five safety invariants of `memory`. None is
  inductive, since a commit writes what a worker read long before. `MemoryInv`
  adds what stays true of stale values. A summary, the stored one and each one a
  worker has read, contains a turn at most once and only turns that are folded
  now (`Covered`, `Reading`); the rows a worker chose share no turn with the
  summary it read (`Disjoint`); and the rows a summarizer chose leave the recent
  turns alone and, with what is folded now, leave no gap (`Chosen`).

* `IndexJobProofs`: type correctness and `FreshReport`, the safety of the index
  jobs. A job decides from a status read before and a baseline read before that, in
  steps between which other jobs' passes begin and end. What keeps these readings
  useful while the indexer stays up is that a pass which was over when a job started
  never publishes a report again (`Passes`). So a report that is old for a job can
  only be the one the job has as its baseline, in memory or on disk (`Compared`), and
  a lock that was seen held is still held or has been released by a pass that is new
  for the job (`Seen`). There is a lemma per action; the job's own steps share
  `FollowInv`. The assumption used is that reports, jobs and markers are distinct.

* `IndexerProofs`: the five invariants of `indexer`. `OwnedByFile` and
  `NoStaleEdges` hold in every state, but only because of what the statements of
  a pass have done so far, and what a completed pass guarantees says nothing of
  the states before. `IndexerInv` therefore follows a pass: what it planned
  (`Planned`), which rows can be left (`Rows`, `Purged`), what each statement has
  done to each file (`Stages`), that an edge to be written is in the graph or
  among the rows (`EdgesWritten`), that the index version written is that of the
  hashes (`Versioned`), and that outside `cut` a hash tells what the graph holds
  (`Whole`), which is why an incremental pass may skip a file. There is a lemma
  per action, with a step per part of the invariant. No assumption on the
  constants is used but `IndexerAssumption`: distinct markers, and references
  that stay among the files.

* `QueryExecutionProofs`: the safety properties of `query_execution` and its type
  invariant. Both properties of the clock concern states in which no call is
  pending and say nothing of the calls before, so `IInv` follows the timers
  (`Timing`): a pending call's timer has not been passed, leaves the reserve (or, for
  the synthesis, the margin), less one grace period once it is cancelled, and what
  is left is at least what the reserve or the margin guarantees. `Asking` says what
  each agent's calls are about and is what type correctness of `candidates` and of
  the evidence needs. There is a lemma per action; `AgentStepKeeps` is shared
  by those that change one agent's task. The part of `QueryAssumption` that carries
  the argument is that margin and grace together are less than the reserve; the
  settings refuse a reserve that does not exceed the margin by the measured
  synthesis time, many times the grace of 0.25 s. `QueryCeilingStopsCalls` is an
  action property: each action that issues a call tests `AllowNewCall`, and the
  others only remove calls. `QueryAnalystUsesCoordinates` needs `Coordinated`: `ready`
  is set only when the graph's task is past its search, and the candidates stay
  what they were when the analyst took them. `QueryEvidenceKept` is an action property
  about the merge of a round into those before it, and the merge alone does not keep
  it: a single tool's result is overwritten if the tool is run again, and the evidence
  of a failed output is dropped. `Kept` says why neither loses anything: a failed
  output is empty (`Working`, from the issue of the calls to the end of the task), and a
  round that runs tries no analyst tool again that has found something (`Merged`,
  established where `refine_plan` leaves those out). It uses `EvidenceApart`: what the
  graph finds and what the analyst's tools return are fields of their own in a
  payload, hence no term is a tool.

* `ChatTurnProofs`: type correctness, `CachedForSameQuestion`, `TokensOwn` and the
  refinement `CacheRefined`. What the cache holds was written long before it is
  served, by an attempt that may be dead by then; so `ChatInv` says of every row, of
  every store under way and of every reply that it was written by an attempt whose
  question has that key and whose answer is complete (`Traced`). This stays true
  because an attempt that has its answer changes no more in anything a key or an
  answer depends on (`Frozen`); `Stage` says what is true of an attempt up to there, as
  that its lookup is about its own key. For `TokensOwn`, two attempts of one
  correlation id that account at the same time are both marked as shared, and the
  ledger entry of one that is not equals what it has recorded (`Counted`). For the
  refinement, a statement of the table that is carried out for an attempt is a
  lookup, a lookup that forgets, or a store, of the key that was fixed when it
  began, and every other step leaves rows and replies alone.

  Three more theorems have an invariant each, on top of `ChatInv`. `ExchangeInOrder`
  (`Appended`): a turn is in the memory, or on its way there, at most as often as
  its calls have been made (`NotOften`), and an attempt that is past its user's turn has
  stored it at least once (`UserFirst`); an append given up before it landed counts
  as on its way. `LimitExact` (`Limited`): from the oldest time that still
  counts on, a client's bucket holds one time for each request admitted later
  (`HitsCount`), which survives the dropping of old times, and a bucket never exceeds the
  limit, so a refused request finds its window exactly full. `ClientSeesAnswer`
  (`Streamed`): while an attempt is heard, the stream is its rounds, the specialists'
  result and the tokens it has sent (`Exact`); after a death, a failure or a departure it is
  a beginning of that (`Part`); and since an attempt that was not abandoned sends no token
  after it has counted them (`Lengths`), the end of `stream()` finds all of the answer
  there or nothing (`Over`). What it finds there is an expression over the attempt's flags, so
  its lemmas speak of `Sees`, which is `SeesAnswer` for one result and stream (`SeesIs`). There is a lemma per
  action. The assumptions used are those on the constants, and that the marker
  `Nothing` is neither an attempt nor a number.

* `ModelTurnProofs`: `PlanServesQuestion` and `OverrunBounded`. For the first: the plan is computed in one step, so the
  invariant is the property with the types of question and conversation (`Served`), and the
  argument is about operators: each way to an intent yields a typed one, with the indexer
  where the rules decide (`FromRules`, `FromFallback`, `FromModel`); resolving names keeps
  those of the earlier turns (`ResolveKeeps`), normalising keeps the agents and adds those
  grounding needs (`NormalizedKeeps`). These rest on what recursive
  functions compute: `Dedupe` loses and adds nothing (`DedupeKeeps`). A recursive function
  is a CHOOSE, so first there has to be one (`Iteration`, for any step), and what is true of
  each of its values follows by induction on a set of indices (`UpTo`, from the library's
  minimal elements, because an induction theorem over a predicate cannot be cited).
  `TurnAssumption` gives the types of questions, conversations and models' answers.

  `ModelTurnOverrun` needs that the rounds suffice: `RoundsUsed` says that a prompt is close
  to its budget (`Close`), or each round so far has used up one of the places there were to
  cut. A cut that leaves something of a text makes the prompt close (`SnippetCut`: it takes
  as many characters as the excess has, each costs at least one, and the suffix is
  added); every other round takes a text or half of a list for good and adds
  nothing (`ListHalved`). The theorem's hypothesis is `FewCuts`, for any rank of the lengths of lists
  that halving lowers. The code does not test for it, it relies on 64 rounds being enough;
  where they are not, they may end before much is cut. `SmallFewCuts` has TLC
  evaluate the hypothesis on the instance. The lemmas about sums (`TotalJoin`, `TotalUpdate`, `TotalCut`) and
  weights of sequences carry the rest.

* `CodeSearchProofs`: `SearchNeighborsComplete`, `SearchFoundComplete`,
  `SearchPatternsComplete` and `SearchDependentsResolved`, for every repository of finitely
  many files (`RepositoriesAssumption`; each body is a sequence of statements). The
  invariant is short, since one question is asked at a time: the graph is empty or that of the
  repository, and the answer is one that the service may give on it (`SearchInv`). The work is in
  the operators. Counting needs finite sets, so first the graph of a repository is
  finite: what is parsed is (`ParsedFinite`), hence the nodes are (`NodesFinite`), and
  each of the eight kinds of edges links nodes (`EdgesLink`, `LinksFinite`).
  A page that is not full is the whole (`PageIs`). For neighbours: each branch shows at most as many
  rows as it keeps matches, and keeps at most as many as there are (`BranchIs`), so if the rows
  are as many as the counting query says, no branch was cut and no two rows
  were alike. For names: `AddsUp` says that hits which were not cut are those of both
  lookups, and induction over the concept's names takes it to the end (`LookupsAdd`; first there has to
  be a function with `retrieve`'s recursion, by `Iteration`). For patterns: the
  edges of a type are written by one statement only (`EdgesOfType`), nodes of classes and
  functions are those of definitions (`DefinitionNodes`), one per name where names
  are defined once (`NamedIsOne`), so a pattern's rows are the definitions that have it in the
  files. The property excepts the one answer without rows, that of a failed provider. The proof found a condition the instance could not show, as no name is defined in two of
  its files: decorators are attached by qualified name, in whatever file, so
  `DefinedOnce` has to hold across files. `SearchDependentsResolved` is the
  part of `DependentsAreCallers` that is about storing and asking: the callers shown
  are those of the calls that `_resolve_name` resolved to the name
  (`CallEdges`; what it yields is indexed, `ResolvedIsIndexed`, so no call is lost for
  want of a node).

Only model-checked:

* the liveness properties `CallsAnswer`, `FailFastEnds`, `JobEnds` and `QuestionAnswered`,
  since the prover has no ENABLED;
* `DependentsAreCallers`: its reference `Denotes` is a RECURSIVE operator over the imports
  of a repository, and that resolution computes the same for every chain of imports is an
  induction over data. What is proved of it is `SearchDependentsResolved`: only the
  comparison of `_resolve_name` with Python's rules rests on the instance.

## 6. Findings

1. `chat_stale`: the cache key holds the index version that handle_query reads with
   `getattr(stats, "index_version", None)`. Over MCP the statistics are a dict, so
   it is always `None`, and answers made from the old graph are served after a
   re-index until they expire (`orchestration/service.py:429`).
   `docs/design-decisions.md:51` promises that re-indexing invalidates them.
2. `prompt_overrun`: a cut keeps as many characters as fit and then appends the mark of the
   omission, which it did not count. Close to the budget a round takes away no more than it
   adds; after 64 rounds the prompt is sent up to four tokens over its budget
   (`orchestration/prompt_budget.py:332`).

Known deviations. These follow from the models too, and the properties are stated
around them; no run is spent on them.

* `acquire` gives a reserved slot back under `except Exception` only; an opener
  cancelled by its attempt's timer loses it (`resilience/session_pool.py:138`; the comment
  at line 326 promises otherwise). And `drop` decrements the slot counter whether or not the
  session is still live, after which one session more than `max_size` can be opened
  (line 187). Both are events `drifted` records.
* Overlapping summarizations write the summary unconditionally; the later commit erases
  what the earlier one folded (`memory/service.py:214`).
* A follower without a baseline takes the report of an older pass for its own
  (`gateway/app.py:666`), the first of the events `faulty` records.
* The content hash of a file is written before its entities and edges; after a crash in
  between, incremental passes skip the file (`indexing/indexer.py:307`). `cut` records it.
* The embedding fingerprint is replaced once one vector was written, while unchanged
  files keep the vectors of the old backend (`indexing/indexer.py:948`).
* `_analyst_evidence` does not look at `patterns`: what find_patterns found beside a failed
  graph query is answered with "no evidence" (`orchestration/synthesis.py:88`).
* An answer is edited when its tokens have gone out: the prefix of an incomplete retrieval
  (`orchestration/synthesis.py:661`, for a partial answer line 751), the Sources footer and
  paths made of module names (`_with_grounded_sources`, line 437). `gateway.py:507` emits the
  returned answer only if nothing was streamed, so a client of the stream gets none of them,
  though `docs/design-decisions.md:53` promises the prefix; they are cached and remembered.
  An answer of evidence that replaces blank tokens is lost to it in the same way. `Edited`
  says when this is so: of an edited answer, `ClientSeesAnswer` states that the client reads
  the tokens, completely and in order, and of any other that it reads what was returned.
* `find_patterns` keeps the graph's instances if their explanation raises a
  `SchemaValidationError` (`analysis/service.py:261`). A failure of the LLM's provider
  (`llm/openrouter_provider.py:252`, which `llm/provider.py:196` does not wrap) is another
  exception, escapes, and leaves the caller without instances; the comment at lines 262-263
  says that they are never discarded because the explanation failed. `PatternsComplete` is
  about all other answers.
* A pass that is cut short leaves the index version as it was, so that answers from the
  graph before it would stay valid even if finding 1 were mended
  (`indexing/indexer.py:391`).
* Deleting a changed file's part of the graph removes the edges that unchanged files have
  into it, and an incremental pass does not parse those again
  (`graph/upserts.py:569`); `FullPassReflectsTree` says that a full pass restores them.
* With no recent turns to keep (the settings allow 0) a summarization folds nothing
  (`memory/service.py:233`).
* Names: of `from .a import g, f as h` the parser lets `h` stand for `p.a.g`, and it takes
  `from f import f` for a plain import (`indexing/parser.py:566`); a relative import above
  the root resolves to what follows the dots (`indexing/indexer.py:1106`, whose docstring says
  nothing is returned). `Plain` excludes these files from `DependentsAreCallers`.
* Parameters are stored by owner and position, so a function defined twice keeps the
  earlier definition's surplus parameters; and decorators are attached to every definition
  of the qualified name, also to one in another file (`graph/upserts.py:314`).
  `DefinedOnce` excludes both from `PatternsComplete`.
* After a truncated lookup `retrieve` makes no later ones (`querying/service.py:574`), and
  `find_patterns` does not pass on that its page was cut.

## 7. Not modelled

* The evaluation harness scores recorded runs offline; settings, logging, metrics,
  tracing, pricing and health probes keep no state another step depends on (settings are the
  constants of the modules).
* Wording: prompts, the regular expressions of the router, the rendering of answers,
  Cypher text and its read-only check. What they decide is an input of the models.
* The ranking of full-text and vector hits; any order is possible.
* I/O: git, Neo4j connections, HTTP to the LLM providers, MCP framing and authentication. A
  call returns, raises, hangs, or is cancelled.
* Several agents of one pool share nothing, so one is modelled.
