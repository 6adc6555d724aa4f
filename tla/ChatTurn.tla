------------------------------ MODULE ChatTurn ------------------------------
(***************************************************************************)
(* Chat requests from the gateway to the answer: the rate limiter and the  *)
(* event stream of the gateway (core/gateway.py, gateway/app.py), the call *)
(* to the orchestrator through the session pool, handle_query              *)
(* (orchestration/service.py) with its cache lookup, its events and        *)
(* tokens, the exchange it appends to the memory and the answer it caches, *)
(* and the token ledger.  The cache table is ResponseCache's, the limiter  *)
(* RateLimiter's; the rounds of specialists are QueryExecution's and only  *)
(* one step here.                                                          *)
(*                                                                         *)
(* A chat is one message over HTTP or the WebSocket.  The gateway's pool   *)
(* sends it to the orchestrator once, and once more when the session was a *)
(* reused one and its call fails; each handle_query is an attempt          *)
(* <<chat, number>>, and the first goes on unheard beside the second.      *)
(*                                                                         *)
(* Abstractions.  The gateway's queue has one reader, so stream is what    *)
(* was put into it before its end.  An answer is known by the attempt that *)
(* wrote it, its text by its tokens, and what is added to the text when it *)
(* is complete by whether anything is; a question is its normalised text   *)
(* and the entities named in it; all turns of a session count as its       *)
(* context (folding is MemorySession's), and the ledger counts calls.      *)
(***************************************************************************)
EXTENDS Integers, Sequences, FiniteSets

CONSTANTS Chats,
          Asked,           \* chat -> [session, text, names, refers, id, client]
          Reused,          \* chats whose call finds a reused session
          Before,          \* chats that were answered before the clock starts
          Nothing,
          TimeToLive, MaxRequests, Window,
          Retries,         \* retry_count of the orchestrator's memory calls
          MaxTokens,       \* bound: tokens of one synthesis
          LlmCalls,        \* bound: LLM calls of routing and specialists
          MaxRounds,       \* max_plan_iterations
          MaxTime, MaxGraph, MaxFaults   \* bounds: clock, index passes, failures

Attempts == Chats \X {1, 2}
Sessions == {Asked[c].session : c \in Chats}
Ids == {Asked[c].id : c \in Chats}
Texts == {Asked[c].text : c \in Chats}
Entities == UNION {Asked[c].names : c \in Chats}
Keys == [session : Sessions, text : Texts, entities : SUBSET Entities]

ASSUME ChatAssumption ==
    /\ Nothing \notin Nat
    /\ \A c \in Chats : Asked[c].refers \in BOOLEAN
    /\ Reused \subseteq Chats /\ Before \subseteq Chats
    /\ \A b, c \in Before : Asked[b].session = Asked[c].session => b = c
    /\ {Retries, MaxTokens, MaxTime, MaxGraph, MaxFaults} \subseteq Nat
    /\ MaxRounds \in Nat \ {0}
    /\ LlmCalls \subseteq Nat

VARIABLES chat, attempt, turns, landing, ledger, graph, faults,
          now, rows, lookup, storing, reply, hits

Cache == INSTANCE ResponseCache WITH Users <- Attempts, Answers <- Attempts
Limiter == INSTANCE RateLimiter WITH ClientKeys <- {Asked[c].client : c \in Chats}

ASSUME PartsAssumption == Cache!CacheAssumption /\ Limiter!LimiterAssumption

memory == <<turns, landing>>
cache == <<rows, lookup, storing, reply>>
vars == <<chat, attempt, memory, ledger, graph, faults, now, cache, hits>>

Question(a) == Asked[a[1]]

Unused == [pc |-> "unused", mem |-> TRUE, key |-> Nothing, about |-> {}, own |-> 0, shared |-> FALSE,
           tokens |-> 0, graph |-> 0, incomplete |-> FALSE, kind |-> "none", sent |-> 0, length |-> 0,
           sourced |-> FALSE, late |-> FALSE, served |-> Nothing, tries |-> 0]
New == [phase |-> "new", at |-> 0, reading |-> TRUE, number |-> 0,
        stream |-> <<>>, result |-> Nothing]

----------------------------------------------------------------------------
(* Pieces of handle_query                                                  *)

Event(type, data) == [type |-> type, data |-> data]
Token(a, n) == Event("answer", <<a, n>>)
Text(a) == Event("answer", <<a, 0>>)    \* the answer that a returned, in one piece
Turn(a, role) == [of |-> a, role |-> role]

\* (mutant) The entities are left out of the key.
CacheKeyByWords(q, entities) == [session |-> q.session, text |-> q.text, entities |-> {}]
\* (mutant) The key is not of the shape the table is keyed by.
CacheKeyShort(q, entities) == [session |-> q.session, text |-> q.text]

\* index_version is not part of the key: get_statistics answers with a
\* mapping, and the attribute read from it is always None ("unknown").
CacheKey(q, entities) == [session |-> q.session, text |-> q.text, entities |-> entities]

\* The chats in Before have left an exchange and a cached answer behind.
Done(c) == [New EXCEPT !.phase = "closed", !.number = 1, !.result = <<c, 1>>,
    !.stream = <<Event("routing", <<c, 1>>), Event("agent_result", <<c, 1>>), Text(<<c, 1>>),
                 Event("done", <<c, 1>>)>>]
Init ==
    LET a(c) == <<c, 1>>
        key(c) == CacheKey(Asked[c], Asked[c].names)
    IN  /\ chat = [c \in Chats |-> IF c \in Before THEN Done(c) ELSE New]
        /\ attempt = [b \in Attempts |->
              IF b[1] \in Before /\ b[2] = 1
              THEN [Unused EXCEPT !.pc = "done", !.key = key(b[1]), !.about = Asked[b[1]].names,
                                    !.kind = "refusal", !.own = 1, !.tokens = 1]
              ELSE Unused]
        /\ turns = [s \in Sessions |->
              IF \E c \in Before : Asked[c].session = s
              THEN LET c == CHOOSE c \in Before : Asked[c].session = s
                   IN  <<Turn(a(c), "user"), Turn(a(c), "assistant")>>
              ELSE <<>>]
        /\ landing = {}
        /\ ledger = [i \in Ids |-> Nothing]
        /\ graph = 0 /\ faults = 0 /\ now = 0
        /\ rows = [k \in Keys |->
              IF \E c \in Before : key(c) = k
              THEN [answer |-> a(CHOOSE c \in Before : key(c) = k), createdAt |-> 0]
              ELSE Cache!NoRow]
        /\ lookup = [b \in Attempts |-> Nothing]
        /\ storing = [b \in Attempts |-> Nothing]
        /\ reply = [b \in Attempts |-> Nothing]
        /\ Limiter!LimiterInit

Fault == faults < MaxFaults /\ faults' = faults + 1

Set(a, fields) ==
    attempt' = [attempt EXCEPT ![a] = [f \in DOMAIN @ |-> IF f \in DOMAIN fields THEN fields[f] ELSE @[f]]]

At(a, pc) == attempt[a].pc = pc

\* Between the opening and the closing of its ledger entry.
Accounting == {"context", "looking", "route", "synthesis"}
Running == Accounting \cup {"user", "assistant", "storing"}

\* entities_from_context: what the user's turns of the session name.
Mentioned(s) == UNION {Question(turns[s][i].of).names : i \in {j \in DOMAIN turns[s] : turns[s][j].role = "user"}}

ResolveEntities(q, prior) ==
    IF q.names = {} THEN prior ELSE IF q.refers THEN prior \cup q.names ELSE q.names

\* TokenLedger.record; an entry that is not open is created.
Record(a, calls) ==
    LET i == Question(a).id
    IN  ledger' = [ledger EXCEPT ![i] = IF calls = 0 THEN @ ELSE IF @ = Nothing THEN calls ELSE @ + calls]

Closed(i) == [ledger EXCEPT ![i] = Nothing]
Total(i) == IF ledger[i] = Nothing THEN 0 ELSE ledger[i]

\* Events reach the stream while the chat's call waits for this attempt.
Heard(a) == chat[a[1]].phase = "calling" /\ chat[a[1]].number = a[2]
Emit(a, events) ==
    chat' = IF Heard(a) /\ chat[a[1]].reading
            THEN [chat EXCEPT ![a[1]].stream = @ \o events] ELSE chat

----------------------------------------------------------------------------
(* The gateway                                                             *)

\* (mutant) An entry that a request left open is gone on with.
OpenKeeps(a) ==
    /\ attempt' = [attempt EXCEPT ![a] = [Unused EXCEPT !.pc = "context"]]
    /\ ledger' = [ledger EXCEPT ![Question(a).id] = IF @ = Nothing THEN 0 ELSE @]

\* handle_query begins: it opens a fresh ledger entry, and shares it with
\* every attempt of the same correlation id that still accounts to it.
Open(a) ==
    LET sharers == {b \in Attempts \ {a} : /\ attempt[b].pc \in Accounting
                                           /\ Question(b).id = Question(a).id}
    IN  /\ attempt' = [b \in Attempts |->
                          IF b = a THEN [Unused EXCEPT !.pc = "context", !.shared = sharers # {}]
                          ELSE IF b \in sharers THEN [attempt[b] EXCEPT !.shared = TRUE]
                          ELSE attempt[b]]
        /\ ledger' = [ledger EXCEPT ![Question(a).id] = 0]

\* The limiter is asked before anything else; then the pool sends the call,
\* or its breaker refuses it or no session can be had.
Arrive(c) ==
    LET becomes(phase, n) == chat' = [chat EXCEPT ![c].phase = phase, ![c].at = now, ![c].number = n]
    IN  /\ chat[c].phase = "new"
        /\ \/ /\ Limiter!Allow(Asked[c].client, now)
              /\ \/ becomes("calling", 1) /\ Open(<<c, 1>>) /\ UNCHANGED faults
                 \/ becomes("failed", 0) /\ Fault /\ UNCHANGED <<attempt, ledger>>
           \/ /\ Limiter!Refuse(Asked[c].client, now)
              /\ becomes("limited", 0)
              /\ UNCHANGED <<attempt, ledger, faults>>
        /\ UNCHANGED <<memory, graph, now, cache>>

\* _call_with_session: the session was a reused one and the call on it fails;
\* it is repeated on a fresh one, and the stream keeps what it has got.
SessionBreaks(c) ==
    /\ c \in Reused /\ chat[c].phase = "calling" /\ chat[c].number = 1
    /\ Fault
    /\ chat' = [chat EXCEPT ![c].number = 2]
    /\ Open(<<c, 2>>)
    /\ UNCHANGED <<memory, graph, now, cache, hits>>

\* Refused by the breaker, timed out, disconnected, or answered with a tool
\* error: an error the stream propagates, so it ends without done.
CallFails(c) ==
    /\ chat[c].phase = "calling"
    /\ \/ At(<<c, chat[c].number>>, "dead") /\ UNCHANGED faults
       \/ Fault
    /\ chat' = [chat EXCEPT ![c].phase = "failed"]
    /\ UNCHANGED <<attempt, memory, ledger, graph, now, cache, hits>>

\* The rest of stream(): what was not streamed live is emitted from the
\* payload of result r, then done.
Types(s) == {s[i].type : i \in DOMAIN s}
WholeAnswer(r) ==
    IF r \in Attempts /\ attempt[r].kind = "cached" THEN Text(attempt[r].served) ELSE Text(r)
\* (mutant) The whole answer is emitted although its tokens were.
RestTwice(s, r) == <<Event("routing", r), Event("agent_result", r), WholeAnswer(r), Event("done", r)>>
Rest(s, r) ==
    LET live == Types(s)
    IN  (IF "routing" \in live THEN <<>> ELSE <<Event("routing", r), Event("agent_result", r)>>)
        \o (IF "answer" \in live THEN <<>> ELSE <<WholeAnswer(r)>>)
        \o <<Event("done", r)>>

Finish(c, r) ==
    chat' = [chat EXCEPT ![c].phase = "closed", ![c].result = r,
                         ![c].stream = IF chat[c].reading THEN @ \o Rest(@, r) ELSE @]

Returns(c) ==
    LET a == <<c, chat[c].number>>
    IN  /\ chat[c].phase = "calling" /\ At(a, "done")
        /\ Finish(c, a)
        /\ UNCHANGED <<attempt, memory, ledger, graph, faults, now, cache, hits>>

\* Any other exception becomes an answer of the gateway's own, <<c, 0>>.
CallRaises(c) ==
    /\ chat[c].phase = "calling"
    /\ Fault
    /\ Finish(c, <<c, 0>>)
    /\ UNCHANGED <<attempt, memory, ledger, graph, now, cache, hits>>

\* The client leaves; the task that awaits handle_query is not cancelled.
Leave(c) ==
    /\ chat[c].phase = "calling" /\ chat[c].reading
    /\ Fault
    /\ chat' = [chat EXCEPT ![c].reading = FALSE]
    /\ UNCHANGED <<attempt, memory, ledger, graph, now, cache, hits>>
----------------------------------------------------------------------------
(* handle_query                                                            *)

\* get_context and get_statistics, and then the cache is asked; without
\* the memory there is no context, and the cache is not asked.
GetContext(a) ==
    LET q == Question(a)
        about == ResolveEntities(q, Mentioned(q.session))
        alone == ResolveEntities(q, {})
    IN  /\ At(a, "context")
        /\ \/ /\ Set(a, [pc |-> "looking", about |-> about, key |-> CacheKey(q, about)])
              /\ Cache!BeginGet(a, CacheKey(q, about))
              /\ UNCHANGED faults
           \/ /\ Fault
              /\ Set(a, [pc |-> "route", mem |-> FALSE, about |-> alone, key |-> CacheKey(q, alone)])
              /\ UNCHANGED cache
        /\ UNCHANGED <<chat, memory, ledger, graph, now, hits>>

\* A hit closes the ledger and is the answer; a failed lookup is a miss.
LookedUp(a) ==
    /\ At(a, "looking")
    /\ \/ /\ reply[a] # Nothing /\ reply[a].answer # Nothing
          /\ Set(a, [pc |-> "done", kind |-> "cached", served |-> reply[a].answer])
          /\ ledger' = Closed(Question(a).id)
          /\ UNCHANGED faults
       \/ /\ reply[a] # Nothing /\ reply[a].answer = Nothing
          /\ Set(a, [pc |-> "route"])
          /\ UNCHANGED <<ledger, faults>>
       \/ /\ reply[a] = Nothing /\ Fault
          /\ Set(a, [pc |-> "route"])
          /\ UNCHANGED ledger
    /\ UNCHANGED <<chat, memory, graph, now, cache, hits>>

\* Routing, by rules without a call or by the router's LLM with one, the
\* rounds of specialists, and their events once all are over; what they
\* found is incomplete when one of them failed.  A RoutingError leaves
\* handle_query with the ledger entry open.
Retrieve(a) ==
    /\ At(a, "route")
    /\ \/ \E calls \in LlmCalls, rounds \in 1 .. MaxRounds, incomplete \in BOOLEAN :
             /\ IF incomplete THEN Fault ELSE UNCHANGED faults
             /\ Record(a, calls)
             /\ Set(a, [pc |-> "synthesis", own |-> calls, graph |-> graph, incomplete |-> incomplete])
             /\ Emit(a, [i \in 1 .. rounds |-> Event("routing", a)] \o <<Event("agent_result", a)>>)
       \/ /\ Fault
          /\ Set(a, [pc |-> "dead"])
          /\ UNCHANGED <<chat, ledger>>
    /\ UNCHANGED <<memory, graph, now, cache, hits>>

\* A token of the synthesis, or the text at once when the provider does not
\* stream; one of an abandoned stream comes after the answer was made up
\* without it.
StreamToken(a) ==
    /\ \/ At(a, "synthesis")
       \/ attempt[a].late /\ attempt[a].pc \in Running
    /\ attempt[a].sent < MaxTokens
    /\ Emit(a, <<Token(a, attempt[a].sent + 1)>>)
    /\ Set(a, [sent |-> attempt[a].sent + 1])
    /\ UNCHANGED <<memory, ledger, graph, faults, now, cache, hits>>

\* (mutant) The assistant's turn is sent first.
AnsweredFirst(a, kind, calls, late) ==
    /\ Set(a, [pc |-> "assistant", kind |-> kind, late |-> late, length |-> attempt[a].sent,
               own |-> attempt[a].own + calls, tokens |-> Total(Question(a).id) + calls])
    /\ ledger' = Closed(Question(a).id)

\* The answer is complete and the ledger is closed: no await lies between.
\* kind: all tokens, those before a failure, the evidence alone, or an
\* answer that needed no synthesis.  To tokens that have gone out already
\* the prefix of an incomplete retrieval is added, and _with_grounded_sources
\* may add their sources or make paths of module names.
Answered(a, kind, calls, late) ==
    LET i == Question(a).id
    IN  /\ \E sourced \in IF kind \in {"full", "partial"} THEN BOOLEAN ELSE {FALSE} :
              Set(a, [pc |-> IF attempt[a].mem THEN "user" ELSE "done", kind |-> kind, late |-> late,
                      length |-> attempt[a].sent, sourced |-> sourced, own |-> attempt[a].own + calls,
                      tokens |-> Total(i) + calls])
        /\ ledger' = Closed(i)

\* Tokens that are all blank are no partial answer.
Synthesize(a) ==
    /\ At(a, "synthesis")
    /\ \/ Answered(a, "full", 1, FALSE) /\ UNCHANGED faults
       \/ attempt[a].sent = 0 /\ Answered(a, "refusal", 0, FALSE) /\ UNCHANGED faults
       \/ /\ Fault
          /\ \E late \in BOOLEAN, kind \in {"partial", "evidence"} :
                /\ kind = "partial" => attempt[a].sent > 0
                /\ Answered(a, kind, 0, late)
    /\ UNCHANGED <<chat, memory, graph, now, cache, hits>>

Append1(t) == turns' = [turns EXCEPT ![Question(t.of).session] = Append(@, t)]

\* append_turn of the user's, then of the assistant's turn.  A call that is
\* given up may have been carried out, be carried out later, or never be;
\* it is repeated Retries times, and then neither turn is sent any more.
\* Whatever became of the turns, the answer is cached next, degraded or not.
AppendTurn(a) ==
    \E role \in {"user", "assistant"} :
       LET cacheNext == Set(a, [pc |-> "storing"]) /\ Cache!BeginPut(a, attempt[a].key, a)
       IN  /\ At(a, role)
           /\ \/ /\ Append1(Turn(a, role))
                 /\ IF role = "assistant" THEN cacheNext
                    ELSE Set(a, [pc |-> "assistant", tries |-> 0]) /\ UNCHANGED cache
                 /\ UNCHANGED <<landing, faults>>
              \/ /\ Fault
                 /\ \/ Append1(Turn(a, role)) /\ UNCHANGED landing
                    \/ landing' = landing \cup {Turn(a, role)} /\ UNCHANGED turns
                    \/ UNCHANGED memory
                 /\ IF attempt[a].tries = Retries THEN cacheNext
                    ELSE Set(a, [tries |-> attempt[a].tries + 1]) /\ UNCHANGED cache
           /\ UNCHANGED <<chat, ledger, graph, now, hits>>

Land(t) ==
    /\ t \in landing
    /\ Append1(t)
    /\ landing' = landing \ {t}
    /\ UNCHANGED <<chat, attempt, ledger, graph, faults, now, cache, hits>>

\* cache_response is answered, or given up while the memory still writes.
Stored(a) ==
    /\ At(a, "storing")
    /\ IF storing[a] = Nothing THEN UNCHANGED faults ELSE Fault
    /\ Set(a, [pc |-> "done"])
    /\ UNCHANGED <<chat, memory, ledger, graph, now, cache, hits>>

\* The server's task is cancelled, or an exception nothing handles ends it.
Die(a) ==
    /\ attempt[a].pc \in Running
    /\ Fault
    /\ Set(a, [pc |-> "dead"])
    /\ UNCHANGED <<chat, memory, ledger, graph, now, cache, hits>>
----------------------------------------------------------------------------
\* An index pass completes.
Reindex ==
    /\ graph < MaxGraph
    /\ graph' = graph + 1
    /\ UNCHANGED <<chat, attempt, memory, ledger, faults, now, cache, hits>>

Tick ==
    /\ now < MaxTime
    /\ Cache!Tick
    /\ UNCHANGED <<chat, attempt, memory, ledger, graph, faults, cache, hits>>

CacheServes(a) ==
    /\ Cache!CacheStep(a)
    /\ UNCHANGED <<chat, attempt, memory, ledger, graph, faults, now, hits>>

HandleQuery(a) ==
    \/ GetContext(a) \/ LookedUp(a) \/ Retrieve(a) \/ StreamToken(a)
    \/ Synthesize(a) \/ AppendTurn(a) \/ Stored(a) \/ Die(a)

Stream(c) ==
    \/ Arrive(c) \/ SessionBreaks(c) \/ CallFails(c) \/ CallRaises(c)
    \/ Returns(c) \/ Leave(c)

Next ==
    \/ \E c \in Chats : Stream(c)
    \/ \E a \in Attempts : HandleQuery(a) \/ CacheServes(a)
    \/ \E t \in landing : Land(t)
    \/ Reindex
    \/ Tick

Spec == Init /\ [][Next]_vars
----------------------------------------------------------------------------
(* Properties                                                              *)

\* The shapes of the chats', the attempts' and the ledger's state; a cache
\* key is always of the shape the table is keyed by.
TypeOK ==
    /\ \A c \in Chats : /\ chat[c].phase \in {"new", "limited", "calling", "failed", "closed"}
                        /\ chat[c].number \in 0 .. 2 /\ chat[c].at \in 0 .. now
                        /\ chat[c].result \in (Chats \X (0 .. 2)) \cup {Nothing}
    /\ \A a \in Attempts : /\ attempt[a].pc \in Running \cup {"unused", "done", "dead"}
                           /\ attempt[a].key \in Keys \cup {Nothing}
                           /\ attempt[a].length \in 0 .. attempt[a].sent
                           /\ attempt[a].sent \in 0 .. MaxTokens
                           /\ attempt[a].tries \in 0 .. Retries
    /\ \A i \in Ids : ledger[i] \in Nat \cup {Nothing}
    /\ landing \subseteq [of : Attempts, role : {"user", "assistant"}]

\* What a client reads comes in the order that the stream's docstring gives
\* (routing, agent results, answer, done), as long as the pool did not repeat
\* the call; and one that stays to the end reads the answer the gateway was
\* given, token by token or in one piece and nothing else, when one attempt
\* made it and its synthesis was not abandoned (stream() joins what was
\* streamed before with what it emits afterwards).  An answer that differs
\* from the tokens streamed before it was complete is the exception: of it
\* the client reads the tokens, and nothing of what was made of them, not even
\* the prefix of an incomplete retrieval (docs/design-decisions.md:53).
Rank == [routing |-> 1, agent_result |-> 2, answer |-> 3, done |-> 4]
EventsInOrder(s) ==
    /\ \A i, j \in DOMAIN s : i < j => Rank[s[i].type] <= Rank[s[j].type]
    /\ Cardinality({i \in DOMAIN s : s[i].type \in {"agent_result", "done"}}) <= 2

\* What run() joins to one answer: the answer events, whatever lies around.
Joins(s, pieces) == \E k \in 0 .. Len(s) :
    /\ {i \in DOMAIN s : s[i].type = "answer"} = k + 1 .. k + Len(pieces)
    /\ \A n \in DOMAIN pieces : s[k + n] = pieces[n]
Tokens(a, length) == [n \in 1 .. length |-> Token(a, n)]

\* The answer of handle_query is not the tokens it has streamed.
Edited(a) ==
    \/ attempt[a].kind = "evidence"
    \/ attempt[a].kind \in {"full", "partial"} /\ (attempt[a].incomplete \/ attempt[a].sourced)
Emitted(a) == Tokens(a, attempt[a].length)
Returned(a) == IF attempt[a].length = 0 \/ Edited(a) THEN <<WholeAnswer(a)>> ELSE Emitted(a)
SeesAnswer(c) ==
    LET r == chat[c].result
        s == chat[c].stream
        ended == chat[c].phase = "closed" /\ chat[c].reading
    IN  /\ EventsInOrder(s)
        /\ ended => Types(s) = DOMAIN Rank
        /\ (ended /\ r \in Attempts /\ ~attempt[r].late) =>
              Joins(s, IF attempt[r].length # 0 /\ Edited(r) THEN Emitted(r) ELSE Returned(r))
ClientSeesAnswer == \A c \in Chats : chat[c].number <= 1 => SeesAnswer(c)

\* A cached answer was written for the same session, the same words and the
\* same entities: "it" asked again when it stands for something else is not
\* answered from the cache.  And only finished answers are served.
CachedForSameQuestion == \A a \in Attempts : attempt[a].kind = "cached" =>
    LET b == attempt[a].served
    IN  /\ attempt[b].about = attempt[a].about
        /\ Question(b).session = Question(a).session /\ Question(b).text = Question(a).text
        /\ attempt[b].kind \notin {"none", "cached"} /\ attempt[b].mem

\* The tokens an answer reports are those of its own calls, unless another
\* attempt of the same correlation id ran beside it.
TokensOwn == \A a \in Attempts :
    (attempt[a].kind # "none" /\ ~attempt[a].shared) =>
        attempt[a].tokens = IF attempt[a].kind = "cached" THEN 0 ELSE attempt[a].own

\* The assistant's turn is never in the memory before the user's turn it
\* answers, and no turn is there more often than its call was made.
ExchangeInOrder == \A s \in Sessions :
    LET at(t) == {i \in DOMAIN turns[s] : turns[s][i] = t}
    IN  \A i \in DOMAIN turns[s] :
           /\ Cardinality(at(turns[s][i])) <= Retries + 1
           /\ turns[s][i].role = "assistant" =>
                 \E j \in at(Turn(turns[s][i].of, "user")) : j < i

\* The limiter counts exactly: no window of its length holds more admitted
\* requests of a client than the limit, and a request is refused only when
\* the window that ends with it is full.
Admitted(c) == c \notin Before /\ chat[c].phase \notin {"new", "limited"}
InWindow(c) == {d \in Chats : /\ Admitted(d) /\ Asked[d].client = Asked[c].client
                             /\ chat[d].at \in chat[c].at - Window + 1 .. chat[c].at}
LimitExact == \A c \in Chats : MaxRequests > 0 =>
    /\ Admitted(c) => Cardinality(InWindow(c)) <= MaxRequests
    /\ chat[c].phase = "limited" => Cardinality(InWindow(c)) = MaxRequests

\* What the requests see of the cache table is the abstract cache: the last
\* answer written for the key, or nothing; an expired row, and a fresh one
\* that a late delete removes, is forgotten and never turns into another.
CacheRefined == Cache!Abstract!Spec

\* An answer from the cache was made from the graph as it is when the
\* lookup answers: "index_version participates in the key, so re-indexing
\* invalidates implicitly" (docs/design-decisions.md).  It does not.
ReindexInvalidates == [][\A a \in Attempts :
    (attempt[a].kind # "cached" /\ attempt'[a].kind = "cached") =>
        attempt[attempt'[a].served].graph = graph]_vars
=============================================================================
