--------------------------- MODULE ChatTurnProofs ---------------------------
(***************************************************************************)
(* Facts of ChatTurn for any number of chats, sessions and clients, any    *)
(* number of failures, retries and index passes, and any clock.            *)
(*                                                                         *)
(* An attempt that has its answer changes no more in what the cache, the   *)
(* ledger and its client know of it (Frozen).  So whatever the cache has   *)
(* for a key was written by an attempt that still has this key (Traced),   *)
(* and what the ledger counts for an attempt that is alone with its        *)
(* correlation id is the attempt's own (Counted).                          *)
(*                                                                         *)
(* On top of these stand three invariants of their own: how often a turn   *)
(* was sent bounds how often it is stored (Appended), the limiter's        *)
(* buckets count the admitted requests (Limited), and a stream is what its *)
(* attempt has said so far, or a beginning of it (Streamed).               *)
(***************************************************************************)
EXTENDS ChatTurn, FiniteSetTheorems, SequenceTheorems, WellFoundedInduction, TLAPS

Writing == {"user", "assistant", "storing", "done", "dead"}
Pcs == Running \cup {"unused", "done", "dead"}
Kinds == {"none", "cached", "full", "refusal", "partial", "evidence"}
Turns == [of : Attempts, role : {"user", "assistant"}]
Results == Chats \X (0 .. 2)
Events == [type : DOMAIN Rank, data : Results \cup (Results \X Nat)]

AttemptRecord ==
    [pc : Pcs, mem : BOOLEAN, key : Keys \cup {Nothing}, about : SUBSET Entities, own : Nat,
     shared : BOOLEAN, tokens : Nat, graph : Nat, incomplete : BOOLEAN, kind : Kinds,
     sent : 0 .. MaxTokens, length : 0 .. MaxTokens, sourced : BOOLEAN, late : BOOLEAN,
     served : Attempts \cup {Nothing}, tries : 0 .. Retries]
ChatRecord ==
    [phase : {"new", "limited", "calling", "failed", "closed"}, at : Nat, reading : BOOLEAN,
     number : 0 .. 2, stream : Seq(Events), result : Results \cup {Nothing}]
Stores == [answer : Attempts, createdAt : Nat]

AttemptsTyped ==
    /\ attempt \in [Attempts -> AttemptRecord]
    /\ \A a \in Attempts : attempt[a].length <= attempt[a].sent
ChatsTyped ==
    /\ chat \in [Chats -> ChatRecord]
    /\ now \in Nat
    /\ \A c \in Chats : chat[c].at <= now
MemoryTyped ==
    /\ turns \in [Sessions -> Seq(Turns)]
    /\ landing \subseteq Turns
LedgerTyped == ledger \in [Ids -> Nat \cup {Nothing}]
CacheTyped ==
    /\ rows \in [Keys -> Stores \cup {Cache!NoRow}]
    /\ lookup \in [Attempts -> [key : Keys, cutoff : Int, expired : BOOLEAN] \cup {Nothing}]
    /\ storing \in [Attempts -> [key : Keys, row : Stores] \cup {Nothing}]
    /\ reply \in [Attempts -> [key : Keys, answer : Attempts \cup {Nothing}] \cup {Nothing}]
Typed == AttemptsTyped /\ ChatsTyped /\ MemoryTyped /\ LedgerTyped /\ CacheTyped /\ graph \in Nat

\* The key of an attempt.
KeyOf(a) == CacheKey(Question(a), attempt[a].about)

\* What holds of an attempt where it stands, and of the second attempt of a chat.
Stage(a) ==
    LET r == attempt[a]
    IN  /\ r.pc \in {"unused", "context"} => lookup[a] = Nothing /\ reply[a] = Nothing
        /\ r.pc \notin Writing => r.kind = "none" /\ r.tokens = 0
        /\ r.pc \in {"context", "looking", "route"} => r.own = 0
        /\ r.pc \notin {"unused", "context", "dead"} => r.key = KeyOf(a)
        /\ r.pc \in {"user", "assistant", "storing"} => r.kind \notin {"none", "cached"} /\ r.mem
        /\ r.kind = "cached" => r.tokens = 0
        /\ lookup[a] # Nothing => lookup[a].key = KeyOf(a)
        /\ reply[a] # Nothing => reply[a].key = KeyOf(a)
Unopened ==
    \A c \in Chats : /\ chat[c].phase = "new" => attempt[<<c, 1>>].pc = "unused"
                     /\ chat[c].phase = "new" \/ (chat[c].phase = "calling" /\ chat[c].number = 1)
                           => attempt[<<c, 2>>].pc = "unused"
Stages == (\A a \in Attempts : Stage(a)) /\ Unopened

\* The answer of b may be cached under the key k.
Wrote(b, k) ==
    /\ b \in Attempts
    /\ attempt[b].pc \in Writing /\ attempt[b].kind \notin {"none", "cached"} /\ attempt[b].mem
    /\ k = KeyOf(b)
Traced ==
    /\ \A k \in Keys : rows[k].answer # Nothing => Wrote(rows[k].answer, k)
    /\ \A a \in Attempts :
          /\ storing[a] # Nothing => Wrote(storing[a].row.answer, storing[a].key)
          /\ reply[a] # Nothing /\ reply[a].answer # Nothing => Wrote(reply[a].answer, reply[a].key)
          /\ attempt[a].kind = "cached" => Wrote(attempt[a].served, KeyOf(a))

\* An attempt that nobody shares its ledger entry with has it for itself.
SameId(a, b) == Question(a).id = Question(b).id
Counted ==
    /\ \A a, b \in Attempts :
          (/\ a # b /\ SameId(a, b) /\ attempt[a].pc \in Accounting /\ attempt[b].pc \in Accounting)
              => attempt[a].shared /\ attempt[b].shared
    /\ \A a \in Attempts : attempt[a].pc \in Accounting /\ ~attempt[a].shared =>
          ledger[Question(a).id] = attempt[a].own
    /\ TokensOwn

ChatInv == Typed /\ Stages /\ Traced /\ Counted

\* What an attempt keeps once it has its answer.
SameAnswer(b) ==
    /\ attempt'[b].about = attempt[b].about /\ attempt'[b].key = attempt[b].key
    /\ attempt'[b].kind = attempt[b].kind /\ attempt'[b].mem = attempt[b].mem
    /\ attempt'[b].served = attempt[b].served
    /\ attempt'[b].own = attempt[b].own /\ attempt'[b].tokens = attempt[b].tokens
    /\ attempt'[b].shared = attempt[b].shared
Frozen(b) == attempt'[b].pc \in Writing /\ SameAnswer(b)

\* A step of attempt a changes no other attempt.
Alone(a) == \A b \in Attempts \ {a} : attempt'[b] = attempt[b]

----------------------------------------------------------------------------
(* Types                                                                   *)

LEMMA QuestionTyped ==
  ASSUME NEW a \in Attempts
  PROVE  /\ a[1] \in Chats
         /\ Question(a).session \in Sessions /\ Question(a).id \in Ids
         /\ Question(a).names \subseteq Entities
         /\ \A about \in SUBSET Entities : CacheKey(Question(a), about) \in Keys
BY DEF Question, Attempts, Sessions, Ids, Entities, CacheKey, Keys, Texts

LEMMA AboutTyped ==
  ASSUME MemoryTyped, NEW a \in Attempts
  PROVE  /\ ResolveEntities(Question(a), Mentioned(Question(a).session)) \subseteq Entities
         /\ ResolveEntities(Question(a), {}) \subseteq Entities
<1>1. Mentioned(Question(a).session) \subseteq Entities
  <2> SUFFICES ASSUME NEW i \in DOMAIN turns[Question(a).session]
      PROVE  Question(turns[Question(a).session][i].of).names \subseteq Entities
    BY DEF Mentioned
  <2>1. turns[Question(a).session] \in Seq(Turns)
    BY QuestionTyped DEF MemoryTyped
  <2>2. turns[Question(a).session][i] \in Turns
    BY <2>1
  <2>3. QED
    BY <2>2, QuestionTyped DEF Turns
<1>2. QED
  BY <1>1, QuestionTyped DEF ResolveEntities

LEMMA UnusedTyped == Unused \in AttemptRecord
BY ChatAssumption DEF Unused, AttemptRecord, Pcs, Kinds

\* Open gives one attempt a fresh record and marks others as shared.
LEMMA OpenEffect ==
  ASSUME AttemptsTyped, NEW a \in Attempts, Open(a)
  PROVE  /\ DOMAIN attempt' = Attempts
         /\ attempt'[a] \in AttemptRecord
         /\ attempt'[a].pc = "context" /\ attempt'[a].length = 0 /\ attempt'[a].sent = 0
         /\ attempt'[a].kind = "none" /\ attempt'[a].tokens = 0 /\ attempt'[a].own = 0
         /\ attempt'[a].shared = (\E b \in Attempts \ {a} : attempt[b].pc \in Accounting /\ SameId(b, a))
         /\ \A b \in Attempts \ {a} :
               IF attempt[b].pc \in Accounting /\ SameId(b, a)
               THEN attempt'[b] = [attempt[b] EXCEPT !.shared = TRUE]
               ELSE attempt'[b] = attempt[b]
<1> DEFINE sharers == {b \in Attempts \ {a} : attempt[b].pc \in Accounting /\ Question(b).id = Question(a).id}
           opened == [Unused EXCEPT !.pc = "context", !.shared = sharers # {}]
<1>1. /\ DOMAIN attempt' = Attempts
      /\ attempt'[a] = opened
      /\ \A b \in Attempts \ {a} : attempt'[b] = IF b \in sharers THEN [attempt[b] EXCEPT !.shared = TRUE]
                                                ELSE attempt[b]
  BY DEF Open
<1>2. ASSUME NEW s \in BOOLEAN
      PROVE  LET x == [Unused EXCEPT !.pc = "context", !.shared = s]
             IN  /\ x \in AttemptRecord
                 /\ x.pc = "context" /\ x.length = 0 /\ x.sent = 0
                 /\ x.kind = "none" /\ x.tokens = 0 /\ x.own = 0 /\ x.shared = s
  <2>1. \A u \in AttemptRecord :
           LET x == [u EXCEPT !.pc = "context", !.shared = s]
           IN  /\ x \in AttemptRecord
               /\ x.pc = "context" /\ x.length = u.length /\ x.sent = u.sent
               /\ x.kind = u.kind /\ x.tokens = u.tokens /\ x.own = u.own /\ x.shared = s
    BY DEF AttemptRecord, Pcs, Running, Accounting
  <2>2. /\ Unused.length = 0 /\ Unused.sent = 0 /\ Unused.kind = "none"
        /\ Unused.tokens = 0 /\ Unused.own = 0
    BY DEF Unused
  <2>3. QED
    BY <2>1, <2>2, UnusedTyped
<1>3. (sharers # {}) \in BOOLEAN
  OBVIOUS
<1>4. QED
  BY <1>1, <1>2, <1>3 DEF SameId

LEMMA OpenTyped ==
  ASSUME AttemptsTyped, LedgerTyped, NEW a \in Attempts, Open(a)
  PROVE  AttemptsTyped' /\ LedgerTyped'
<1>1. ASSUME NEW x \in AttemptRecord
      PROVE  LET y == [x EXCEPT !.shared = TRUE]
             IN  y \in AttemptRecord /\ y.length = x.length /\ y.sent = x.sent
  BY DEF AttemptRecord
<1>2. ASSUME NEW b \in Attempts PROVE attempt'[b] \in AttemptRecord /\ attempt'[b].length <= attempt'[b].sent
  <2>1. attempt[b] \in AttemptRecord /\ attempt[b].length <= attempt[b].sent
    BY DEF AttemptsTyped
  <2>2. CASE b = a
    <3>1. attempt'[a] \in AttemptRecord /\ attempt'[a].length = 0 /\ attempt'[a].sent = 0
      BY OpenEffect
    <3>2. QED
      BY <2>2, <3>1
  <2>3. CASE b # a
    <3>1. attempt'[b] = [attempt[b] EXCEPT !.shared = TRUE] \/ attempt'[b] = attempt[b]
      BY <2>3, OpenEffect
    <3>2. QED
      BY <1>1, <2>1, <3>1
  <2>4. QED
    BY <2>2, <2>3
<1>3. attempt' = [b \in Attempts |-> attempt'[b]]
  BY DEF Open
<1>4. LedgerTyped'
  BY QuestionTyped DEF Open, LedgerTyped
<1>5. QED
  BY <1>2, <1>3, <1>4 DEF AttemptsTyped

\* The gateway's view of its chats that the orchestrator's steps leave alone.
SamePhases == \A c \in Chats : chat'[c].phase = chat[c].phase /\ chat'[c].number = chat[c].number

LEMMA EmitTyped ==
  ASSUME ChatsTyped, NEW a \in Attempts, NEW events \in Seq(Events), Emit(a, events), UNCHANGED now
  PROVE  ChatsTyped' /\ SamePhases
<1>1. ASSUME NEW x \in ChatRecord
      PROVE  LET y == [x EXCEPT !.stream = @ \o events]
             IN  y \in ChatRecord /\ y.at = x.at /\ y.phase = x.phase /\ y.number = x.number
  <2>1. x.stream \o events \in Seq(Events)
    BY DEF ChatRecord
  <2>2. QED
    BY <2>1 DEF ChatRecord
<1>2. CASE chat' = chat
  BY <1>2 DEF ChatsTyped, SamePhases
<1>3. CASE chat' = [chat EXCEPT ![a[1]].stream = @ \o events]
  BY <1>1, <1>3, QuestionTyped DEF ChatsTyped, SamePhases
<1>4. QED
  BY <1>2, <1>3 DEF Emit

LEMMA EventTyped ==
  ASSUME NEW r \in Results
  PROVE  /\ Event("routing", r) \in Events /\ Event("agent_result", r) \in Events
         /\ Event("done", r) \in Events
         /\ Text(r) \in Events
         /\ \A n \in Nat : Token(r, n) \in Events
BY DEF Event, Text, Token, Events, Rank

LEMMA AttemptsAreResults == Attempts \subseteq Results
BY DEF Attempts, Results

\* What stream() adds at the end, when a served answer is an attempt's.
LEMMA FinishTyped ==
  ASSUME ChatsTyped, NEW c \in Chats, NEW r \in Results, Finish(c, r), UNCHANGED now,
         \A a \in Attempts : attempt[a].kind = "cached" => attempt[a].served \in Attempts
  PROVE  /\ ChatsTyped'
         /\ chat'[c].phase = "closed"
         /\ \A d \in Chats \ {c} : chat'[d] = chat[d]
<1>1. WholeAnswer(r) \in Events
  BY EventTyped, AttemptsAreResults DEF WholeAnswer
<1>2. ASSUME NEW s \in Seq(Events) PROVE s \o Rest(s, r) \in Seq(Events)
  <2>1. /\ <<>> \in Seq(Events) /\ <<WholeAnswer(r)>> \in Seq(Events)
        /\ <<Event("routing", r), Event("agent_result", r)>> \in Seq(Events)
        /\ <<Event("done", r)>> \in Seq(Events)
    BY <1>1, EventTyped
  <2>2. PICK x \in Seq(Events), y \in Seq(Events) : Rest(s, r) = x \o y \o <<Event("done", r)>>
    BY <2>1 DEF Rest
  <2>3. QED
    BY <2>1, <2>2
<1>3. PICK s \in Seq(Events) :
         chat' = [chat EXCEPT ![c].phase = "closed", ![c].result = r, ![c].stream = s]
  <2>1. chat[c].stream \in Seq(Events)
    BY DEF ChatsTyped, ChatRecord
  <2>2. chat[c].stream \o Rest(chat[c].stream, r) \in Seq(Events)
    BY <2>1, <1>2
  <2>3. QED
    BY <2>1, <2>2 DEF Finish
<1>4. chat[c] \in ChatRecord /\ chat[c].at <= now
  BY DEF ChatsTyped
<1>5. chat'[c] \in ChatRecord /\ chat'[c].at <= now /\ chat'[c].phase = "closed"
  BY <1>3, <1>4 DEF ChatsTyped, ChatRecord
<1>6. QED
  BY <1>3, <1>5 DEF ChatsTyped

----------------------------------------------------------------------------
(* What a step of handle_query does to its attempt                         *)

\* Set gives the fields of one attempt; the effects below say which.
LEMMA SetAlone ==
  ASSUME AttemptsTyped, NEW a \in Attempts, NEW fields, Set(a, fields),
         attempt'[a] \in AttemptRecord, attempt'[a].length <= attempt'[a].sent
  PROVE  AttemptsTyped' /\ Alone(a)
BY DEF Set, AttemptsTyped, Alone

\* Death changes nothing but the program counter.
LEMMA DieEffect ==
  ASSUME AttemptsTyped, NEW a \in Attempts, Set(a, [pc |-> "dead"])
  PROVE  AttemptsTyped' /\ Alone(a) /\ attempt'[a].pc = "dead" /\ SameAnswer(a)
<1>1. attempt[a] \in AttemptRecord /\ attempt[a].length <= attempt[a].sent
  BY DEF AttemptsTyped
<1>2. /\ attempt'[a] \in AttemptRecord /\ attempt'[a].length <= attempt'[a].sent
      /\ attempt'[a].pc = "dead" /\ SameAnswer(a)
  BY <1>1 DEF Set, AttemptsTyped, AttemptRecord, Pcs, SameAnswer
<1>3. QED
  BY <1>2, SetAlone

LEMMA GetContextEffect ==
  ASSUME AttemptsTyped, MemoryTyped, NEW a \in Attempts, GetContext(a)
  PROVE  /\ AttemptsTyped' /\ Alone(a) /\ attempt[a].pc = "context"
         /\ attempt'[a].pc \in {"looking", "route"}
         /\ attempt'[a].about \subseteq Entities
         /\ attempt'[a].key = KeyOf(a)'
         /\ attempt'[a].kind = attempt[a].kind /\ attempt'[a].own = attempt[a].own
         /\ attempt'[a].tokens = attempt[a].tokens /\ attempt'[a].shared = attempt[a].shared
         /\ \/ UNCHANGED cache
            \/ Cache!BeginGet(a, attempt'[a].key)
<1>1. PICK about \in SUBSET Entities :
         \/ /\ Set(a, [pc |-> "looking", about |-> about, key |-> CacheKey(Question(a), about)])
            /\ Cache!BeginGet(a, CacheKey(Question(a), about))
         \/ /\ Set(a, [pc |-> "route", mem |-> FALSE, about |-> about, key |-> CacheKey(Question(a), about)])
            /\ UNCHANGED cache
  BY AboutTyped DEF GetContext
<1>2. /\ attempt[a] \in AttemptRecord /\ attempt[a].length <= attempt[a].sent
      /\ CacheKey(Question(a), about) \in Keys
  BY QuestionTyped DEF AttemptsTyped
<1>3. /\ attempt'[a] \in AttemptRecord /\ attempt'[a].length <= attempt'[a].sent
      /\ attempt'[a].pc \in {"looking", "route"} /\ attempt'[a].about = about
      /\ attempt'[a].key = CacheKey(Question(a), about)
      /\ attempt'[a].kind = attempt[a].kind /\ attempt'[a].own = attempt[a].own
      /\ attempt'[a].tokens = attempt[a].tokens /\ attempt'[a].shared = attempt[a].shared
  <2>1. CASE Set(a, [pc |-> "looking", about |-> about, key |-> CacheKey(Question(a), about)])
    BY <1>2, <2>1 DEF Set, AttemptsTyped, AttemptRecord, Pcs, Running, Accounting
  <2>2. CASE Set(a, [pc |-> "route", mem |-> FALSE, about |-> about, key |-> CacheKey(Question(a), about)])
    BY <1>2, <2>2 DEF Set, AttemptsTyped, AttemptRecord, Pcs, Running, Accounting
  <2>3. QED
    BY <1>1, <2>1, <2>2
<1>4. Alone(a) /\ AttemptsTyped'
  BY <1>1, <1>3, SetAlone
<1>5. QED
  BY <1>1, <1>3, <1>4 DEF GetContext, At, KeyOf

LEMMA LookedUpEffect ==
  ASSUME AttemptsTyped, CacheTyped, NEW a \in Attempts, LookedUp(a)
  PROVE  /\ AttemptsTyped' /\ Alone(a) /\ attempt[a].pc = "looking"
         /\ attempt'[a].about = attempt[a].about /\ attempt'[a].key = attempt[a].key
         /\ attempt'[a].own = attempt[a].own /\ attempt'[a].tokens = attempt[a].tokens
         /\ attempt'[a].shared = attempt[a].shared
         /\ \/ /\ attempt'[a].pc = "done" /\ attempt'[a].kind = "cached"
               /\ reply[a] # Nothing /\ reply[a].answer # Nothing
               /\ attempt'[a].served = reply[a].answer
               /\ ledger' = Closed(Question(a).id)
            \/ attempt'[a].pc = "route" /\ SameAnswer(a) /\ UNCHANGED ledger
<1>1. attempt[a] \in AttemptRecord /\ attempt[a].length <= attempt[a].sent /\ attempt[a].pc = "looking"
  BY DEF AttemptsTyped, LookedUp, At
<1>2. CASE /\ reply[a] # Nothing /\ reply[a].answer # Nothing
           /\ Set(a, [pc |-> "done", kind |-> "cached", served |-> reply[a].answer])
           /\ ledger' = Closed(Question(a).id)
  <2>1. reply[a].answer \in Attempts
    BY <1>2 DEF CacheTyped
  <2>2. /\ attempt'[a] \in AttemptRecord /\ attempt'[a].length <= attempt'[a].sent
        /\ attempt'[a].pc = "done" /\ attempt'[a].kind = "cached" /\ attempt'[a].served = reply[a].answer
        /\ attempt'[a].about = attempt[a].about /\ attempt'[a].key = attempt[a].key
        /\ attempt'[a].own = attempt[a].own /\ attempt'[a].tokens = attempt[a].tokens
        /\ attempt'[a].shared = attempt[a].shared
    BY <1>1, <1>2, <2>1 DEF Set, AttemptsTyped, AttemptRecord, Pcs, Kinds
  <2>3. QED
    BY <1>1, <1>2, <2>2, SetAlone
<1>3. CASE Set(a, [pc |-> "route"]) /\ UNCHANGED ledger
  <2>1. /\ attempt'[a] \in AttemptRecord /\ attempt'[a].length <= attempt'[a].sent
        /\ attempt'[a].pc = "route" /\ SameAnswer(a)
    BY <1>1, <1>3 DEF Set, AttemptsTyped, AttemptRecord, Pcs, Running, Accounting, SameAnswer
  <2>2. QED
    BY <1>1, <1>3, <2>1, SetAlone DEF SameAnswer
<1>4. QED
  BY <1>2, <1>3 DEF LookedUp

LEMMA RetrieveEffect ==
  ASSUME AttemptsTyped, graph \in Nat, NEW a \in Attempts, Retrieve(a)
  PROVE  /\ AttemptsTyped' /\ Alone(a) /\ attempt[a].pc = "route"
         /\ attempt'[a].about = attempt[a].about /\ attempt'[a].key = attempt[a].key
         /\ attempt'[a].kind = attempt[a].kind /\ attempt'[a].tokens = attempt[a].tokens
         /\ attempt'[a].shared = attempt[a].shared
         /\ \/ /\ attempt'[a].pc = "synthesis" /\ attempt'[a].own \in Nat
               /\ Record(a, attempt'[a].own)
            \/ attempt'[a].pc = "dead" /\ SameAnswer(a) /\ UNCHANGED ledger
<1>1. attempt[a] \in AttemptRecord /\ attempt[a].length <= attempt[a].sent /\ attempt[a].pc = "route"
  BY DEF AttemptsTyped, Retrieve, At
<1>2. ASSUME NEW calls \in LlmCalls, NEW incomplete \in BOOLEAN, Record(a, calls),
             Set(a, [pc |-> "synthesis", own |-> calls, graph |-> graph, incomplete |-> incomplete])
      PROVE  /\ AttemptsTyped' /\ Alone(a)
             /\ attempt'[a].about = attempt[a].about /\ attempt'[a].key = attempt[a].key
             /\ attempt'[a].kind = attempt[a].kind /\ attempt'[a].tokens = attempt[a].tokens
             /\ attempt'[a].shared = attempt[a].shared
             /\ attempt'[a].pc = "synthesis" /\ attempt'[a].own \in Nat /\ attempt'[a].own = calls
  <2>1. calls \in Nat
    BY ChatAssumption
  <2>2. /\ attempt'[a] \in AttemptRecord /\ attempt'[a].length <= attempt'[a].sent
        /\ attempt'[a].about = attempt[a].about /\ attempt'[a].key = attempt[a].key
        /\ attempt'[a].kind = attempt[a].kind /\ attempt'[a].tokens = attempt[a].tokens
        /\ attempt'[a].shared = attempt[a].shared
        /\ attempt'[a].pc = "synthesis" /\ attempt'[a].own = calls
    BY <1>1, <1>2, <2>1 DEF Set, AttemptsTyped, AttemptRecord, Pcs, Running, Accounting
  <2>3. QED
    BY <1>2, <2>1, <2>2, SetAlone
<1>3. CASE Set(a, [pc |-> "dead"]) /\ UNCHANGED ledger
  BY <1>1, <1>3, DieEffect DEF SameAnswer
<1>4. QED
  BY <1>1, <1>2, <1>3 DEF Retrieve

LEMMA StreamTokenEffect ==
  ASSUME AttemptsTyped, NEW a \in Attempts, StreamToken(a)
  PROVE  /\ AttemptsTyped' /\ Alone(a) /\ attempt[a].pc \in Running
         /\ attempt'[a].pc = attempt[a].pc /\ SameAnswer(a)
<1>1. /\ attempt[a] \in AttemptRecord /\ attempt[a].length <= attempt[a].sent
      /\ attempt[a].sent < MaxTokens /\ Set(a, [sent |-> attempt[a].sent + 1])
      /\ attempt[a].pc \in Running
  BY DEF AttemptsTyped, StreamToken, At, Running, Accounting
<1>2. MaxTokens \in Nat
  BY ChatAssumption
<1>3. /\ attempt'[a] \in AttemptRecord /\ attempt'[a].length <= attempt'[a].sent
      /\ attempt'[a].pc = attempt[a].pc /\ SameAnswer(a)
  BY <1>1, <1>2 DEF Set, AttemptsTyped, AttemptRecord, SameAnswer
<1>4. QED
  BY <1>1, <1>3, SetAlone

LEMMA AnsweredEffect ==
  ASSUME AttemptsTyped, LedgerTyped, NEW a \in Attempts,
         NEW kind \in Kinds \ {"none", "cached"}, NEW calls \in Nat, NEW late \in BOOLEAN,
         Answered(a, kind, calls, late)
  PROVE  /\ AttemptsTyped' /\ Alone(a)
         /\ attempt'[a].pc \in {"user", "done"}
         /\ attempt'[a].pc = "user" => attempt'[a].mem
         /\ attempt'[a].kind = kind
         /\ attempt'[a].own = attempt[a].own + calls
         /\ attempt'[a].tokens = Total(Question(a).id) + calls
         /\ attempt'[a].about = attempt[a].about /\ attempt'[a].key = attempt[a].key
         /\ attempt'[a].shared = attempt[a].shared
         /\ ledger' = Closed(Question(a).id)
<1>1. attempt[a] \in AttemptRecord /\ attempt[a].length <= attempt[a].sent
  BY DEF AttemptsTyped
<1>2. Total(Question(a).id) \in Nat
  BY QuestionTyped DEF LedgerTyped, Total
<1>3. PICK pc \in {"user", "done"}, sourced \in BOOLEAN :
         /\ pc = "user" => attempt[a].mem
         /\ Set(a, [pc |-> pc, kind |-> kind, late |-> late, length |-> attempt[a].sent,
                    sourced |-> sourced, own |-> attempt[a].own + calls,
                    tokens |-> Total(Question(a).id) + calls])
         /\ ledger' = Closed(Question(a).id)
  <2>1. CASE attempt[a].mem
    BY <2>1 DEF Answered
  <2>2. CASE ~attempt[a].mem
    BY <2>2 DEF Answered
  <2>3. QED
    BY <2>1, <2>2
<1>4. /\ attempt'[a] \in AttemptRecord /\ attempt'[a].length <= attempt'[a].sent
      /\ attempt'[a].pc = pc /\ attempt'[a].mem = attempt[a].mem
      /\ attempt'[a].kind = kind
      /\ attempt'[a].own = attempt[a].own + calls
      /\ attempt'[a].tokens = Total(Question(a).id) + calls
      /\ attempt'[a].about = attempt[a].about /\ attempt'[a].key = attempt[a].key
      /\ attempt'[a].shared = attempt[a].shared
  BY <1>1, <1>2, <1>3 DEF Set, AttemptsTyped, AttemptRecord, Pcs, Running, Accounting
<1>5. QED
  BY <1>3, <1>4, SetAlone

LEMMA SynthesizeEffect ==
  ASSUME AttemptsTyped, LedgerTyped, NEW a \in Attempts, Synthesize(a)
  PROVE  /\ attempt[a].pc = "synthesis"
         /\ \E kind \in Kinds \ {"none", "cached"}, calls \in Nat, late \in BOOLEAN :
                Answered(a, kind, calls, late)
BY DEF Synthesize, At, Kinds

LEMMA AppendTurnEffect ==
  ASSUME AttemptsTyped, NEW a \in Attempts, AppendTurn(a)
  PROVE  /\ AttemptsTyped' /\ Alone(a) /\ attempt[a].pc \in {"user", "assistant"}
         /\ attempt'[a].pc \in {"user", "assistant", "storing"} /\ SameAnswer(a)
         /\ UNCHANGED cache \/ Cache!BeginPut(a, attempt[a].key, a)
<1>1. /\ attempt[a] \in AttemptRecord /\ attempt[a].length <= attempt[a].sent
      /\ attempt[a].pc \in {"user", "assistant"}
  BY DEF AttemptsTyped, AppendTurn, At
<1>2. \/ Set(a, [pc |-> "storing"]) /\ Cache!BeginPut(a, attempt[a].key, a)
      \/ Set(a, [pc |-> "assistant", tries |-> 0]) /\ UNCHANGED cache
      \/ attempt[a].tries # Retries /\ Set(a, [tries |-> attempt[a].tries + 1]) /\ UNCHANGED cache
  BY DEF AppendTurn
<1>3. Retries \in Nat
  BY ChatAssumption
<1>4. /\ attempt'[a] \in AttemptRecord /\ attempt'[a].length <= attempt'[a].sent
      /\ attempt'[a].pc \in {"user", "assistant", "storing"} /\ SameAnswer(a)
  <2>1. CASE Set(a, [pc |-> "storing"])
    BY <1>1, <2>1 DEF Set, AttemptsTyped, AttemptRecord, Pcs, Running, SameAnswer
  <2>2. CASE Set(a, [pc |-> "assistant", tries |-> 0])
    BY <1>1, <1>3, <2>2 DEF Set, AttemptsTyped, AttemptRecord, Pcs, Running, SameAnswer
  <2>3. CASE attempt[a].tries # Retries /\ Set(a, [tries |-> attempt[a].tries + 1])
    BY <1>1, <1>3, <2>3 DEF Set, AttemptsTyped, AttemptRecord, SameAnswer
  <2>4. QED
    BY <1>2, <2>1, <2>2, <2>3
<1>5. Alone(a) /\ AttemptsTyped'
  BY <1>2, <1>4, SetAlone
<1>6. QED
  BY <1>1, <1>2, <1>4, <1>5

LEMMA StoredEffect ==
  ASSUME AttemptsTyped, NEW a \in Attempts, Stored(a)
  PROVE  /\ AttemptsTyped' /\ Alone(a) /\ attempt[a].pc = "storing"
         /\ attempt'[a].pc = "done" /\ SameAnswer(a)
<1>1. /\ attempt[a] \in AttemptRecord /\ attempt[a].length <= attempt[a].sent
      /\ attempt[a].pc = "storing" /\ Set(a, [pc |-> "done"])
  BY DEF AttemptsTyped, Stored, At
<1>2. /\ attempt'[a] \in AttemptRecord /\ attempt'[a].length <= attempt'[a].sent
      /\ attempt'[a].pc = "done" /\ SameAnswer(a)
  BY <1>1 DEF Set, AttemptsTyped, AttemptRecord, Pcs, SameAnswer
<1>3. QED
  BY <1>1, <1>2, SetAlone

----------------------------------------------------------------------------
(* The cache table                                                         *)

LEMMA NothingIsNoAnswer == Nothing \notin Attempts /\ TimeToLive \in Nat
BY PartsAssumption DEF Cache!CacheAssumption

LEMMA RowTyped ==
  ASSUME CacheTyped, NEW k \in Keys
  PROVE  /\ rows[k].answer \in Attempts \cup {Nothing}
         /\ rows[k] = Cache!NoRow \/ rows[k] \in Stores
BY DEF CacheTyped, Stores, Cache!NoRow

LEMMA BeginGetTyped ==
  ASSUME CacheTyped, now \in Nat, NEW a \in Attempts, NEW k \in Keys, Cache!BeginGet(a, k)
  PROVE  /\ CacheTyped' /\ lookup[a] = Nothing /\ reply[a] = Nothing
         /\ lookup'[a].key = k /\ \A b \in Attempts \ {a} : lookup'[b] = lookup[b]
         /\ UNCHANGED <<rows, storing, reply>>
<1>1. now - TimeToLive \in Int
  BY NothingIsNoAnswer
<1>2. [key |-> k, cutoff |-> now - TimeToLive, expired |-> FALSE] \in
          [key : Keys, cutoff : Int, expired : BOOLEAN]
  BY <1>1
<1>3. QED
  BY <1>2 DEF CacheTyped, Cache!BeginGet

LEMMA BeginPutTyped ==
  ASSUME CacheTyped, now \in Nat, NEW a \in Attempts, NEW k \in Keys, Cache!BeginPut(a, k, a)
  PROVE  /\ CacheTyped'
         /\ storing'[a].key = k /\ storing'[a].row.answer = a
         /\ \A b \in Attempts \ {a} : storing'[b] = storing[b]
         /\ UNCHANGED <<rows, lookup, reply>>
<1>1. [key |-> k, row |-> [answer |-> a, createdAt |-> now]] \in [key : Keys, row : Stores]
  BY DEF Stores
<1>2. QED
  BY <1>1 DEF CacheTyped, Cache!BeginPut

\* The statements of cache_get and cache_put, as what they do to the table
\* and to the attempt they are carried out for.
Reads(a) ==
    /\ lookup[a] # Nothing /\ lookup'[a].key = lookup[a].key
    /\ \A b \in Attempts \ {a} : lookup'[b] = lookup[b]
    /\ UNCHANGED <<rows, storing, reply>>
Replies(a, found) ==
    /\ lookup[a] # Nothing
    /\ lookup' = [lookup EXCEPT ![a] = Nothing]
    /\ reply' = [reply EXCEPT ![a] = [key |-> lookup[a].key, answer |-> found]]
    /\ UNCHANGED storing
Writes(a) ==
    /\ storing[a] # Nothing
    /\ rows' = [rows EXCEPT ![storing[a].key] = storing[a].row]
    /\ storing' = [storing EXCEPT ![a] = Nothing]
    /\ UNCHANGED <<lookup, reply>>

LEMMA CacheStepCases ==
  ASSUME CacheTyped, NEW a \in Attempts, Cache!CacheStep(a)
  PROVE  /\ CacheTyped'
         /\ \/ Reads(a)
            \/ Replies(a, rows[lookup[a].key].answer) /\ UNCHANGED rows
            \/ Replies(a, Nothing) /\ rows' = [rows EXCEPT ![lookup[a].key] = Cache!NoRow]
            \/ Writes(a)
<1>1. CASE Cache!Select(a)
  <2>1. /\ lookup[a] # Nothing
        /\ lookup[a] \in [key : Keys, cutoff : Int, expired : BOOLEAN]
        /\ lookup[a].key \in Keys
    BY <1>1 DEF Cache!Select, CacheTyped
  <2>2. CASE lookup' = [lookup EXCEPT ![a].expired = TRUE] /\ UNCHANGED <<reply, rows, storing>>
    <3>1. /\ lookup'[a] \in [key : Keys, cutoff : Int, expired : BOOLEAN]
          /\ lookup'[a].key = lookup[a].key
          /\ \A b \in Attempts \ {a} : lookup'[b] = lookup[b]
      BY <2>1, <2>2 DEF CacheTyped
    <3>2. CacheTyped'
      BY <2>1, <2>2, <3>1 DEF CacheTyped
    <3>3. QED
      BY <2>1, <2>2, <3>1, <3>2 DEF Reads
  <2>3. CASE /\ lookup' = [lookup EXCEPT ![a] = Nothing]
             /\ Cache!Answer(a, lookup[a].key, rows[lookup[a].key].answer)
             /\ UNCHANGED <<rows, storing>>
    <3>1. rows[lookup[a].key].answer \in Attempts \cup {Nothing}
      BY <2>1, RowTyped
    <3>2. CacheTyped'
      BY <2>1, <2>3, <3>1 DEF CacheTyped, Cache!Answer
    <3>3. QED
      BY <2>1, <2>3, <3>2 DEF Replies, Cache!Answer
  <2>4. QED
    BY <1>1, <2>2, <2>3 DEF Cache!Select
<1>2. CASE Cache!DeleteExpired(a)
  <2>1. /\ lookup[a] # Nothing /\ lookup[a].key \in Keys
        /\ rows' = [rows EXCEPT ![lookup[a].key] = Cache!NoRow]
        /\ lookup' = [lookup EXCEPT ![a] = Nothing]
        /\ reply' = [reply EXCEPT ![a] = [key |-> lookup[a].key, answer |-> Nothing]]
        /\ UNCHANGED storing
    BY <1>2 DEF Cache!DeleteExpired, Cache!Answer, CacheTyped
  <2>2. CacheTyped'
    BY <2>1 DEF CacheTyped
  <2>3. QED
    BY <2>1, <2>2 DEF Replies
<1>3. CASE Cache!Upsert(a)
  <2>1. storing[a].key \in Keys /\ storing[a].row \in Stores
    BY <1>3 DEF Cache!Upsert, CacheTyped
  <2>2. CacheTyped'
    BY <1>3, <2>1 DEF Cache!Upsert, CacheTyped
  <2>3. QED
    BY <1>3, <2>2 DEF Cache!Upsert, Writes
<1>4. QED
  BY <1>1, <1>2, <1>3 DEF Cache!CacheStep

----------------------------------------------------------------------------
(* What a step that leaves most alone keeps                                *)

Lasting == \A b \in Attempts : attempt[b].pc \in Writing => Frozen(b)

LEMMA StillChats ==
  ASSUME ChatsTyped, UNCHANGED <<chat, now>>
  PROVE  ChatsTyped' /\ SamePhases
BY DEF ChatsTyped, SamePhases

LEMMA AloneLasting ==
  ASSUME NEW a \in Attempts, Alone(a), attempt[a].pc \in Writing => Frozen(a)
  PROVE  Lasting
BY DEF Alone, Lasting, Frozen, SameAnswer

LEMMA OthersStage ==
  ASSUME Stages, NEW a \in Attempts, Alone(a), Stage(a)',
         \A b \in Attempts \ {a} : lookup'[b] = lookup[b] /\ reply'[b] = reply[b]
  PROVE  \A b \in Attempts : Stage(b)'
<1>1. ASSUME NEW b \in Attempts \ {a} PROVE Stage(b)'
  <2>1. Stage(b) /\ attempt'[b] = attempt[b]
    BY DEF Stages, Alone
  <2>2. QED
    BY <2>1 DEF Stage, KeyOf
<1>2. QED
  BY <1>1

LEMMA UnopenedKept ==
  ASSUME Unopened, SamePhases, NEW a \in Attempts, Alone(a), attempt[a].pc # "unused"
  PROVE  Unopened'
<1>1. ASSUME NEW c \in Chats, NEW n \in {1, 2}, attempt[<<c, n>>].pc = "unused"
      PROVE  attempt'[<<c, n>>].pc = "unused"
  <2>1. <<c, n>> \in Attempts \ {a}
    BY <1>1 DEF Attempts
  <2>2. QED
    BY <1>1, <2>1 DEF Alone
<1>2. QED
  BY <1>1 DEF Unopened, SamePhases

LEMMA WroteKept ==
  ASSUME Lasting, NEW b, NEW k, Wrote(b, k)
  PROVE  Wrote(b, k)'
BY DEF Lasting, Frozen, SameAnswer, Wrote, KeyOf

LEMMA TracedKept ==
  ASSUME Stages, Traced, Lasting, UNCHANGED <<rows, reply>>,
         \A b \in Attempts :
             storing'[b] = storing[b] \/ Wrote(storing'[b].row.answer, storing'[b].key),
         \A b \in Attempts : attempt'[b].kind = "cached" =>
             attempt[b].kind = "cached" \/ Wrote(attempt'[b].served, KeyOf(b)')
  PROVE  Traced'
<1>1. ASSUME NEW b \in Attempts, attempt'[b].kind = "cached"
      PROVE  Wrote(attempt[b].served, KeyOf(b))'
  <2>1. CASE attempt[b].kind = "cached"
    <3>1. Wrote(attempt[b].served, KeyOf(b))
      BY <2>1 DEF Traced
    <3>2. Frozen(b)
      BY <2>1 DEF Stages, Stage, Lasting
    <3>3. attempt'[b].served = attempt[b].served /\ KeyOf(b)' = KeyOf(b)
      BY <3>2 DEF Frozen, SameAnswer, KeyOf
    <3>4. QED
      BY <3>1, <3>3, WroteKept DEF Wrote, KeyOf
  <2>2. CASE Wrote(attempt'[b].served, KeyOf(b)')
    BY <2>2, WroteKept DEF Wrote, KeyOf
  <2>3. QED
    BY <1>1, <2>1, <2>2
<1>2. ASSUME NEW k \in Keys, rows'[k].answer # Nothing
      PROVE  Wrote(rows[k].answer, k)'
  BY <1>2, WroteKept DEF Traced, Wrote, KeyOf
<1>3. ASSUME NEW b \in Attempts, storing'[b] # Nothing
      PROVE  Wrote(storing[b].row.answer, storing[b].key)'
  <2>1. Wrote(storing'[b].row.answer, storing'[b].key)
    BY <1>3 DEF Traced
  <2>2. QED
    BY <2>1, WroteKept DEF Wrote, KeyOf
<1>4. ASSUME NEW b \in Attempts, reply'[b] # Nothing, reply'[b].answer # Nothing
      PROVE  Wrote(reply[b].answer, reply[b].key)'
  BY <1>4, WroteKept DEF Traced, Wrote, KeyOf
<1>5. QED
  BY <1>1, <1>2, <1>3, <1>4 DEF Traced

\* The parts of the state that a step of handle_query mostly leaves alone.
LEMMA StillTyped ==
  ASSUME Typed
  PROVE  /\ UNCHANGED memory => MemoryTyped'
         /\ UNCHANGED ledger => LedgerTyped'
         /\ UNCHANGED cache => CacheTyped'
BY DEF Typed, memory, cache, MemoryTyped, LedgerTyped, CacheTyped

LEMMA CountedKept ==
  ASSUME Counted, NEW a \in Attempts, Alone(a), UNCHANGED ledger,
         attempt'[a].pc \in Accounting => attempt[a].pc \in Accounting,
         attempt'[a].kind = attempt[a].kind, attempt'[a].own = attempt[a].own,
         attempt'[a].tokens = attempt[a].tokens, attempt'[a].shared = attempt[a].shared
  PROVE  Counted'
<1>1. ASSUME NEW b \in Attempts
      PROVE  /\ attempt'[b].pc \in Accounting => attempt[b].pc \in Accounting
             /\ attempt'[b].kind = attempt[b].kind /\ attempt'[b].own = attempt[b].own
             /\ attempt'[b].tokens = attempt[b].tokens /\ attempt'[b].shared = attempt[b].shared
  BY DEF Alone
<1>2. QED
  BY <1>1 DEF Counted, TokensOwn, SameId, Question

\* Closing the entry of an attempt that stops accounting to it.
LEMMA CountedClosed ==
  ASSUME Counted, NEW a \in Attempts, Alone(a), LedgerTyped, ledger' = Closed(Question(a).id),
         attempt[a].pc \in Accounting, attempt'[a].pc \notin Accounting,
         attempt'[a].shared = attempt[a].shared,
         ~attempt[a].shared => attempt'[a].tokens = IF attempt'[a].kind = "cached" THEN 0
                                                     ELSE attempt'[a].own
  PROVE  Counted'
<1>1. ASSUME NEW b \in Attempts, b # a PROVE attempt'[b] = attempt[b]
  BY <1>1 DEF Alone
<1>2. ASSUME NEW b \in Attempts, attempt'[b].pc \in Accounting, ~attempt'[b].shared
      PROVE  ledger'[Question(b).id] = attempt'[b].own
  <2>1. b # a /\ attempt[b].pc \in Accounting /\ ~attempt[b].shared
    BY <1>1, <1>2
  <2>2. Question(b).id # Question(a).id
    BY <2>1 DEF Counted, SameId
  <2>3. ledger'[Question(b).id] = ledger[Question(b).id]
    BY <2>2, QuestionTyped DEF Closed, LedgerTyped
  <2>4. QED
    BY <1>1, <2>1, <2>3 DEF Counted
<1>3. ASSUME NEW b \in Attempts, NEW d \in Attempts, b # d, SameId(b, d),
             attempt'[b].pc \in Accounting, attempt'[d].pc \in Accounting
      PROVE  attempt'[b].shared /\ attempt'[d].shared
  BY <1>1, <1>3 DEF Counted
<1>4. TokensOwn'
  BY <1>1 DEF Counted, TokensOwn
<1>5. QED
  BY <1>2, <1>3, <1>4 DEF Counted, SameId, Question

----------------------------------------------------------------------------
(* Every action keeps the invariant                                        *)

LEMMA GetContextKeeps ==
  ASSUME ChatInv, NEW a \in Attempts, GetContext(a)
  PROVE  ChatInv'
<1>1. /\ Typed /\ Stages /\ Traced /\ Counted /\ AttemptsTyped /\ MemoryTyped /\ CacheTyped
      /\ ChatsTyped /\ now \in Nat /\ graph \in Nat /\ Stage(a) /\ Unopened
      /\ UNCHANGED <<chat, memory, ledger, graph, now>>
  BY DEF ChatInv, Typed, ChatsTyped, Stages, GetContext
<1>2. /\ AttemptsTyped' /\ Alone(a) /\ attempt[a].pc = "context"
      /\ attempt'[a].pc \in {"looking", "route"}
      /\ attempt'[a].about \subseteq Entities
      /\ attempt'[a].key = KeyOf(a)'
      /\ attempt'[a].kind = attempt[a].kind /\ attempt'[a].own = attempt[a].own
      /\ attempt'[a].tokens = attempt[a].tokens /\ attempt'[a].shared = attempt[a].shared
      /\ \/ UNCHANGED cache
         \/ Cache!BeginGet(a, attempt'[a].key)
  BY <1>1, GetContextEffect
<1>3. /\ CacheTyped' /\ UNCHANGED <<rows, storing, reply>>
      /\ lookup[a] = Nothing /\ reply[a] = Nothing
      /\ lookup'[a] # Nothing => lookup'[a].key = attempt'[a].key
      /\ \A b \in Attempts \ {a} : lookup'[b] = lookup[b]
  <2>1. lookup[a] = Nothing /\ reply[a] = Nothing
    BY <1>1, <1>2 DEF Stage
  <2>2. CASE UNCHANGED cache
    BY <1>1, <2>1, <2>2, StillTyped DEF cache
  <2>3. CASE Cache!BeginGet(a, attempt'[a].key)
    <3>1. attempt'[a].key \in Keys
      BY <1>2, QuestionTyped DEF KeyOf
    <3>2. QED
      BY <1>1, <2>1, <2>3, <3>1, BeginGetTyped
  <2>4. QED
    BY <1>2, <2>2, <2>3
<1>4. Typed'
  BY <1>1, <1>2, <1>3, StillTyped, StillChats DEF Typed
<1>5. Stages'
  <2>1. Stage(a)'
    BY <1>1, <1>2, <1>3 DEF Stage, Writing
  <2>2. QED
    BY <1>1, <1>2, <1>3, <2>1, OthersStage, UnopenedKept, StillChats DEF Stages
<1>6. Traced'
  <2>1. Lasting
    BY <1>2, AloneLasting DEF Writing
  <2>2. \A b \in Attempts : attempt'[b].kind = attempt[b].kind
    BY <1>2 DEF Alone
  <2>3. QED
    BY <1>1, <1>3, <2>1, <2>2, TracedKept
<1>7. Counted'
  BY <1>1, <1>2, CountedKept DEF Accounting
<1>8. QED
  BY <1>4, <1>5, <1>6, <1>7 DEF ChatInv

LEMMA LookedUpKeeps ==
  ASSUME ChatInv, NEW a \in Attempts, LookedUp(a)
  PROVE  ChatInv'
<1>1. /\ Typed /\ Stages /\ Traced /\ Counted /\ AttemptsTyped /\ CacheTyped /\ LedgerTyped
      /\ ChatsTyped /\ graph \in Nat /\ Stage(a) /\ Unopened
      /\ UNCHANGED <<chat, memory, graph, now, cache>>
  BY DEF ChatInv, Typed, Stages, LookedUp
<1>2. /\ AttemptsTyped' /\ Alone(a) /\ attempt[a].pc = "looking"
      /\ attempt'[a].about = attempt[a].about /\ attempt'[a].key = attempt[a].key
      /\ attempt'[a].own = attempt[a].own /\ attempt'[a].tokens = attempt[a].tokens
      /\ attempt'[a].shared = attempt[a].shared
  BY <1>1, LookedUpEffect
<1>3. \/ /\ attempt'[a].pc = "done" /\ attempt'[a].kind = "cached"
         /\ reply[a] # Nothing /\ reply[a].answer # Nothing
         /\ attempt'[a].served = reply[a].answer
         /\ ledger' = Closed(Question(a).id)
      \/ attempt'[a].pc = "route" /\ SameAnswer(a) /\ UNCHANGED ledger
  BY <1>1, LookedUpEffect
<1>4. /\ UNCHANGED <<rows, lookup, storing, reply>>
      /\ attempt[a].kind = "none" /\ attempt[a].tokens = 0 /\ attempt[a].own = 0
      /\ attempt[a].key = KeyOf(a) /\ KeyOf(a)' = KeyOf(a)
      /\ reply[a] # Nothing => reply[a].key = KeyOf(a)
      /\ lookup[a] # Nothing => lookup[a].key = KeyOf(a)
  BY <1>1, <1>2 DEF Stage, KeyOf, cache, Writing
<1>5. Typed'
  <2>1. LedgerTyped'
    BY <1>1, <1>3, StillTyped, QuestionTyped DEF Closed, LedgerTyped
  <2>2. QED
    BY <1>1, <1>2, <2>1, StillTyped, StillChats DEF Typed
<1>6. Stages'
  <2>1. Stage(a)'
    BY <1>2, <1>3, <1>4 DEF Stage, Writing, SameAnswer
  <2>2. QED
    BY <1>1, <1>2, <1>4, <2>1, OthersStage, UnopenedKept, StillChats DEF Stages
<1>7. Lasting
  BY <1>2, AloneLasting DEF Writing
<1>8. Traced'
  <2>1. CASE attempt'[a].kind # "cached"
    <3>1. \A b \in Attempts : attempt'[b].kind = "cached" => attempt[b].kind = "cached"
      BY <1>2, <2>1 DEF Alone
    <3>2. QED
      BY <1>1, <1>4, <1>7, <3>1, TracedKept
  <2>2. CASE attempt'[a].kind = "cached"
    <3>1. Wrote(attempt'[a].served, KeyOf(a)')
      BY <1>1, <1>3, <1>4, <2>2 DEF Traced, SameAnswer
    <3>2. \A b \in Attempts : attempt'[b].kind = "cached" =>
             attempt[b].kind = "cached" \/ Wrote(attempt'[b].served, KeyOf(b)')
      BY <1>2, <3>1 DEF Alone
    <3>3. QED
      BY <1>1, <1>4, <1>7, <3>2, TracedKept
  <2>3. QED
    BY <2>1, <2>2
<1>9. Counted'
  <2>1. CASE UNCHANGED ledger /\ SameAnswer(a)
    BY <1>1, <1>2, <2>1, CountedKept DEF Accounting, SameAnswer
  <2>2. CASE attempt'[a].pc = "done" /\ attempt'[a].kind = "cached" /\ ledger' = Closed(Question(a).id)
    BY <1>1, <1>2, <1>4, <2>2, CountedClosed DEF Accounting
  <2>3. QED
    BY <1>3, <2>1, <2>2
<1>10. QED
  BY <1>5, <1>6, <1>8, <1>9 DEF ChatInv

\* The steps that change nothing that the cache or the ledger know.
LEMMA SameAnswerKeeps ==
  ASSUME ChatInv, NEW a \in Attempts, Alone(a), SameAnswer(a), SamePhases,
         AttemptsTyped', ChatsTyped', MemoryTyped', CacheTyped', graph' \in Nat,
         UNCHANGED <<ledger, rows, lookup, reply>>,
         \A b \in Attempts :
             storing'[b] = storing[b] \/ Wrote(storing'[b].row.answer, storing'[b].key),
         attempt[a].pc # "unused",
         \/ attempt'[a].pc \in {attempt[a].pc, "dead"}
         \/ attempt[a].pc \in {"user", "assistant", "storing"}
            /\ attempt'[a].pc \in {"user", "assistant", "storing", "done"}
  PROVE  ChatInv'
<1>1. Typed /\ Stages /\ Traced /\ Counted /\ LedgerTyped /\ Stage(a) /\ Unopened
  BY DEF ChatInv, Typed, Stages
<1>2. Typed'
  BY <1>1, StillTyped DEF Typed
<1>3. Stages'
  <2>1. attempt'[a].key = attempt[a].key /\ KeyOf(a)' = KeyOf(a)
    BY DEF SameAnswer, KeyOf
  <2>2. Stage(a)'
    BY <1>1, <2>1 DEF Stage, Writing, SameAnswer
  <2>3. QED
    BY <1>1, <2>2, OthersStage, UnopenedKept DEF Stages
<1>4. Traced'
  <2>1. Lasting
    BY AloneLasting DEF Writing, Frozen
  <2>2. \A b \in Attempts : attempt'[b].kind = attempt[b].kind
    BY DEF Alone, SameAnswer
  <2>3. QED
    BY <1>1, <2>1, <2>2, TracedKept
<1>5. Counted'
  BY <1>1, CountedKept DEF Accounting, SameAnswer
<1>6. QED
  BY <1>2, <1>3, <1>4, <1>5 DEF ChatInv

LEMMA StreamTokenKeeps ==
  ASSUME ChatInv, NEW a \in Attempts, StreamToken(a)
  PROVE  ChatInv'
<1>1. /\ AttemptsTyped /\ ChatsTyped /\ Typed /\ graph \in Nat
      /\ UNCHANGED <<memory, ledger, graph, now, cache>>
      /\ Emit(a, <<Token(a, attempt[a].sent + 1)>>)
  BY DEF ChatInv, Typed, StreamToken
<1>2. <<Token(a, attempt[a].sent + 1)>> \in Seq(Events)
  <2>1. attempt[a].sent + 1 \in Nat
    BY <1>1, ChatAssumption DEF AttemptsTyped, AttemptRecord
  <2>2. QED
    BY <2>1, EventTyped, AttemptsAreResults
<1>3. ChatsTyped' /\ SamePhases
  BY <1>1, <1>2, EmitTyped
<1>4. /\ AttemptsTyped' /\ Alone(a) /\ attempt[a].pc \in Running
      /\ attempt'[a].pc = attempt[a].pc /\ SameAnswer(a)
  BY <1>1, StreamTokenEffect
<1>5. MemoryTyped' /\ CacheTyped'
  BY <1>1, StillTyped
<1>6. QED
  BY <1>1, <1>3, <1>4, <1>5, SameAnswerKeeps DEF cache, Running, Accounting

LEMMA DieKeeps ==
  ASSUME ChatInv, NEW a \in Attempts, Die(a)
  PROVE  ChatInv'
<1>1. /\ AttemptsTyped /\ ChatsTyped /\ Typed /\ graph \in Nat
      /\ UNCHANGED <<chat, memory, ledger, graph, now, cache>>
      /\ attempt[a].pc \in Running /\ Set(a, [pc |-> "dead"])
  BY DEF ChatInv, Typed, Die
<1>2. AttemptsTyped' /\ Alone(a) /\ attempt'[a].pc = "dead" /\ SameAnswer(a)
  BY <1>1, DieEffect
<1>3. ChatsTyped' /\ SamePhases /\ MemoryTyped' /\ CacheTyped'
  BY <1>1, StillTyped, StillChats
<1>4. QED
  BY <1>1, <1>2, <1>3, SameAnswerKeeps DEF cache, Running, Accounting

LEMMA StoredKeeps ==
  ASSUME ChatInv, NEW a \in Attempts, Stored(a)
  PROVE  ChatInv'
<1>1. /\ AttemptsTyped /\ ChatsTyped /\ Typed /\ graph \in Nat
      /\ UNCHANGED <<chat, memory, ledger, graph, now, cache>>
  BY DEF ChatInv, Typed, Stored
<1>2. /\ AttemptsTyped' /\ Alone(a) /\ attempt[a].pc = "storing"
      /\ attempt'[a].pc = "done" /\ SameAnswer(a)
  BY <1>1, StoredEffect
<1>3. ChatsTyped' /\ SamePhases /\ MemoryTyped' /\ CacheTyped'
  BY <1>1, StillTyped, StillChats
<1>4. QED
  BY <1>1, <1>2, <1>3, SameAnswerKeeps DEF cache

LEMMA AppendTurnKeeps ==
  ASSUME ChatInv, NEW a \in Attempts, AppendTurn(a)
  PROVE  ChatInv'
<1>1. /\ AttemptsTyped /\ ChatsTyped /\ MemoryTyped /\ CacheTyped /\ Typed
      /\ graph \in Nat /\ now \in Nat /\ Stage(a)
      /\ UNCHANGED <<chat, ledger, graph, now>>
  BY DEF ChatInv, Typed, ChatsTyped, Stages, AppendTurn
<1>2. /\ AttemptsTyped' /\ Alone(a) /\ attempt[a].pc \in {"user", "assistant"}
      /\ attempt'[a].pc \in {"user", "assistant", "storing"} /\ SameAnswer(a)
      /\ UNCHANGED cache \/ Cache!BeginPut(a, attempt[a].key, a)
  BY <1>1, AppendTurnEffect
<1>3. ChatsTyped' /\ SamePhases
  BY <1>1, StillChats
<1>4. MemoryTyped'
  <2>1. PICK role \in {"user", "assistant"} :
           \/ Append1(Turn(a, role)) /\ UNCHANGED landing
           \/ landing' = landing \cup {Turn(a, role)} /\ UNCHANGED turns
           \/ UNCHANGED memory
    BY DEF AppendTurn, memory
  <2>2. Turn(a, role) \in Turns /\ Turn(a, role).of = a
    BY DEF Turn, Turns
  <2>3. CASE Append1(Turn(a, role)) /\ UNCHANGED landing
    <3>1. turns[Question(a).session] \in Seq(Turns)
      BY <1>1, QuestionTyped DEF MemoryTyped
    <3>2. Append(turns[Question(a).session], Turn(a, role)) \in Seq(Turns)
      BY <2>2, <3>1
    <3>3. QED
      BY <1>1, <2>2, <2>3, <3>2 DEF Append1, MemoryTyped
  <2>4. QED
    BY <1>1, <2>1, <2>2, <2>3 DEF MemoryTyped, memory
<1>5. /\ CacheTyped' /\ UNCHANGED <<rows, lookup, reply>>
      /\ \A b \in Attempts :
             storing'[b] = storing[b] \/ Wrote(storing'[b].row.answer, storing'[b].key)
  <2>1. CASE UNCHANGED cache
    BY <1>1, <2>1, StillTyped DEF cache
  <2>2. CASE Cache!BeginPut(a, attempt[a].key, a)
    <3>1. attempt[a].key = KeyOf(a) /\ attempt[a].key \in Keys
      BY <1>1, <1>2, QuestionTyped DEF Stage, KeyOf, AttemptsTyped, AttemptRecord
    <3>2. Wrote(a, attempt[a].key)
      BY <1>1, <1>2, <3>1 DEF Wrote, Stage, Writing
    <3>3. QED
      BY <1>1, <2>2, <3>1, <3>2, BeginPutTyped
  <2>3. QED
    BY <1>2, <2>1, <2>2
<1>6. QED
  BY <1>1, <1>2, <1>3, <1>4, <1>5, SameAnswerKeeps

LEMMA RetrieveEvents ==
  ASSUME ChatsTyped, NEW a \in Attempts, Retrieve(a)
  PROVE  ChatsTyped' /\ SamePhases
<1>1. CASE UNCHANGED chat
  BY <1>1, StillChats DEF Retrieve
<1>2. ASSUME NEW rounds \in 1 .. MaxRounds,
             Emit(a, [i \in 1 .. rounds |-> Event("routing", a)] \o <<Event("agent_result", a)>>)
      PROVE  ChatsTyped' /\ SamePhases
  <2>1. rounds \in Nat
    BY ChatAssumption
  <2>2. Event("routing", a) \in Events /\ Event("agent_result", a) \in Events
    BY EventTyped, AttemptsAreResults
  <2>3. [i \in 1 .. rounds |-> Event("routing", a)] \in Seq(Events)
    BY <2>1, <2>2
  <2>4. <<Event("agent_result", a)>> \in Seq(Events)
    BY <2>2
  <2>5. [i \in 1 .. rounds |-> Event("routing", a)] \o <<Event("agent_result", a)>> \in Seq(Events)
    BY <2>3, <2>4
  <2>6. QED
    BY <1>2, <2>5, EmitTyped DEF Retrieve
<1>3. QED
  BY <1>1, <1>2 DEF Retrieve

\* What an attempt that is alone records is all that its entry holds.
LEMMA CountedRecorded ==
  ASSUME Counted, LedgerTyped, NEW a \in Attempts, Alone(a), NEW calls \in Nat, Record(a, calls),
         attempt[a].pc \in Accounting, attempt[a].own = 0, attempt[a].kind = "none",
         attempt'[a].own = calls, attempt'[a].kind = "none", attempt'[a].shared = attempt[a].shared
  PROVE  LedgerTyped' /\ Counted'
<1>1. ASSUME NEW b \in Attempts, b # a PROVE attempt'[b] = attempt[b]
  BY <1>1 DEF Alone
<1>2. /\ LedgerTyped'
      /\ \A i \in Ids : i # Question(a).id => ledger'[i] = ledger[i]
      /\ ledger[Question(a).id] = 0 => ledger'[Question(a).id] = calls
  <2>1. Question(a).id \in Ids /\ Nothing \notin Nat
    BY QuestionTyped, ChatAssumption
  <2>2. QED
    BY <2>1 DEF Record, LedgerTyped
<1>3. ASSUME NEW b \in Attempts, attempt'[b].pc \in Accounting, ~attempt'[b].shared
      PROVE  ledger'[Question(b).id] = attempt'[b].own
  <2>1. CASE b = a
    BY <1>2, <1>3, <2>1 DEF Counted
  <2>2. CASE b # a
    <3>1. attempt[b].pc \in Accounting /\ ~attempt[b].shared /\ attempt'[b] = attempt[b]
      BY <1>1, <1>3, <2>2
    <3>2. Question(b).id # Question(a).id
      BY <2>2, <3>1 DEF Counted, SameId
    <3>3. QED
      BY <1>2, <3>1, <3>2, QuestionTyped DEF Counted
  <2>3. QED
    BY <2>1, <2>2
<1>4. ASSUME NEW b \in Attempts, NEW d \in Attempts, b # d, SameId(b, d),
             attempt'[b].pc \in Accounting, attempt'[d].pc \in Accounting
      PROVE  attempt'[b].shared /\ attempt'[d].shared
  BY <1>1, <1>4 DEF Counted
<1>5. TokensOwn'
  BY <1>1 DEF Counted, TokensOwn
<1>6. QED
  BY <1>2, <1>3, <1>4, <1>5 DEF Counted, SameId, Question

LEMMA RetrieveKeeps ==
  ASSUME ChatInv, NEW a \in Attempts, Retrieve(a)
  PROVE  ChatInv'
<1>1. /\ AttemptsTyped /\ ChatsTyped /\ LedgerTyped /\ Typed /\ Stages /\ Traced /\ Counted
      /\ graph \in Nat /\ Stage(a) /\ Unopened
      /\ UNCHANGED <<memory, graph, now, cache>>
  BY DEF ChatInv, Typed, Stages, Retrieve
<1>2. /\ AttemptsTyped' /\ Alone(a) /\ attempt[a].pc = "route"
      /\ attempt'[a].about = attempt[a].about /\ attempt'[a].key = attempt[a].key
      /\ attempt'[a].kind = attempt[a].kind /\ attempt'[a].tokens = attempt[a].tokens
      /\ attempt'[a].shared = attempt[a].shared
  BY <1>1, RetrieveEffect
<1>3. \/ /\ attempt'[a].pc = "synthesis" /\ attempt'[a].own \in Nat
         /\ Record(a, attempt'[a].own)
      \/ attempt'[a].pc = "dead" /\ SameAnswer(a) /\ UNCHANGED ledger
  BY <1>1, RetrieveEffect
<1>4. ChatsTyped' /\ SamePhases /\ MemoryTyped' /\ CacheTyped'
  BY <1>1, RetrieveEvents, StillTyped
<1>5. UNCHANGED <<rows, lookup, storing, reply>>
  BY <1>1 DEF cache
<1>6. CASE attempt'[a].pc = "dead" /\ SameAnswer(a) /\ UNCHANGED ledger
  BY <1>1, <1>2, <1>4, <1>5, <1>6, SameAnswerKeeps
<1>7. CASE /\ attempt'[a].pc = "synthesis" /\ attempt'[a].own \in Nat
           /\ Record(a, attempt'[a].own)
  <2>1. attempt[a].own = 0 /\ attempt[a].kind = "none" /\ attempt[a].tokens = 0
    BY <1>1, <1>2 DEF Stage, Writing
  <2>2. LedgerTyped' /\ Counted'
    BY <1>1, <1>2, <1>7, <2>1, CountedRecorded DEF Accounting
  <2>3. Stages'
    <3>1. KeyOf(a)' = KeyOf(a)
      BY <1>2 DEF KeyOf
    <3>2. Stage(a)'
      BY <1>1, <1>2, <1>5, <1>7, <2>1, <3>1 DEF Stage, Writing
    <3>3. QED
      BY <1>1, <1>2, <1>4, <1>5, <3>2, OthersStage, UnopenedKept DEF Stages
  <2>4. Traced'
    <3>1. Lasting
      BY <1>2, AloneLasting DEF Writing
    <3>2. \A b \in Attempts : attempt'[b].kind = attempt[b].kind
      BY <1>2 DEF Alone
    <3>3. QED
      BY <1>1, <1>5, <3>1, <3>2, TracedKept
  <2>5. QED
    BY <1>1, <1>2, <1>4, <2>2, <2>3, <2>4 DEF ChatInv, Typed
<1>8. QED
  BY <1>3, <1>6, <1>7

LEMMA SynthesizeKeeps ==
  ASSUME ChatInv, NEW a \in Attempts, Synthesize(a)
  PROVE  ChatInv'
<1>1. /\ AttemptsTyped /\ ChatsTyped /\ LedgerTyped /\ Typed /\ Stages /\ Traced /\ Counted
      /\ graph \in Nat /\ Stage(a) /\ Unopened
      /\ UNCHANGED <<chat, memory, graph, now, cache>>
  BY DEF ChatInv, Typed, Stages, Synthesize
<1>2. attempt[a].pc = "synthesis"
  BY <1>1, SynthesizeEffect
<1>3. PICK kind \in Kinds \ {"none", "cached"}, calls \in Nat, late \in BOOLEAN :
         Answered(a, kind, calls, late)
  BY <1>1, SynthesizeEffect
<1>4. /\ AttemptsTyped' /\ Alone(a)
      /\ attempt'[a].pc \in {"user", "done"}
      /\ attempt'[a].pc = "user" => attempt'[a].mem
      /\ attempt'[a].kind = kind
      /\ attempt'[a].own = attempt[a].own + calls
      /\ attempt'[a].tokens = Total(Question(a).id) + calls
      /\ attempt'[a].about = attempt[a].about /\ attempt'[a].key = attempt[a].key
      /\ attempt'[a].shared = attempt[a].shared
      /\ ledger' = Closed(Question(a).id)
  BY <1>1, <1>3, AnsweredEffect
<1>5. ChatsTyped' /\ SamePhases
  BY <1>1, StillChats
<1>6. MemoryTyped' /\ CacheTyped' /\ UNCHANGED <<rows, lookup, storing, reply>>
  BY <1>1, StillTyped DEF cache
<1>7. LedgerTyped'
  BY <1>1, <1>4, QuestionTyped DEF Closed, LedgerTyped
<1>8. Stages'
  <2>1. KeyOf(a)' = KeyOf(a)
    BY <1>4 DEF KeyOf
  <2>2. Stage(a)'
    BY <1>1, <1>2, <1>4, <1>6, <2>1 DEF Stage, Writing
  <2>3. QED
    BY <1>1, <1>2, <1>4, <1>5, <1>6, <2>2, OthersStage, UnopenedKept DEF Stages
<1>9. Traced'
  <2>1. Lasting
    BY <1>2, <1>4, AloneLasting DEF Writing
  <2>2. \A b \in Attempts : attempt'[b].kind = "cached" => attempt[b].kind = "cached"
    BY <1>4 DEF Alone
  <2>3. QED
    BY <1>1, <1>6, <2>1, <2>2, TracedKept
<1>10. Counted'
  <2>1. ~attempt[a].shared => Total(Question(a).id) = attempt[a].own
    <3>1. attempt[a].own \in Nat /\ Nothing \notin Nat
      BY <1>1, ChatAssumption DEF AttemptsTyped, AttemptRecord
    <3>2. QED
      BY <1>1, <1>2, <3>1 DEF Counted, Total, Accounting
  <2>2. ~attempt[a].shared => attempt'[a].tokens = attempt'[a].own
    BY <1>4, <2>1
  <2>3. QED
    BY <1>1, <1>2, <1>4, <2>2, CountedClosed DEF Accounting
<1>11. QED
  BY <1>1, <1>4, <1>5, <1>6, <1>7, <1>8, <1>9, <1>10 DEF ChatInv, Typed

\* Opening marks other attempts as shared, and nothing else.
LEMMA OpenOthers ==
  ASSUME AttemptsTyped, NEW a \in Attempts, Open(a), NEW b \in Attempts, b # a
  PROVE  /\ attempt'[b].pc = attempt[b].pc /\ attempt'[b].mem = attempt[b].mem
         /\ attempt'[b].key = attempt[b].key /\ attempt'[b].about = attempt[b].about
         /\ attempt'[b].own = attempt[b].own /\ attempt'[b].tokens = attempt[b].tokens
         /\ attempt'[b].kind = attempt[b].kind /\ attempt'[b].served = attempt[b].served
         /\ attempt'[b].tries = attempt[b].tries
         /\ attempt[b].pc \in Accounting /\ SameId(b, a) => attempt'[b].shared
         /\ ~(attempt[b].pc \in Accounting /\ SameId(b, a)) => attempt'[b].shared = attempt[b].shared
         /\ attempt[b].shared => attempt'[b].shared
<1>1. attempt[b] \in AttemptRecord
  BY DEF AttemptsTyped
<1>2. CASE attempt[b].pc \in Accounting /\ SameId(b, a)
  <2>1. attempt'[b] = [attempt[b] EXCEPT !.shared = TRUE]
    BY <1>2, OpenEffect
  <2>2. QED
    BY <1>1, <1>2, <2>1 DEF AttemptRecord
<1>3. CASE ~(attempt[b].pc \in Accounting /\ SameId(b, a))
  <2>1. attempt'[b] = attempt[b]
    BY <1>3, OpenEffect
  <2>2. QED
    BY <1>3, <2>1
<1>4. QED
  BY <1>2, <1>3

LEMMA OpeningKeeps ==
  ASSUME ChatInv, NEW a \in Attempts, attempt[a].pc = "unused", Open(a),
         UNCHANGED <<memory, cache>>, graph' \in Nat, ChatsTyped', Unopened'
  PROVE  ChatInv'
<1>1. /\ AttemptsTyped /\ LedgerTyped /\ Typed /\ Stages /\ Traced /\ Counted /\ Stage(a)
      /\ UNCHANGED <<rows, lookup, storing, reply>>
  BY DEF ChatInv, Typed, Stages, cache
<1>2. AttemptsTyped' /\ LedgerTyped' /\ MemoryTyped' /\ CacheTyped'
  BY <1>1, OpenTyped, StillTyped
<1>3. /\ attempt'[a].pc = "context" /\ attempt'[a].kind = "none"
      /\ attempt'[a].tokens = 0 /\ attempt'[a].own = 0
      /\ lookup[a] = Nothing /\ reply[a] = Nothing
  BY <1>1, OpenEffect DEF Stage
<1>4. ASSUME NEW b \in Attempts, b # a
      PROVE  /\ attempt'[b].pc = attempt[b].pc /\ attempt'[b].mem = attempt[b].mem
             /\ attempt'[b].key = attempt[b].key /\ attempt'[b].about = attempt[b].about
             /\ attempt'[b].own = attempt[b].own /\ attempt'[b].tokens = attempt[b].tokens
             /\ attempt'[b].kind = attempt[b].kind /\ attempt'[b].served = attempt[b].served
             /\ attempt[b].pc \in Accounting /\ SameId(b, a) => attempt'[b].shared
             /\ ~(attempt[b].pc \in Accounting /\ SameId(b, a)) => attempt'[b].shared = attempt[b].shared
             /\ attempt[b].shared => attempt'[b].shared
  BY <1>1, <1>4, OpenOthers
<1>5. ASSUME NEW b \in Attempts PROVE Stage(b)'
  <2>1. CASE b = a
    BY <1>1, <1>3, <2>1 DEF Stage, Writing
  <2>2. CASE b # a
    <3>1. Stage(b) /\ KeyOf(b)' = KeyOf(b)
      BY <1>1, <1>4, <2>2 DEF Stages, KeyOf
    <3>2. QED
      BY <1>1, <1>4, <2>2, <3>1 DEF Stage, Writing
  <2>3. QED
    BY <2>1, <2>2
<1>6. Traced'
  <2>1. Lasting
    BY <1>1, <1>4 DEF Lasting, Frozen, SameAnswer, Writing, Accounting
  <2>2. \A b \in Attempts : attempt'[b].kind = "cached" => attempt[b].kind = "cached"
    BY <1>3, <1>4
  <2>3. QED
    BY <1>1, <2>1, <2>2, TracedKept
<1>7. Counted'
  <2>1. ASSUME NEW b \in Attempts, NEW d \in Attempts, b # d, SameId(b, d),
               attempt'[b].pc \in Accounting, attempt'[d].pc \in Accounting
        PROVE  attempt'[b].shared /\ attempt'[d].shared
    <3>1. ASSUME NEW e \in Attempts, e # a, SameId(e, a), attempt[e].pc \in Accounting
          PROVE  attempt'[e].shared /\ attempt'[a].shared
      BY <1>1, <1>4, <3>1, OpenEffect
    <3>2. CASE b = a
      BY <1>4, <2>1, <3>1, <3>2 DEF SameId
    <3>3. CASE d = a
      BY <1>4, <2>1, <3>1, <3>3 DEF SameId
    <3>4. CASE b # a /\ d # a
      BY <1>1, <1>4, <2>1, <3>4 DEF Counted
    <3>5. QED
      BY <3>2, <3>3, <3>4
  <2>2. ASSUME NEW b \in Attempts, attempt'[b].pc \in Accounting, ~attempt'[b].shared
        PROVE  ledger'[Question(b).id] = attempt'[b].own
    <3>1. /\ \A i \in Ids : i # Question(a).id => ledger'[i] = ledger[i]
          /\ ledger'[Question(a).id] = 0
      BY <1>1, QuestionTyped DEF Open, LedgerTyped
    <3>2. CASE b = a
      BY <1>3, <3>1, <3>2
    <3>3. CASE b # a
      <4>1. attempt[b].pc \in Accounting /\ ~attempt[b].shared /\ ~SameId(b, a)
        BY <1>4, <2>2, <3>3
      <4>2. QED
        BY <1>1, <1>4, <3>1, <3>3, <4>1, QuestionTyped DEF Counted, SameId
    <3>4. QED
      BY <3>2, <3>3
  <2>3. TokensOwn'
    <3>1. ASSUME NEW b \in Attempts, attempt'[b].kind # "none", ~attempt'[b].shared
          PROVE  attempt'[b].tokens = IF attempt'[b].kind = "cached" THEN 0 ELSE attempt'[b].own
      <4>1. b # a
        BY <1>3, <3>1
      <4>2. attempt[b].kind # "none" /\ ~attempt[b].shared
        BY <1>4, <3>1, <4>1
      <4>3. QED
        BY <1>1, <1>4, <4>1, <4>2 DEF Counted, TokensOwn
    <3>2. QED
      BY <3>1 DEF TokensOwn
  <2>4. QED
    BY <2>1, <2>2, <2>3 DEF Counted, SameId, Question
<1>8. QED
  BY <1>1, <1>2, <1>5, <1>6, <1>7 DEF ChatInv, Typed, Stages

\* The steps of the gateway, the memory and the clock leave the attempts alone.
LEMMA OutsideKeeps ==
  ASSUME ChatInv, UNCHANGED <<attempt, ledger, cache>>,
         ChatsTyped', MemoryTyped', graph' \in Nat, Unopened'
  PROVE  ChatInv'
<1>1. /\ Typed /\ Stages /\ Traced /\ Counted /\ AttemptsTyped
      /\ UNCHANGED <<rows, lookup, storing, reply>>
  BY DEF ChatInv, Typed, cache
<1>2. Typed'
  BY <1>1, StillTyped DEF Typed, AttemptsTyped
<1>3. Stages'
  BY <1>1 DEF Stages, Stage, KeyOf
<1>4. Traced'
  <2>1. Lasting
    BY DEF Lasting, Frozen, SameAnswer
  <2>2. QED
    BY <1>1, <2>1, TracedKept
<1>5. Counted'
  BY <1>1 DEF Counted, TokensOwn
<1>6. QED
  BY <1>2, <1>3, <1>4, <1>5 DEF ChatInv

\* The gateway's step on chat c gives it the phase and the number of calls.
Becomes(c, phase, n) ==
    /\ ChatsTyped'
    /\ chat'[c].phase = phase /\ chat'[c].number = n
    /\ \A d \in Chats \ {c} : chat'[d] = chat[d]

LEMMA ChatSet ==
  ASSUME ChatsTyped, UNCHANGED now, NEW c \in Chats
  PROVE  /\ \A phase \in {"calling", "failed", "limited"}, n \in 0 .. 2 :
               chat' = [chat EXCEPT ![c].phase = phase, ![c].at = now, ![c].number = n] =>
                   Becomes(c, phase, n)
         /\ chat' = [chat EXCEPT ![c].phase = "failed"] => Becomes(c, "failed", chat[c].number)
         /\ chat' = [chat EXCEPT ![c].number = 2] => Becomes(c, chat[c].phase, 2)
         /\ chat' = [chat EXCEPT ![c].reading = FALSE] => Becomes(c, chat[c].phase, chat[c].number)
<1>1. chat[c] \in ChatRecord /\ chat[c].at <= now /\ now \in Nat /\ chat \in [Chats -> ChatRecord]
  BY DEF ChatsTyped
<1>2. ASSUME NEW x \in ChatRecord, x.at <= now,
             chat' = [chat EXCEPT ![c] = x]
      PROVE  Becomes(c, x.phase, x.number)
  BY <1>1, <1>2 DEF ChatsTyped, Becomes
<1>3. ASSUME NEW phase \in {"calling", "failed", "limited"}, NEW n \in 0 .. 2,
             chat' = [chat EXCEPT ![c].phase = phase, ![c].at = now, ![c].number = n]
      PROVE  Becomes(c, phase, n)
  <2> DEFINE x == [chat[c] EXCEPT !.phase = phase, !.at = now, !.number = n]
  <2>1. x \in ChatRecord /\ x.phase = phase /\ x.at = now /\ x.number = n
    BY <1>1 DEF ChatRecord
  <2>2. chat' = [chat EXCEPT ![c] = x]
    BY <1>1, <1>3
  <2> HIDE DEF x
  <2>3. x.at <= now
    BY <1>1, <2>1
  <2>4. QED
    BY <1>2, <2>1, <2>2, <2>3
<1>4. ASSUME chat' = [chat EXCEPT ![c].phase = "failed"] PROVE Becomes(c, "failed", chat[c].number)
  <2> DEFINE x == [chat[c] EXCEPT !.phase = "failed"]
  <2>1. x \in ChatRecord /\ x.phase = "failed" /\ x.at = chat[c].at /\ x.number = chat[c].number
    BY <1>1 DEF ChatRecord
  <2>2. chat' = [chat EXCEPT ![c] = x]
    BY <1>1, <1>4
  <2> HIDE DEF x
  <2>3. QED
    BY <1>1, <1>2, <2>1, <2>2
<1>5. ASSUME chat' = [chat EXCEPT ![c].number = 2] PROVE Becomes(c, chat[c].phase, 2)
  <2> DEFINE x == [chat[c] EXCEPT !.number = 2]
  <2>1. x \in ChatRecord /\ x.phase = chat[c].phase /\ x.at = chat[c].at /\ x.number = 2
    <3>1. \A y \in ChatRecord : LET z == [y EXCEPT !.number = 2]
                                IN  /\ z \in ChatRecord /\ z.phase = y.phase
                                    /\ z.at = y.at /\ z.number = 2
      BY DEF ChatRecord
    <3>2. QED
      BY <1>1, <3>1
  <2>2. chat' = [chat EXCEPT ![c] = x]
    BY <1>1, <1>5
  <2> HIDE DEF x
  <2>3. QED
    BY <1>1, <1>2, <2>1, <2>2
<1>6. ASSUME chat' = [chat EXCEPT ![c].reading = FALSE]
      PROVE  Becomes(c, chat[c].phase, chat[c].number)
  <2> DEFINE x == [chat[c] EXCEPT !.reading = FALSE]
  <2>1. /\ x \in ChatRecord /\ x.phase = chat[c].phase /\ x.at = chat[c].at
        /\ x.number = chat[c].number
    BY <1>1 DEF ChatRecord
  <2>2. chat' = [chat EXCEPT ![c] = x]
    BY <1>1, <1>6
  <2> HIDE DEF x
  <2>3. QED
    BY <1>1, <1>2, <2>1, <2>2
<1>7. QED
  BY <1>3, <1>4, <1>5, <1>6

LEMMA ArriveKeeps ==
  ASSUME ChatInv, NEW c \in Chats, Arrive(c)
  PROVE  ChatInv'
<1> DEFINE becomes(phase, n) == chat' = [chat EXCEPT ![c].phase = phase, ![c].at = now, ![c].number = n]
<1>1. /\ AttemptsTyped /\ ChatsTyped /\ Typed /\ Unopened /\ graph \in Nat /\ now \in Nat
      /\ chat[c].phase = "new" /\ UNCHANGED <<memory, graph, now, cache>>
  BY DEF ChatInv, Typed, ChatsTyped, Stages, Arrive
<1>2. CASE becomes("calling", 1) /\ Open(<<c, 1>>)
  <2>1. <<c, 1>> \in Attempts /\ attempt[<<c, 1>>].pc = "unused" /\ attempt[<<c, 2>>].pc = "unused"
    BY <1>1 DEF Attempts, Unopened
  <2>2. /\ ChatsTyped' /\ chat'[c].phase = "calling" /\ chat'[c].number = 1
        /\ \A d \in Chats \ {c} : chat'[d] = chat[d]
    <3>1. 1 \in 0 .. 2
      OBVIOUS
    <3>2. Becomes(c, "calling", 1)
      BY <1>1, <1>2, <3>1, ChatSet
    <3>3. QED
      BY <3>2 DEF Becomes
  <2>3. ASSUME NEW d \in Chats, NEW n \in {1, 2}, <<d, n>> # <<c, 1>>
        PROVE  attempt'[<<d, n>>].pc = attempt[<<d, n>>].pc
    <3>1. <<d, n>> \in Attempts
      BY DEF Attempts
    <3>2. QED
      BY <1>1, <1>2, <2>1, <2>3, <3>1, OpenOthers
  <2>4. Unopened'
    <3>1. ASSUME NEW d \in Chats, d # c
          PROVE  /\ attempt'[<<d, 1>>].pc = attempt[<<d, 1>>].pc
                 /\ attempt'[<<d, 2>>].pc = attempt[<<d, 2>>].pc
      BY <2>3, <3>1
    <3>2. attempt'[<<c, 2>>].pc = "unused"
      BY <2>1, <2>3
    <3>3. QED
      BY <1>1, <2>2, <3>1, <3>2 DEF Unopened
  <2>5. QED
    BY <1>1, <1>2, <2>1, <2>2, <2>4, OpeningKeeps
<1>3. CASE /\ becomes("failed", 0) \/ becomes("limited", 0)
           /\ UNCHANGED <<attempt, ledger>>
  <2>1. /\ ChatsTyped' /\ chat'[c].phase \in {"failed", "limited"}
        /\ \A d \in Chats \ {c} : chat'[d] = chat[d]
    <3>1. 0 \in 0 .. 2
      OBVIOUS
    <3>2. Becomes(c, "failed", 0) \/ Becomes(c, "limited", 0)
      BY <1>1, <1>3, <3>1, ChatSet
    <3>3. QED
      BY <3>2 DEF Becomes
  <2>2. Unopened'
    BY <1>1, <1>3, <2>1 DEF Unopened
  <2>3. QED
    BY <1>1, <1>3, <2>1, <2>2, OutsideKeeps, StillTyped
<1>4. QED
  BY <1>2, <1>3 DEF Arrive

LEMMA SessionBreaksKeeps ==
  ASSUME ChatInv, NEW c \in Chats, SessionBreaks(c)
  PROVE  ChatInv'
<1>1. /\ AttemptsTyped /\ ChatsTyped /\ Typed /\ Unopened /\ graph \in Nat
      /\ chat[c].phase = "calling" /\ chat[c].number = 1
      /\ chat' = [chat EXCEPT ![c].number = 2] /\ Open(<<c, 2>>)
      /\ UNCHANGED <<memory, graph, now, cache>>
  BY DEF ChatInv, Typed, Stages, SessionBreaks
<1>2. <<c, 2>> \in Attempts /\ attempt[<<c, 2>>].pc = "unused"
  BY <1>1 DEF Attempts, Unopened
<1>3. /\ ChatsTyped' /\ chat'[c].phase = "calling" /\ chat'[c].number = 2
      /\ \A d \in Chats \ {c} : chat'[d] = chat[d]
  <2>1. Becomes(c, chat[c].phase, 2)
    BY <1>1, ChatSet
  <2>2. QED
    BY <1>1, <2>1 DEF Becomes
<1>4. ASSUME NEW d \in Chats, NEW n \in {1, 2}, d # c
      PROVE  attempt'[<<d, n>>].pc = attempt[<<d, n>>].pc
  <2>1. <<d, n>> \in Attempts /\ <<d, n>> # <<c, 2>>
    BY <1>4 DEF Attempts
  <2>2. QED
    BY <1>1, <1>2, <2>1, OpenOthers
<1>5. Unopened'
  <2>1. ASSUME NEW d \in Chats, d # c
        PROVE  /\ attempt'[<<d, 1>>].pc = attempt[<<d, 1>>].pc
               /\ attempt'[<<d, 2>>].pc = attempt[<<d, 2>>].pc
    BY <1>4, <2>1
  <2>2. ASSUME NEW d \in Chats
        PROVE  /\ chat'[d].phase = "new" => attempt'[<<d, 1>>].pc = "unused"
               /\ chat'[d].phase = "new" \/ (chat'[d].phase = "calling" /\ chat'[d].number = 1)
                     => attempt'[<<d, 2>>].pc = "unused"
    <3>1. CASE d = c
      BY <1>3, <3>1
    <3>2. CASE d # c
      <4>1. Unopened /\ chat'[d] = chat[d]
        BY <1>1, <1>3, <3>2
      <4>2. QED
        BY <2>1, <3>2, <4>1 DEF Unopened
    <3>3. QED
      BY <3>1, <3>2
  <2>3. QED
    BY <2>2 DEF Unopened
<1>6. QED
  BY <1>1, <1>2, <1>3, <1>5, OpeningKeeps

LEMMA CallFailsKeeps ==
  ASSUME ChatInv, NEW c \in Chats, CallFails(c) \/ Leave(c)
  PROVE  ChatInv'
<1>1. /\ ChatsTyped /\ Typed /\ Unopened /\ graph \in Nat
      /\ chat' = [chat EXCEPT ![c].phase = "failed"] \/ chat' = [chat EXCEPT ![c].reading = FALSE]
      /\ UNCHANGED <<attempt, memory, ledger, graph, now, cache>>
  BY DEF ChatInv, Typed, Stages, CallFails, Leave
<1>2. /\ ChatsTyped' /\ chat'[c].phase \in {chat[c].phase, "failed"}
      /\ chat'[c].number = chat[c].number
      /\ \A d \in Chats \ {c} : chat'[d] = chat[d]
  BY <1>1, ChatSet DEF Becomes
<1>3. Unopened'
  BY <1>1, <1>2 DEF Unopened
<1>4. QED
  BY <1>1, <1>2, <1>3, OutsideKeeps, StillTyped

LEMMA FinishKeeps ==
  ASSUME ChatInv, NEW c \in Chats, NEW r \in Results, Finish(c, r),
         UNCHANGED <<attempt, memory, ledger, graph, now, cache>>
  PROVE  ChatInv'
<1>1. ChatsTyped /\ Typed /\ Unopened /\ Traced /\ graph \in Nat
  BY DEF ChatInv, Typed, Stages
<1>2. \A a \in Attempts : attempt[a].kind = "cached" => attempt[a].served \in Attempts
  BY <1>1 DEF Traced, Wrote
<1>3. /\ ChatsTyped' /\ chat'[c].phase = "closed"
      /\ \A d \in Chats \ {c} : chat'[d] = chat[d]
  BY <1>1, <1>2, FinishTyped
<1>4. Unopened'
  BY <1>1, <1>3 DEF Unopened
<1>5. QED
  BY <1>1, <1>3, <1>4, OutsideKeeps, StillTyped

LEMMA ReturnsKeeps ==
  ASSUME ChatInv, NEW c \in Chats, Returns(c) \/ CallRaises(c)
  PROVE  ChatInv'
<1>1. chat[c].number \in 0 .. 2
  BY DEF ChatInv, Typed, ChatsTyped, ChatRecord
<1>2. <<c, chat[c].number>> \in Results /\ <<c, 0>> \in Results
  BY <1>1 DEF Results
<1>3. QED
  BY <1>2, FinishKeeps DEF Returns, CallRaises

LEMMA LandKeeps ==
  ASSUME ChatInv, NEW t \in landing, Land(t)
  PROVE  ChatInv'
<1>1. /\ ChatsTyped /\ MemoryTyped /\ Typed /\ Unopened /\ graph \in Nat
      /\ UNCHANGED <<chat, attempt, ledger, graph, now, cache>>
      /\ Append1(t) /\ landing' = landing \ {t}
  BY DEF ChatInv, Typed, Stages, Land
<1>2. t \in Turns /\ t.of \in Attempts
  BY <1>1 DEF MemoryTyped, Turns
<1>3. MemoryTyped'
  <2>1. turns[Question(t.of).session] \in Seq(Turns)
    BY <1>1, <1>2, QuestionTyped DEF MemoryTyped
  <2>2. Append(turns[Question(t.of).session], t) \in Seq(Turns)
    BY <1>2, <2>1
  <2>3. QED
    BY <1>1, <2>2 DEF Append1, MemoryTyped
<1>4. Unopened'
  BY <1>1 DEF Unopened
<1>5. QED
  BY <1>1, <1>3, <1>4, OutsideKeeps, StillChats

LEMMA ReindexKeeps ==
  ASSUME ChatInv, Reindex \/ Tick \/ UNCHANGED vars
  PROVE  ChatInv'
<1>1. /\ ChatsTyped /\ Typed /\ Unopened /\ graph \in Nat
      /\ UNCHANGED <<chat, attempt, memory, ledger, cache>>
      /\ graph' \in {graph, graph + 1} /\ now' \in {now, now + 1}
  BY DEF ChatInv, Typed, Stages, Reindex, Tick, Cache!Tick, vars
<1>2. ChatsTyped'
  <2>1. now \in Nat /\ \A c \in Chats : chat[c].at \in Nat
    BY <1>1 DEF ChatsTyped, ChatRecord
  <2>2. QED
    BY <1>1, <2>1 DEF ChatsTyped
<1>3. Unopened'
  BY <1>1 DEF Unopened
<1>4. QED
  BY <1>1, <1>2, <1>3, OutsideKeeps, StillTyped

LEMMA CacheServesKeeps ==
  ASSUME ChatInv, NEW a \in Attempts, CacheServes(a)
  PROVE  ChatInv'
<1>1. /\ Typed /\ Stages /\ Traced /\ Counted /\ CacheTyped /\ ChatsTyped /\ AttemptsTyped
      /\ Stage(a) /\ Unopened /\ Cache!CacheStep(a)
      /\ UNCHANGED <<chat, attempt, memory, ledger, graph, now>>
  BY DEF ChatInv, Typed, Stages, CacheServes
<1>2. /\ CacheTyped'
      /\ \/ Reads(a)
         \/ Replies(a, rows[lookup[a].key].answer) /\ UNCHANGED rows
         \/ Replies(a, Nothing) /\ rows' = [rows EXCEPT ![lookup[a].key] = Cache!NoRow]
         \/ Writes(a)
  BY <1>1, CacheStepCases
<1>3. Typed'
  BY <1>1, <1>2, StillTyped, StillChats DEF Typed, AttemptsTyped
<1>4. Stages'
  <2>1. /\ \A b \in Attempts \ {a} : lookup'[b] = lookup[b] /\ reply'[b] = reply[b]
        /\ \/ UNCHANGED <<lookup, reply>>
           \/ /\ lookup[a] # Nothing
              /\ lookup'[a] # Nothing => lookup'[a].key = lookup[a].key
              /\ reply'[a] = reply[a] \/ reply'[a].key = lookup[a].key
    BY <1>1, <1>2 DEF Reads, Replies, Writes, CacheTyped
  <2>2. Stage(a)'
    BY <1>1, <2>1 DEF Stage, KeyOf
  <2>3. Unopened' /\ Alone(a)
    BY <1>1 DEF Unopened, Alone
  <2>4. QED
    BY <1>1, <2>1, <2>2, <2>3, OthersStage DEF Stages
<1>5. Traced'
  <2>1. \A b, k : Wrote(b, k) <=> Wrote(b, k)'
    BY <1>1 DEF Wrote, KeyOf
  <2>2. \A k \in Keys : rows'[k].answer # Nothing => Wrote(rows'[k].answer, k)
    <3>1. CASE UNCHANGED rows
      BY <1>1, <3>1 DEF Traced
    <3>2. CASE rows' = [rows EXCEPT ![lookup[a].key] = Cache!NoRow]
      BY <1>1, <3>2 DEF Traced, CacheTyped, Cache!NoRow
    <3>3. CASE Writes(a)
      BY <1>1, <3>3 DEF Traced, CacheTyped, Writes
    <3>4. QED
      BY <1>2, <3>1, <3>2, <3>3 DEF Reads
  <2>3. \A b \in Attempts : storing'[b] # Nothing => Wrote(storing'[b].row.answer, storing'[b].key)
    BY <1>1, <1>2 DEF Traced, CacheTyped, Writes, Reads, Replies
  <2>4. \A b \in Attempts : reply'[b] # Nothing /\ reply'[b].answer # Nothing =>
           Wrote(reply'[b].answer, reply'[b].key)
    <3>1. CASE Replies(a, rows[lookup[a].key].answer)
      <4>1. lookup[a].key \in Keys
        BY <1>1, <3>1 DEF Replies, CacheTyped
      <4>2. QED
        BY <1>1, <3>1, <4>1 DEF Traced, CacheTyped, Replies
    <3>2. CASE Replies(a, Nothing)
      BY <1>1, <3>2 DEF Traced, CacheTyped, Replies
    <3>3. CASE UNCHANGED reply
      BY <1>1, <3>3 DEF Traced
    <3>4. QED
      BY <1>2, <3>1, <3>2, <3>3 DEF Reads, Writes
  <2>5. \A b \in Attempts : attempt[b].kind = "cached" => Wrote(attempt[b].served, KeyOf(b))
    BY <1>1 DEF Traced
  <2>6. QED
    BY <1>1, <2>1, <2>2, <2>3, <2>4, <2>5 DEF Traced, KeyOf
<1>6. Counted'
  BY <1>1 DEF Counted, TokensOwn
<1>7. QED
  BY <1>3, <1>4, <1>5, <1>6 DEF ChatInv

LEMMA InitTyped ==
  ASSUME Init
  PROVE  Typed
<1>1. \A b \in Before : b \in Chats /\ <<b, 1>> \in Attempts /\ <<b, 1>> \in Results
  BY ChatAssumption DEF Attempts, Results
<1>2. AttemptsTyped
  <2>1. ASSUME NEW b \in Attempts
        PROVE  attempt[b] \in AttemptRecord /\ attempt[b].length = 0 /\ attempt[b].sent = 0
    <3> DEFINE answered(k, about, n) ==
             [Unused EXCEPT !.pc = "done", !.key = k, !.about = about,
                            !.kind = "refusal", !.own = n, !.tokens = n]
    <3>1. ASSUME NEW k \in Keys, NEW about \in SUBSET Entities, NEW n \in Nat
          PROVE  /\ answered(k, about, n) \in AttemptRecord
                 /\ answered(k, about, n).length = 0 /\ answered(k, about, n).sent = 0
      <4>1. ASSUME NEW u \in AttemptRecord
            PROVE  LET x == [u EXCEPT !.pc = "done", !.key = k, !.about = about,
                                      !.kind = "refusal", !.own = n, !.tokens = n]
                   IN  x \in AttemptRecord /\ x.length = u.length /\ x.sent = u.sent
        BY DEF AttemptRecord, Pcs, Kinds
      <4>2. Unused.length = 0 /\ Unused.sent = 0
        BY DEF Unused
      <4>3. QED
        BY <4>1, <4>2, UnusedTyped
    <3>2. CASE b[1] \in Before /\ b[2] = 1
      <4>1. Asked[b[1]].names \in SUBSET Entities
        BY QuestionTyped DEF Question
      <4>2. CacheKey(Asked[b[1]], Asked[b[1]].names) \in Keys
        BY <4>1, QuestionTyped DEF Question
      <4>3. attempt[b] = answered(CacheKey(Asked[b[1]], Asked[b[1]].names), Asked[b[1]].names, 1)
        BY <3>2 DEF Init
      <4> HIDE DEF answered
      <4>4. QED
        BY <3>1, <4>1, <4>2, <4>3
    <3>3. CASE ~(b[1] \in Before /\ b[2] = 1)
      <4>1. attempt[b] = Unused
        BY <3>3 DEF Init
      <4>2. Unused.length = 0 /\ Unused.sent = 0
        BY DEF Unused
      <4>3. QED
        BY <4>1, <4>2, UnusedTyped
    <3>4. QED
      BY <3>2, <3>3
  <2>2. attempt = [b \in Attempts |-> attempt[b]]
    BY DEF Init
  <2>3. QED
    BY <2>1, <2>2 DEF AttemptsTyped
<1>3. ChatsTyped
  <2>1. New \in ChatRecord /\ New.at = 0
    BY DEF New, ChatRecord
  <2>2. ASSUME NEW c \in Before
        PROVE  Done(c) \in ChatRecord /\ Done(c).at = 0
    <3>1. <<Event("routing", <<c, 1>>), Event("agent_result", <<c, 1>>), Text(<<c, 1>>),
            Event("done", <<c, 1>>)>> \in Seq(Events)
      BY <1>1, EventTyped
    <3>2. ASSUME NEW s \in Seq(Events), NEW r \in Results
          PROVE  LET x == [New EXCEPT !.phase = "closed", !.number = 1, !.result = r, !.stream = s]
                 IN  x \in ChatRecord /\ x.at = 0
      <4>1. ASSUME NEW u \in ChatRecord, NEW n \in 0 .. 2
            PROVE  LET x == [u EXCEPT !.phase = "closed", !.number = n, !.result = r, !.stream = s]
                   IN  x \in ChatRecord /\ x.at = u.at
        BY DEF ChatRecord
      <4>2. 1 \in 0 .. 2
        OBVIOUS
      <4>3. QED
        BY <2>1, <4>1, <4>2
    <3>3. QED
      BY <1>1, <3>1, <3>2 DEF Done
  <2>3. chat = [c \in Chats |-> IF c \in Before THEN Done(c) ELSE New] /\ now = 0
    BY DEF Init
  <2>4. QED
    BY <2>1, <2>2, <2>3 DEF ChatsTyped
<1>4. MemoryTyped
  <2> DEFINE exchange(c) == <<Turn(<<c, 1>>, "user"), Turn(<<c, 1>>, "assistant")>>
  <2>1. ASSUME NEW c \in Before PROVE exchange(c) \in Seq(Turns)
    BY <1>1 DEF Turn, Turns
  <2>2. ASSUME NEW s \in Sessions PROVE turns[s] \in Seq(Turns)
    <3>1. CASE \E c \in Before : Asked[c].session = s
      <4> DEFINE b == CHOOSE c \in Before : Asked[c].session = s
      <4>1. b \in Before
        BY <3>1
      <4>2. turns[s] = exchange(b)
        BY <3>1 DEF Init
      <4> HIDE DEF b, exchange
      <4>3. QED
        BY <2>1, <4>1, <4>2
    <3>2. CASE ~\E c \in Before : Asked[c].session = s
      <4>1. turns[s] = <<>>
        BY <3>2 DEF Init
      <4>2. QED
        BY <4>1
    <3>3. QED
      BY <3>1, <3>2
  <2>3. turns = [s \in Sessions |-> turns[s]]
    BY DEF Init
  <2>4. QED
    BY <2>2, <2>3 DEF MemoryTyped, Init
<1>5. CacheTyped
  <2>1. ASSUME NEW k \in Keys PROVE rows[k] \in Stores \cup {Cache!NoRow}
    <3>1. CASE \E c \in Before : CacheKey(Asked[c], Asked[c].names) = k
      <4>1. (CHOOSE c \in Before : CacheKey(Asked[c], Asked[c].names) = k) \in Before
        BY <3>1
      <4>2. QED
        BY <1>1, <3>1, <4>1 DEF Init, Stores
    <3>2. CASE ~\E c \in Before : CacheKey(Asked[c], Asked[c].names) = k
      BY <3>2 DEF Init
    <3>3. QED
      BY <3>1, <3>2
  <2>2. /\ rows = [k \in Keys |-> rows[k]] /\ lookup = [b \in Attempts |-> Nothing]
        /\ storing = [b \in Attempts |-> Nothing] /\ reply = [b \in Attempts |-> Nothing]
    BY DEF Init
  <2>3. QED
    BY <2>1, <2>2 DEF CacheTyped
<1>6. LedgerTyped /\ graph \in Nat
  BY DEF Init, LedgerTyped
<1>7. QED
  BY <1>2, <1>3, <1>4, <1>5, <1>6 DEF Typed

\* The attempts as the clock starts.
LEMMA InitAttempt ==
  ASSUME Init, NEW b \in Attempts
  PROVE  /\ lookup[b] = Nothing /\ storing[b] = Nothing /\ reply[b] = Nothing
         /\ b[1] \in Before /\ b[2] = 1 =>
               /\ attempt[b].pc = "done" /\ attempt[b].mem /\ attempt[b].kind = "refusal"
               /\ attempt[b].about = Asked[b[1]].names /\ attempt[b].key = KeyOf(b)
               /\ attempt[b].own = 1 /\ attempt[b].tokens = 1
         /\ ~(b[1] \in Before /\ b[2] = 1) =>
               /\ attempt[b].pc = "unused" /\ attempt[b].kind = "none"
               /\ attempt[b].tokens = 0 /\ attempt[b].own = 0
<1>1. lookup[b] = Nothing /\ storing[b] = Nothing /\ reply[b] = Nothing
  BY DEF Init
<1>2. CASE b[1] \in Before /\ b[2] = 1
  <2> DEFINE answered(k, about) ==
           [Unused EXCEPT !.pc = "done", !.key = k, !.about = about,
                          !.kind = "refusal", !.own = 1, !.tokens = 1]
  <2>1. ASSUME NEW k, NEW about
        PROVE  LET x == answered(k, about)
               IN  /\ x.pc = "done" /\ x.mem /\ x.kind = "refusal" /\ x.about = about /\ x.key = k
                   /\ x.own = 1 /\ x.tokens = 1
    BY DEF Unused
  <2>2. attempt[b] = answered(CacheKey(Asked[b[1]], Asked[b[1]].names), Asked[b[1]].names)
    BY <1>2 DEF Init
  <2> HIDE DEF answered
  <2>3. QED
    BY <1>1, <1>2, <2>1, <2>2 DEF KeyOf, Question
<1>3. CASE ~(b[1] \in Before /\ b[2] = 1)
  <2>1. attempt[b] = Unused
    BY <1>3 DEF Init
  <2>2. QED
    BY <1>1, <1>3, <2>1 DEF Unused
<1>4. QED
  BY <1>2, <1>3

LEMMA InitInv ==
  ASSUME Init
  PROVE  ChatInv
<1>1. Stages
  <2>1. ASSUME NEW b \in Attempts PROVE Stage(b)
    BY InitAttempt DEF Stage, Writing
  <2>2. ASSUME NEW c \in Chats, chat[c].phase = "new" \/ chat[c].phase = "calling"
        PROVE  attempt[<<c, 1>>].pc = "unused" /\ attempt[<<c, 2>>].pc = "unused"
    <3>1. c \notin Before
      <4>1. \A b \in Before : Done(b).phase = "closed"
        BY DEF Done, New
      <4>2. QED
        BY <2>2, <4>1 DEF Init
    <3>2. <<c, 1>> \in Attempts /\ <<c, 2>> \in Attempts
      BY DEF Attempts
    <3>3. QED
      BY <3>1, <3>2, InitAttempt
  <2>3. QED
    BY <2>1, <2>2 DEF Stages, Unopened
<1>2. Traced
  <2>1. ASSUME NEW k \in Keys, rows[k].answer # Nothing PROVE Wrote(rows[k].answer, k)
    <3> DEFINE c == CHOOSE c \in Before : CacheKey(Asked[c], Asked[c].names) = k
    <3>1. \E b \in Before : CacheKey(Asked[b], Asked[b].names) = k
      BY <2>1 DEF Init, Cache!NoRow
    <3>2. c \in Before /\ CacheKey(Asked[c], Asked[c].names) = k
      BY <3>1
    <3>3. rows[k].answer = <<c, 1>>
      BY <3>1 DEF Init
    <3> HIDE DEF c
    <3>4. <<c, 1>> \in Attempts
      BY <3>2, ChatAssumption DEF Attempts
    <3>5. /\ attempt[<<c, 1>>].pc = "done" /\ attempt[<<c, 1>>].mem /\ attempt[<<c, 1>>].kind = "refusal"
          /\ attempt[<<c, 1>>].about = Asked[c].names
      BY <3>2, <3>4, InitAttempt
    <3>6. QED
      BY <3>2, <3>3, <3>4, <3>5 DEF Wrote, KeyOf, Question, Writing
  <2>2. ASSUME NEW b \in Attempts
        PROVE  storing[b] = Nothing /\ reply[b] = Nothing /\ attempt[b].kind # "cached"
    BY InitAttempt
  <2>3. QED
    BY <2>1, <2>2 DEF Traced
<1>3. Counted
  BY InitAttempt DEF Counted, TokensOwn, Accounting
<1>4. QED
  BY <1>1, <1>2, <1>3, InitTyped DEF ChatInv

\* The invariant holds in every reachable state.
THEOREM ChatInvariant == Spec => []ChatInv
<1>1. Init => ChatInv
  BY InitInv
<1>2. ASSUME ChatInv, [Next]_vars PROVE ChatInv'
  <2>1. ASSUME NEW c \in Chats, Stream(c) PROVE ChatInv'
    BY <1>2, <2>1, ArriveKeeps, SessionBreaksKeeps, CallFailsKeeps, ReturnsKeeps DEF Stream
  <2>2. ASSUME NEW a \in Attempts, HandleQuery(a) PROVE ChatInv'
    BY <1>2, <2>2, GetContextKeeps, LookedUpKeeps, RetrieveKeeps, StreamTokenKeeps,
       SynthesizeKeeps, AppendTurnKeeps, StoredKeeps, DieKeeps DEF HandleQuery
  <2>3. ASSUME NEW a \in Attempts, CacheServes(a) PROVE ChatInv'
    BY <1>2, <2>3, CacheServesKeeps
  <2>4. ASSUME NEW t \in landing, Land(t) PROVE ChatInv'
    BY <1>2, <2>4, LandKeeps
  <2>5. CASE Reindex \/ Tick \/ UNCHANGED vars
    BY <1>2, <2>5, ReindexKeeps
  <2>6. QED
    BY <1>2, <2>1, <2>2, <2>3, <2>4, <2>5 DEF Next
<1>3. QED
  BY <1>1, <1>2, PTL DEF Spec

----------------------------------------------------------------------------
(* The properties                                                          *)

\* Type correctness: every chat, attempt, ledger entry and turn under way
\* has its shape, whatever the order of calls, failures and retries; the
\* cache is only ever asked for keys of the table's shape.
THEOREM ChatTyped == Spec => []TypeOK
<1>1. ASSUME ChatInv PROVE TypeOK
  <2>1. /\ AttemptsTyped /\ ChatsTyped /\ MemoryTyped /\ LedgerTyped
    BY <1>1 DEF ChatInv, Typed
  <2>2. ASSUME NEW c \in Chats
        PROVE  /\ chat[c].phase \in {"new", "limited", "calling", "failed", "closed"}
               /\ chat[c].number \in 0 .. 2 /\ chat[c].at \in 0 .. now
               /\ chat[c].result \in (Chats \X (0 .. 2)) \cup {Nothing}
    BY <2>1 DEF ChatsTyped, ChatRecord, Results
  <2>3. ASSUME NEW a \in Attempts
        PROVE  /\ attempt[a].pc \in Running \cup {"unused", "done", "dead"}
               /\ attempt[a].key \in Keys \cup {Nothing}
               /\ attempt[a].length \in 0 .. attempt[a].sent
               /\ attempt[a].sent \in 0 .. MaxTokens
               /\ attempt[a].tries \in 0 .. Retries
    BY <2>1 DEF AttemptsTyped, AttemptRecord, Pcs
  <2>4. QED
    BY <2>1, <2>2, <2>3 DEF TypeOK, LedgerTyped, MemoryTyped, Turns
<1>2. QED
  BY <1>1, ChatInvariant, PTL

\* An answer from the cache was written, complete, by an attempt of the same
\* session that asked the same words about the same entities: handle_query's
\* key is that of the attempt that looks up and of the one that stored.
THEOREM ChatCachedForSameQuestion == Spec => []CachedForSameQuestion
<1>1. ASSUME ChatInv PROVE CachedForSameQuestion
  <2> SUFFICES ASSUME NEW a \in Attempts, attempt[a].kind = "cached"
      PROVE  LET b == attempt[a].served
             IN  /\ attempt[b].about = attempt[a].about
                 /\ Question(b).session = Question(a).session /\ Question(b).text = Question(a).text
                 /\ attempt[b].kind \notin {"none", "cached"} /\ attempt[b].mem
    BY DEF CachedForSameQuestion
  <2>1. Wrote(attempt[a].served, KeyOf(a))
    BY <1>1 DEF ChatInv, Traced
  <2>2. QED
    BY <2>1 DEF Wrote, KeyOf, CacheKey
<1>2. QED
  BY <1>1, ChatInvariant, PTL

\* The tokens an answer reports are its own calls', unless another attempt
\* with its correlation id ran beside it: the ledger entry that handle_query
\* opens, records to and closes is nobody else's.
THEOREM ChatTokensOwn == Spec => []TokensOwn
<1>1. ChatInv => TokensOwn
  BY DEF ChatInv, Counted
<1>2. QED
  BY <1>1, ChatInvariant, PTL

\* The rows of the response cache, as the requests ask for and store them,
\* implement the abstract cache: one answer per key, the last one stored,
\* which a lookup may forget but never confuses with another.
THEOREM ChatCacheRefined == Spec => CacheRefined
<1> DEFINE store == [k \in Keys |-> rows[k].answer]
<1>1. Init => Cache!Abstract!Init
  <2>1. ASSUME Init PROVE CacheTyped /\ reply = [b \in Attempts |-> Nothing]
    BY <2>1, InitInv DEF ChatInv, Typed, Init
  <2>2. ASSUME Init, NEW k \in Keys PROVE rows[k].answer \in Attempts \cup {Nothing}
    BY <2>1, <2>2, RowTyped
  <2>3. QED
    BY <2>1, <2>2 DEF Cache!Abstract!Init
<1>2. ASSUME NEW k \in Keys, NEW a \in Attempts
      PROVE  /\ Cache!Abstract!Put(k, a) => Cache!Abstract!Next
             /\ Cache!Abstract!Get(a, k) => Cache!Abstract!Next
             /\ Cache!Abstract!Forget(a, k) => Cache!Abstract!Next
  BY Zenon DEF Cache!Abstract!Next
<1>3. ASSUME ChatInv, [Next]_vars PROVE [Cache!Abstract!Next]_<<store, reply>>
  <2>1. CacheTyped /\ AttemptsTyped /\ MemoryTyped /\ now \in Nat
    BY <1>3 DEF ChatInv, Typed, ChatsTyped
  <2>2. CASE UNCHANGED <<rows, reply>>
    BY <2>2
  <2>3. ASSUME NEW a \in Attempts, CacheServes(a)
        PROVE  [Cache!Abstract!Next]_<<store, reply>>
    <3>1. \/ Reads(a)
          \/ Replies(a, rows[lookup[a].key].answer) /\ UNCHANGED rows
          \/ Replies(a, Nothing) /\ rows' = [rows EXCEPT ![lookup[a].key] = Cache!NoRow]
          \/ Writes(a)
      BY <2>1, <2>3, CacheStepCases DEF CacheServes
    <3>2. CASE Reads(a)
      BY <3>2 DEF Reads
    <3>3. CASE Replies(a, rows[lookup[a].key].answer) /\ UNCHANGED rows
      <4>1. PICK k \in Keys : k = lookup[a].key
        BY <2>1, <3>3 DEF Replies, CacheTyped
      <4>2. Cache!Abstract!Get(a, k)
        BY <3>3, <4>1 DEF Replies, Cache!Abstract!Get
      <4>3. QED
        BY <1>2, <4>2
    <3>4. CASE Replies(a, Nothing) /\ rows' = [rows EXCEPT ![lookup[a].key] = Cache!NoRow]
      <4>1. PICK k \in Keys : k = lookup[a].key
        BY <2>1, <3>4 DEF Replies, CacheTyped
      <4>2. store' = [store EXCEPT ![k] = Nothing]
        BY <2>1, <3>4, <4>1 DEF CacheTyped, Cache!NoRow
      <4>3. Cache!Abstract!Forget(a, k)
        BY <3>4, <4>1, <4>2 DEF Replies, Cache!Abstract!Forget
      <4>4. QED
        BY <1>2, <4>3
    <3>5. CASE Writes(a)
      <4>1. PICK k \in Keys, b \in Attempts : k = storing[a].key /\ b = storing[a].row.answer
        BY <2>1, <3>5 DEF Writes, CacheTyped, Stores
      <4>2. store' = [store EXCEPT ![k] = b]
        BY <2>1, <3>5, <4>1 DEF Writes, CacheTyped
      <4>3. Cache!Abstract!Put(k, b)
        BY <3>5, <4>2 DEF Writes, Cache!Abstract!Put
      <4>4. QED
        BY <1>2, <4>3
    <3>6. QED
      BY <3>1, <3>2, <3>3, <3>4, <3>5
  <2>4. ASSUME NEW a \in Attempts, GetContext(a) \/ AppendTurn(a)
        PROVE  UNCHANGED <<rows, reply>>
    BY <2>4 DEF GetContext, AppendTurn, Cache!BeginGet, Cache!BeginPut, cache
  <2>5. QED
    BY <1>3, <2>2, <2>3, <2>4 DEF Next, vars, cache, Stream, HandleQuery, Arrive, SessionBreaks,
       CallFails, CallRaises, Returns, Leave, LookedUp, Retrieve, StreamToken, Synthesize, Stored,
       Die, Land, Reindex, Tick
<1>4. QED
  BY <1>1, <1>3, ChatInvariant, PTL DEF Spec, CacheRefined, Cache!Abstract!Spec, Cache!Abstract!vars

----------------------------------------------------------------------------
(* The exchange in the memory                                              *)

\* Where a turn stands in its session, how often it was or may still be
\* appended, and how many calls have been made for it.
Own(t) == turns[Question(t.of).session]
Times(t) == {i \in DOMAIN Own(t) : Own(t)[i] = t}
Sent(t) == Cardinality(Times(t)) + IF t \in landing THEN 1 ELSE 0
Tried(a, role) ==
    IF attempt[a].pc = role THEN attempt[a].tries
    ELSE IF \/ attempt[a].pc \in {"storing", "done", "dead"}
            \/ attempt[a].pc = "assistant" /\ role = "user"
         THEN Retries + 1 ELSE 0

AtHome == \A s \in Sessions : \A i \in DOMAIN turns[s] : Question(turns[s][i].of).session = s
NotOften == \A a \in Attempts, role \in {"user", "assistant"} : Sent(Turn(a, role)) <= Tried(a, role)
UserFirst == \A a \in Attempts :
                 attempt[a].pc = "assistant" \/ Turn(a, "assistant") \in landing => Times(Turn(a, "user")) # {}
InOrder == \A s \in Sessions : \A i \in DOMAIN turns[s] : turns[s][i].role = "assistant" =>
               \E j \in Times(Turn(turns[s][i].of, "user")) : j < i
Appended == AtHome /\ NotOften /\ UserFirst /\ InOrder

LEMMA TurnFacts ==
  /\ \A a \in Attempts, role \in {"user", "assistant"} : /\ Turn(a, role) \in Turns
                                                       /\ Turn(a, role).of = a /\ Turn(a, role).role = role
  /\ \A t \in Turns : /\ t.of \in Attempts /\ t.role \in {"user", "assistant"}
                      /\ t = Turn(t.of, t.role) /\ Question(t.of).session \in Sessions
BY QuestionTyped DEF Turn, Turns

LEMMA TimesFinite ==
  ASSUME MemoryTyped, NEW t \in Turns
  PROVE  /\ Own(t) \in Seq(Turns) /\ Times(t) \subseteq 1 .. Len(Own(t))
         /\ IsFiniteSet(Times(t)) /\ Cardinality(Times(t)) \in Nat
<1>1. Own(t) \in Seq(Turns)
  BY TurnFacts DEF Own, MemoryTyped
<1>2. Times(t) \subseteq 1 .. Len(Own(t))
  BY <1>1 DEF Times
<1>3. IsFiniteSet(1 .. Len(Own(t)))
  BY <1>1, FS_Interval
<1>4. QED
  BY <1>1, <1>2, <1>3, FS_Subset, FS_CardinalityType

LEMMA AppendedTurn ==
  ASSUME MemoryTyped, NEW t \in Turns, Append1(t)
  PROVE  /\ \A s \in Sessions : /\ s = Question(t.of).session =>
                                      /\ DOMAIN turns'[s] = DOMAIN turns[s] \cup {Len(Own(t)) + 1}
                                      /\ \A i \in DOMAIN turns[s] : turns'[s][i] = turns[s][i]
                                      /\ turns'[s][Len(Own(t)) + 1] = t
                                /\ s # Question(t.of).session => turns'[s] = turns[s]
         /\ \A u \in Turns \ {t} : Times(u)' = Times(u)
         /\ Times(t)' = Times(t) \cup {Len(Own(t)) + 1}
         /\ Cardinality(Times(t)') = Cardinality(Times(t)) + 1
<1> DEFINE h == Question(t.of).session
           n == Len(Own(t)) + 1
<1>1. h \in Sessions /\ turns \in [Sessions -> Seq(Turns)] /\ n \in Nat /\ Own(t) = turns[h]
  BY TurnFacts, TimesFinite DEF MemoryTyped, Own
<1>2. turns' = [turns EXCEPT ![h] = Append(turns[h], t)]
  BY DEF Append1
<1>3. /\ DOMAIN turns'[h] = DOMAIN turns[h] \cup {n}
      /\ \A i \in DOMAIN turns[h] : turns'[h][i] = turns[h][i]
      /\ turns'[h][n] = t /\ n \notin DOMAIN turns[h]
  <2>1. turns'[h] = Append(turns[h], t) /\ turns[h] \in Seq(Turns) /\ n = Len(turns[h]) + 1
    BY <1>1, <1>2
  <2>2. QED
    BY <2>1
<1>4. \A s \in Sessions \ {h} : turns'[s] = turns[s]
  BY <1>1, <1>2
<1> HIDE DEF n
<1>5. ASSUME NEW u \in Turns \ {t}
      PROVE  Times(u)' = Times(u)
  <2>1. CASE Question(u.of).session = h
    BY <1>3, <1>5, <2>1 DEF Times, Own
  <2>2. CASE Question(u.of).session # h
    BY <1>4, <1>5, <2>2, TurnFacts DEF Times, Own
  <2>3. QED
    BY <2>1, <2>2
<1>6. Times(t)' = Times(t) \cup {n} /\ n \notin Times(t)
  BY <1>1, <1>3 DEF Times, Own
<1>7. Cardinality(Times(t)') = Cardinality(Times(t)) + 1
  BY <1>6, TimesFinite, FS_AddElement
<1>8. QED
  BY <1>3, <1>4, <1>5, <1>6, <1>7 DEF n

\* A turn is appended: the assistant's only where the user's is.
LEMMA AppendOrder ==
  ASSUME MemoryTyped, AtHome, InOrder, NEW t \in Turns, Append1(t),
         t.role = "assistant" => Times(Turn(t.of, "user")) # {}
  PROVE  AtHome' /\ InOrder'
<1> DEFINE h == Question(t.of).session
           n == Len(Own(t)) + 1
<1>1. /\ h \in Sessions /\ n \in Nat
      /\ DOMAIN turns'[h] = DOMAIN turns[h] \cup {n} /\ turns'[h][n] = t
      /\ \A i \in DOMAIN turns[h] : turns'[h][i] = turns[h][i]
      /\ \A s \in Sessions \ {h} : turns'[s] = turns[s]
  BY AppendedTurn, TurnFacts, TimesFinite
<1>2. \A u \in Turns : Times(u) \subseteq Times(u)'
  BY AppendedTurn
<1>3. \A s \in Sessions : \A i \in DOMAIN turns[s] : turns[s][i] \in Turns
  BY DEF MemoryTyped
<1>4. AtHome'
  BY <1>1 DEF AtHome
<1>5. ASSUME NEW s \in Sessions, NEW i \in DOMAIN turns'[s], turns'[s][i].role = "assistant"
      PROVE  \E j \in Times(Turn(turns[s][i].of, "user"))' : j < i
  <2>1. CASE i \in DOMAIN turns[s] /\ turns'[s][i] = turns[s][i]
    <3>1. PICK j \in Times(Turn(turns[s][i].of, "user")) : j < i
      BY <1>5, <2>1 DEF InOrder
    <3>2. Turn(turns[s][i].of, "user") \in Turns
      BY <1>3, <2>1, TurnFacts
    <3>3. PICK u \in Turns : u = Turn(turns[s][i].of, "user")
      BY <3>2
    <3>4. j \in Times(u)'
      BY <1>2, <3>1, <3>3
    <3>5. Times(u)' = Times(Turn(turns[s][i].of, "user"))'
      BY <2>1, <3>3
    <3>6. QED
      BY <3>1, <3>4, <3>5
  <2>2. CASE s = h /\ i = n
    <3>1. PICK u \in Turns : u = Turn(t.of, "user")
      BY TurnFacts
    <3>2. turns'[s][i] = t
      BY <1>1, <2>2
    <3>3. PICK j \in Times(u) : TRUE
      BY <1>5, <3>1, <3>2
    <3>4. Own(u) = Own(t) /\ j \in 1 .. Len(Own(u)) /\ Len(Own(t)) \in Nat
      BY <3>1, <3>3, TimesFinite, TurnFacts DEF Own
    <3>5. j < n /\ j \in Times(u)'
      BY <1>2, <3>3, <3>4
    <3>6. Times(u)' = Times(Turn(turns[s][i].of, "user"))'
      BY <3>1, <3>2
    <3>7. QED
      BY <2>2, <3>5, <3>6
  <2>3. QED
    BY <1>1, <1>5, <2>1, <2>2
<1>6. QED
  BY <1>4, <1>5 DEF InOrder

\* Steps that leave the memory alone and take no attempt back.
Onward(b) ==
    /\ \A role \in {"user", "assistant"} : Tried(b, role) <= Tried(b, role)'
    /\ attempt'[b].pc = "assistant" => attempt[b].pc = "assistant"

LEMMA SentTyped ==
  ASSUME Typed, NEW a \in Attempts, NEW role \in {"user", "assistant"}
  PROVE  /\ Sent(Turn(a, role)) \in Nat /\ Tried(a, role) \in 0 .. Retries + 1
         /\ Retries \in Nat /\ attempt[a].tries \in 0 .. Retries
<1>1. Retries \in Nat /\ attempt[a].tries \in 0 .. Retries /\ MemoryTyped
  BY ChatAssumption DEF Typed, AttemptsTyped, AttemptRecord
<1>2. Cardinality(Times(Turn(a, role))) \in Nat
  BY <1>1, TurnFacts, TimesFinite
<1>3. QED
  BY <1>1, <1>2 DEF Sent, Tried

LEMMA AppendedKept ==
  ASSUME Typed, Typed', Appended, UNCHANGED memory, \A b \in Attempts : Onward(b)
  PROVE  Appended'
<1>1. UNCHANGED <<turns, landing>>
  BY DEF memory
<1>2. \A t : Times(t)' = Times(t) /\ Sent(t)' = Sent(t)
  BY <1>1 DEF Times, Own, Sent
<1>3. ASSUME NEW a \in Attempts, NEW role \in {"user", "assistant"}
      PROVE  (Sent(Turn(a, role)) <= Tried(a, role))'
  <2>1. Sent(Turn(a, role))' = Sent(Turn(a, role)) /\ Sent(Turn(a, role)) <= Tried(a, role)
    BY <1>2 DEF Appended, NotOften
  <2>2. Sent(Turn(a, role)) \in Nat /\ Tried(a, role) \in Nat
    BY SentTyped
  <2>3. (Tried(a, role) \in 0 .. Retries + 1)' /\ Retries \in Nat
    BY SentTyped, ChatAssumption DEF Typed, Typed, AttemptsTyped, AttemptRecord, Tried
  <2>4. Tried(a, role) <= Tried(a, role)'
    BY DEF Onward
  <2>5. QED
    BY <2>1, <2>2, <2>3, <2>4
<1>4. AtHome' /\ InOrder'
  BY <1>1 DEF Appended, AtHome, InOrder, Times, Own
<1>5. UserFirst'
  BY <1>1, <1>2 DEF Appended, UserFirst, Onward
<1>6. QED
  BY <1>3, <1>4, <1>5 DEF Appended, NotOften

\* handle_query before and after it appends, and the gateway's steps.
LEMMA OnwardSteps ==
  ASSUME Typed, Typed', Stages, NEW a \in Attempts,
         \/ GetContext(a) \/ LookedUp(a) \/ Retrieve(a) \/ StreamToken(a)
         \/ Synthesize(a) \/ Stored(a) \/ Die(a)
  PROVE  \A b \in Attempts : Onward(b)
<1>0. AttemptsTyped /\ LedgerTyped /\ CacheTyped /\ MemoryTyped /\ graph \in Nat
  BY DEF Typed
<1>1. /\ attempt[a].tries \in 0 .. Retries /\ Retries \in Nat
      /\ attempt'[a].tries \in 0 .. Retries
  BY ChatAssumption DEF Typed, AttemptsTyped, AttemptRecord
<1>2. ASSUME NEW x \in {"context", "looking", "route", "synthesis", "storing"}, attempt[a].pc = x,
             attempt'[a].pc # "assistant", x = "storing" => attempt'[a].pc = "done"
      PROVE  Onward(a)
  <2>1. ASSUME NEW role \in {"user", "assistant"}
        PROVE  Tried(a, role) <= Tried(a, role)'
    <3>1. CASE x = "storing"
      BY <1>1, <1>2, <3>1 DEF Tried
    <3>2. CASE x # "storing"
      <4>1. Tried(a, role) = 0
        BY <1>2, <3>2 DEF Tried
      <4>2. Tried(a, role)' \in {attempt'[a].tries, Retries + 1, 0}
        BY DEF Tried
      <4>3. QED
        BY <1>1, <4>1, <4>2
    <3>3. QED
      BY <3>1, <3>2
  <2>2. QED
    BY <1>2, <2>1 DEF Onward
<1>3. Alone(a) /\ Onward(a)
  <2>1. CASE GetContext(a)
    BY <1>0, <1>2, <2>1, GetContextEffect
  <2>2. CASE LookedUp(a)
    BY <1>0, <1>2, <2>2, LookedUpEffect
  <2>3. CASE Retrieve(a)
    BY <1>0, <1>2, <2>3, RetrieveEffect
  <2>4. CASE StreamToken(a)
    <3>1. Alone(a) /\ attempt'[a].pc = attempt[a].pc
      BY <1>0, <2>4, StreamTokenEffect
    <3>2. attempt'[a].tries = attempt[a].tries
      BY <1>0, <2>4 DEF StreamToken, Set, AttemptsTyped, AttemptRecord
    <3>3. QED
      BY <1>1, <3>1, <3>2 DEF Onward, Tried
  <2>5. CASE Synthesize(a)
    BY <1>0, <1>2, <2>5, SynthesizeEffect, AnsweredEffect
  <2>6. CASE Stored(a)
    BY <1>0, <1>2, <2>6, StoredEffect
  <2>7. CASE Die(a)
    <3>1. Alone(a) /\ attempt'[a].pc = "dead"
      BY <1>0, <2>7, DieEffect DEF Die
    <3>2. QED
      BY <1>1, <3>1 DEF Onward, Tried
  <2>8. QED
    BY <2>1, <2>2, <2>3, <2>4, <2>5, <2>6, <2>7
<1>4. ASSUME NEW b \in Attempts, b # a
      PROVE  Onward(b)
  <2>1. attempt'[b] = attempt[b]
    BY <1>3, <1>4 DEF Alone
  <2>2. \A role \in {"user", "assistant"} : Tried(b, role)' = Tried(b, role) /\ Tried(b, role) \in Nat
    BY <2>1, SentTyped DEF Tried
  <2>3. QED
    BY <2>1, <2>2 DEF Onward
<1>5. QED
  BY <1>3, <1>4

LEMMA OpenOnward ==
  ASSUME Typed, NEW a \in Attempts, attempt[a].pc = "unused", Open(a)
  PROVE  \A b \in Attempts : Onward(b)
<1>1. AttemptsTyped
  BY DEF Typed
<1>2. Onward(a)
  <2>1. attempt'[a].pc = "context"
    BY <1>1, OpenEffect
  <2>2. \A role \in {"user", "assistant"} : Tried(a, role) = 0 /\ Tried(a, role)' = 0
    BY <2>1 DEF Tried
  <2>3. QED
    BY <2>1, <2>2 DEF Onward
<1>3. ASSUME NEW b \in Attempts, b # a
      PROVE  Onward(b)
  <2>1. attempt'[b].pc = attempt[b].pc /\ attempt'[b].tries = attempt[b].tries
    BY <1>1, <1>3, OpenOthers
  <2>2. \A role \in {"user", "assistant"} : Tried(b, role)' = Tried(b, role) /\ Tried(b, role) \in Nat
    BY <2>1, SentTyped DEF Tried
  <2>3. QED
    BY <2>1, <2>2 DEF Onward
<1>4. QED
  BY <1>2, <1>3

\* append_turn in all its outcomes.
LEMMA AppendTurnAppended ==
  ASSUME Typed, Typed', Appended, NEW a \in Attempts, AppendTurn(a)
  PROVE  Appended'
<1>1. PICK role \in {"user", "assistant"} :
         /\ attempt[a].pc = role
         /\ \/ /\ Append1(Turn(a, role))
               /\ IF role = "assistant" THEN Set(a, [pc |-> "storing"])
                  ELSE Set(a, [pc |-> "assistant", tries |-> 0])
               /\ UNCHANGED landing
            \/ /\ \/ Append1(Turn(a, role)) /\ UNCHANGED landing
                  \/ landing' = landing \cup {Turn(a, role)} /\ UNCHANGED turns
                  \/ UNCHANGED memory
               /\ IF attempt[a].tries = Retries THEN Set(a, [pc |-> "storing"])
                  ELSE Set(a, [tries |-> attempt[a].tries + 1])
  BY DEF AppendTurn, At
<1>2. PICK t \in Turns : t = Turn(a, role)
  BY TurnFacts
<1>3. /\ MemoryTyped /\ t.of = a /\ t.role = role
      /\ attempt[a].tries \in 0 .. Retries /\ Retries \in Nat
      /\ AtHome /\ NotOften /\ UserFirst /\ InOrder
  BY <1>2, TurnFacts, SentTyped DEF Typed, Appended
<1>4. /\ attempt[a] \in AttemptRecord /\ attempt \in [Attempts -> AttemptRecord]
  BY DEF Typed, AttemptsTyped
<1>5. /\ \A b \in Attempts \ {a} : attempt'[b] = attempt[b]
      /\ attempt'[a].pc = role => attempt'[a].tries = attempt[a].tries + 1
      /\ attempt'[a].pc # role =>
            attempt'[a].pc = "storing" \/ (role = "user" /\ attempt'[a].pc = "assistant" /\ attempt'[a].tries = 0)
  <2>1. CASE Set(a, [pc |-> "storing"])
    BY <1>1, <1>4, <2>1 DEF Set, AttemptRecord
  <2>2. CASE Set(a, [pc |-> "assistant", tries |-> 0]) /\ role = "user"
    BY <1>1, <1>4, <2>2 DEF Set, AttemptRecord
  <2>3. CASE Set(a, [tries |-> attempt[a].tries + 1])
    BY <1>1, <1>3, <1>4, <2>3 DEF Set, AttemptRecord
  <2>4. QED
    BY <1>1, <2>1, <2>2, <2>3
<1>6. attempt'[a].pc = "assistant" /\ role = "user" => Append1(t)
  BY <1>1, <1>2, <1>4, <1>5 DEF Set, AttemptRecord
<1>7. \/ Append1(t) /\ landing' = landing
      \/ UNCHANGED turns /\ landing' \in {landing, landing \cup {t}}
  BY <1>1, <1>2 DEF memory
<1>8. /\ \A u \in Turns : Times(u) \subseteq Times(u)'
      /\ \A u \in Turns \ {t} : Times(u)' = Times(u) /\ Sent(u)' = Sent(u)
      /\ Sent(t)' \in Nat /\ Sent(t)' <= Sent(t) + 1
  <2>1. Cardinality(Times(t)) \in Nat
    BY <1>3, TimesFinite
  <2>2. CASE Append1(t) /\ landing' = landing
    BY <1>3, <2>1, <2>2, AppendedTurn DEF Sent
  <2>3. CASE UNCHANGED turns /\ landing' \in {landing, landing \cup {t}}
    BY <2>1, <2>3 DEF Sent, Times, Own
  <2>4. QED
    BY <1>7, <2>2, <2>3
<1>9. AtHome' /\ InOrder'
  <2>1. CASE Append1(t)
    BY <1>1, <1>2, <1>3, <2>1, AppendOrder DEF UserFirst
  <2>2. CASE UNCHANGED turns
    BY <1>3, <2>2 DEF AtHome, InOrder, Times, Own
  <2>3. QED
    BY <1>7, <2>1, <2>2
<1>10. ASSUME NEW b \in Attempts, NEW r \in {"user", "assistant"}
       PROVE  (Sent(Turn(b, r)) <= Tried(b, r))'
  <2>1. PICK u \in Turns : u = Turn(b, r)
    BY TurnFacts
  <2>2. u.of = b /\ u.role = r /\ (u = t <=> b = a /\ r = role)
    BY <1>2, <1>3, <2>1, TurnFacts
  <2>3. Sent(u) <= Tried(b, r) /\ Sent(u) \in Nat /\ Tried(b, r) \in Nat
    BY <1>3, <2>1, SentTyped DEF NotOften
  <2>4. Sent(u)' <= Tried(b, r)'
    <3>1. CASE b # a
      BY <1>5, <1>8, <2>2, <2>3, <3>1 DEF Tried
    <3>2. CASE b = a /\ r = role
      <4>1. Tried(a, role) = attempt[a].tries
        BY <1>1 DEF Tried
      <4>2. Tried(a, role)' \in {attempt[a].tries + 1, Retries + 1}
        BY <1>5 DEF Tried
      <4>3. QED
        BY <1>3, <1>8, <2>2, <2>3, <3>2, <4>1, <4>2
    <3>3. CASE b = a /\ r # role
      <4>1. Tried(a, r) = IF role = "user" THEN 0 ELSE Retries + 1
        BY <1>1, <3>3 DEF Tried
      <4>2. Tried(a, r)' \in {0, Retries + 1} /\ (role = "assistant" => Tried(a, r)' = Retries + 1)
        BY <1>5, <3>3 DEF Tried
      <4>3. QED
        BY <1>3, <1>8, <2>2, <2>3, <3>3, <4>1, <4>2
    <3>4. QED
      BY <3>1, <3>2, <3>3
  <2>5. QED
    BY <2>1, <2>4
<1>11. ASSUME NEW b \in Attempts, (attempt[b].pc = "assistant" \/ Turn(b, "assistant") \in landing)'
       PROVE  Times(Turn(b, "user"))' # {}
  <2>1. PICK u \in Turns : u = Turn(b, "user")
    BY TurnFacts
  <2>2. CASE attempt[b].pc = "assistant" \/ Turn(b, "assistant") \in landing
    <3>1. Times(u) # {}
      BY <1>3, <2>1, <2>2 DEF UserFirst
    <3>2. Times(u)' # {}
      BY <1>8, <3>1
    <3>3. QED
      BY <2>1, <3>2
  <2>3. CASE attempt'[b].pc = "assistant" /\ attempt[b].pc # "assistant"
    <3>1. b = a /\ role = "user" /\ Append1(t) /\ u = t
      BY <1>1, <1>2, <1>5, <1>6, <2>1, <2>3
    <3>2. Times(u)' # {}
      BY <1>3, <3>1, AppendedTurn
    <3>3. QED
      BY <2>1, <3>2
  <2>4. CASE Turn(b, "assistant") \in landing' \ landing
    <3>1. Turn(b, "assistant") = t
      BY <1>7, <2>4
    <3>2. b = a /\ role = "assistant"
      BY <1>3, <3>1, TurnFacts
    <3>3. QED
      BY <1>1, <2>2, <3>2
  <2>5. QED
    BY <1>11, <2>2, <2>3, <2>4
<1>12. QED
  BY <1>9, <1>10, <1>11 DEF Appended, NotOften, UserFirst

\* A call that was given up is carried out after all.
LEMMA LandAppended ==
  ASSUME Typed, Appended, NEW t \in landing, Land(t)
  PROVE  Appended'
<1>1. /\ Append1(t) /\ landing' = landing \ {t} /\ UNCHANGED attempt
      /\ MemoryTyped /\ AtHome /\ NotOften /\ UserFirst /\ InOrder
  BY DEF Land, Typed, Appended
<1>2. t \in Turns /\ t.of \in Attempts /\ t.role \in {"user", "assistant"} /\ t = Turn(t.of, t.role)
  BY <1>1, TurnFacts DEF MemoryTyped
<1>3. \A u \in Turns : Sent(u)' = Sent(u) /\ Times(u) \subseteq Times(u)'
  <2>1. Cardinality(Times(t)) \in Nat
    BY <1>1, <1>2, TimesFinite
  <2>2. QED
    BY <1>1, <1>2, <2>1, AppendedTurn DEF Sent
<1>4. AtHome' /\ InOrder'
  BY <1>1, <1>2, AppendOrder DEF UserFirst
<1>5. NotOften'
  <2>1. \A b \in Attempts, r \in {"user", "assistant"} : Tried(b, r)' = Tried(b, r)
    BY <1>1 DEF Tried
  <2>2. QED
    BY <1>1, <1>3, <2>1, TurnFacts DEF NotOften
<1>6. UserFirst'
  <2>1. ASSUME NEW b \in Attempts, (attempt[b].pc = "assistant" \/ Turn(b, "assistant") \in landing)'
        PROVE  Times(Turn(b, "user"))' # {}
    <3>1. PICK u \in Turns : u = Turn(b, "user")
      BY TurnFacts
    <3>2. Times(u) # {}
      BY <1>1, <2>1, <3>1 DEF UserFirst
    <3>3. Times(u)' # {}
      BY <1>3, <3>2
    <3>4. QED
      BY <3>1, <3>3
  <2>2. QED
    BY <2>1 DEF UserFirst
<1>7. QED
  BY <1>4, <1>5, <1>6 DEF Appended

LEMMA InitAppended ==
  ASSUME Init
  PROVE  Appended
<1>1. Typed /\ MemoryTyped /\ landing = {}
  BY InitInv DEF ChatInv, Typed, Init
<1>2. ASSUME NEW s \in Sessions
      PROVE  \/ turns[s] = <<>>
             \/ \E c \in Before : /\ Asked[c].session = s
                                  /\ turns[s] = <<Turn(<<c, 1>>, "user"), Turn(<<c, 1>>, "assistant")>>
  <2>1. CASE \E c \in Before : Asked[c].session = s
    <3> DEFINE c == CHOOSE c \in Before : Asked[c].session = s
    <3>1. c \in Before /\ Asked[c].session = s
      BY <2>1
    <3>2. turns[s] = <<Turn(<<c, 1>>, "user"), Turn(<<c, 1>>, "assistant")>>
      BY <2>1 DEF Init
    <3> HIDE DEF c
    <3>3. QED
      BY <3>1, <3>2
  <2>2. CASE ~ \E c \in Before : Asked[c].session = s
    BY <2>2 DEF Init
  <2>3. QED
    BY <2>1, <2>2
<1>3. \A c \in Before : <<c, 1>> \in Attempts /\ attempt[<<c, 1>>].pc = "done"
  <2>1. ASSUME NEW c \in Before
        PROVE  <<c, 1>> \in Attempts
    BY ChatAssumption DEF Attempts
  <2>2. QED
    BY <2>1, InitAttempt
\* One turn of a session: whose it is, and that only its own role is there.
<1>4. ASSUME NEW s \in Sessions, NEW i \in DOMAIN turns[s]
      PROVE  \E c \in Before :
                /\ Asked[c].session = s /\ i \in {1, 2} /\ turns[s] \in Seq(Turns)
                /\ turns[s][1] = Turn(<<c, 1>>, "user") /\ turns[s][2] = Turn(<<c, 1>>, "assistant")
                /\ DOMAIN turns[s] = {1, 2}
  <2>1. turns[s] # <<>>
    BY <1>4
  <2>2. PICK c \in Before :
           /\ Asked[c].session = s
           /\ turns[s] = <<Turn(<<c, 1>>, "user"), Turn(<<c, 1>>, "assistant")>>
    BY <1>2, <2>1
  <2>3. PICK x, y : x = Turn(<<c, 1>>, "user") /\ y = Turn(<<c, 1>>, "assistant")
    OBVIOUS
  <2>4. turns[s] = <<x, y>>
    BY <2>2, <2>3
  <2>5. DOMAIN turns[s] = {1, 2} /\ turns[s][1] = x /\ turns[s][2] = y
    BY <2>4
  <2>6. turns[s] \in Seq(Turns)
    BY <1>1 DEF MemoryTyped
  <2>7. i \in {1, 2}
    BY <1>4, <2>5
  <2>8. QED
    BY <2>2, <2>3, <2>5, <2>6, <2>7
<1>5. AtHome
  <2>1. ASSUME NEW s \in Sessions, NEW i \in DOMAIN turns[s]
        PROVE  Question(turns[s][i].of).session = s
    <3>1. PICK c \in Before :
                /\ Asked[c].session = s /\ i \in {1, 2}
                /\ turns[s][1] = Turn(<<c, 1>>, "user") /\ turns[s][2] = Turn(<<c, 1>>, "assistant")
      BY <1>4
    <3>2. turns[s][i].of = <<c, 1>>
      BY <1>3, <3>1, TurnFacts
    <3>3. QED
      BY <3>1, <3>2 DEF Question
  <2>2. QED
    BY <2>1 DEF AtHome
<1>6. \A c \in Before : Question(<<c, 1>>) = Asked[c]
  BY DEF Question
<1>7. InOrder
  <2>1. ASSUME NEW s \in Sessions, NEW i \in DOMAIN turns[s], turns[s][i].role = "assistant"
        PROVE  \E j \in Times(Turn(turns[s][i].of, "user")) : j < i
    <3>1. PICK c \in Before :
                /\ Asked[c].session = s /\ i \in {1, 2}
                /\ turns[s][1] = Turn(<<c, 1>>, "user") /\ turns[s][2] = Turn(<<c, 1>>, "assistant")
                /\ DOMAIN turns[s] = {1, 2}
      BY <1>4
    <3>2. i = 2 /\ turns[s][i].of = <<c, 1>>
      BY <1>3, <2>1, <3>1, TurnFacts
    <3>3. Own(Turn(<<c, 1>>, "user")) = turns[s]
      BY <1>3, <1>6, <3>1, TurnFacts DEF Own
    <3>4. 1 \in Times(Turn(<<c, 1>>, "user"))
      BY <3>1, <3>3 DEF Times
    <3>5. QED
      BY <3>2, <3>4
  <2>2. QED
    BY <2>1 DEF InOrder
<1>8. UserFirst
  BY <1>1, InitAttempt DEF UserFirst
<1>9. ASSUME NEW a \in Attempts, NEW role \in {"user", "assistant"}
      PROVE  Sent(Turn(a, role)) <= Tried(a, role)
  <2>1. PICK t \in Turns : t = Turn(a, role) /\ t.of = a /\ t.role = role
    BY TurnFacts
  <2>2. Sent(t) = Cardinality(Times(t)) /\ Cardinality(Times(t)) \in Nat /\ Tried(a, role) \in Nat
    BY <1>1, <2>1, TimesFinite, SentTyped DEF Sent
  <2>3. CASE Times(t) = {}
    BY <2>1, <2>2, <2>3, FS_EmptySet
  <2>4. CASE Times(t) # {}
    <3>1. PICK i \in DOMAIN Own(t) : Own(t)[i] = t
      BY <2>4 DEF Times
    <3>2. PICK s \in Sessions : s = Question(t.of).session
      BY <2>1, TurnFacts
    <3>3. PICK c \in Before :
                /\ i \in {1, 2}
                /\ Own(t)[1] = Turn(<<c, 1>>, "user") /\ Own(t)[2] = Turn(<<c, 1>>, "assistant")
                /\ DOMAIN Own(t) = {1, 2}
      <4>1. Own(t) = turns[s]
        BY <3>2 DEF Own
      <4>2. i \in DOMAIN turns[s]
        BY <3>1, <4>1
      <4>3. PICK c \in Before :
                  /\ Asked[c].session = s /\ i \in {1, 2} /\ turns[s] \in Seq(Turns)
                  /\ turns[s][1] = Turn(<<c, 1>>, "user") /\ turns[s][2] = Turn(<<c, 1>>, "assistant")
                  /\ DOMAIN turns[s] = {1, 2}
        BY <1>4, <4>2, Zenon
      <4>4. QED
        BY <4>1, <4>3
    <3>4. /\ Turn(<<c, 1>>, "user").role = "user" /\ Turn(<<c, 1>>, "assistant").role = "assistant"
          /\ Turn(<<c, 1>>, "user").of = <<c, 1>> /\ Turn(<<c, 1>>, "assistant").of = <<c, 1>>
      BY <1>3, TurnFacts
    <3>5. a = <<c, 1>> /\ Times(t) = {i}
      <4>1. Own(t)[i].of = <<c, 1>>
        BY <3>3, <3>4
      <4>2. a = <<c, 1>>
        BY <2>1, <3>1, <4>1
      <4>3. Own(t)[1].role # Own(t)[2].role
        BY <3>3, <3>4
      <4>4. \A j \in DOMAIN Own(t) : Own(t)[j] = t => j = i
        BY <3>1, <3>3, <4>3
      <4>5. QED
        BY <3>1, <4>2, <4>4 DEF Times
    <3>6. Cardinality(Times(t)) = 1
      BY <3>5, FS_Singleton
    <3>7. Tried(a, role) = Retries + 1 /\ Retries \in Nat
      BY <1>3, <3>5, ChatAssumption DEF Tried
    <3>8. QED
      <4>1. Sent(t) <= 1
        BY <2>2, <3>6
      <4>2. Sent(t) <= Tried(a, role)
        BY <2>2, <3>6, <3>7, <4>1
      <4>3. QED
        BY <2>1, <4>2
  <2>5. QED
    BY <2>3, <2>4
<1>10. QED
  BY <1>5, <1>7, <1>8, <1>9 DEF Appended, NotOften

LEMMA AppendedAlways == Spec => []Appended
<1>1. Init => Appended
  BY InitAppended
<1>2. ASSUME ChatInv, ChatInv', Appended, [Next]_vars
      PROVE  Appended'
  <2>1. Typed /\ Typed' /\ Stages /\ Unopened
    BY <1>2 DEF ChatInv, Stages
  <2>2. ASSUME UNCHANGED <<memory, attempt>>
        PROVE  Appended'
    <3>1. \A b \in Attempts : Onward(b)
      <4>1. ASSUME NEW b \in Attempts, NEW role \in {"user", "assistant"}
            PROVE  Tried(b, role)' = Tried(b, role) /\ Tried(b, role) \in Nat
        BY <2>1, <2>2, SentTyped DEF Tried
      <4>2. QED
        BY <2>2, <4>1 DEF Onward
    <3>2. UNCHANGED memory
      BY <2>2
    <3>3. QED
      BY <1>2, <2>1, <3>1, <3>2, AppendedKept
  <2>3. ASSUME NEW c \in Chats, Stream(c)
        PROVE  Appended'
    <3>1. <<c, 1>> \in Attempts /\ <<c, 2>> \in Attempts
      BY DEF Attempts
    <3>2. UNCHANGED memory
      BY <2>3 DEF Stream, Arrive, SessionBreaks, CallFails, CallRaises, Returns, Leave
    <3>3. \/ UNCHANGED attempt
          \/ Open(<<c, 1>>) /\ attempt[<<c, 1>>].pc = "unused"
          \/ Open(<<c, 2>>) /\ attempt[<<c, 2>>].pc = "unused"
      BY <2>1, <2>3 DEF Stream, Arrive, SessionBreaks, CallFails, CallRaises, Returns, Leave, Unopened
    <3>4. QED
      BY <1>2, <2>1, <2>2, <3>1, <3>2, <3>3, OpenOnward, AppendedKept
  <2>4. ASSUME NEW a \in Attempts, HandleQuery(a)
        PROVE  Appended'
    <3>1. CASE AppendTurn(a)
      BY <1>2, <2>1, <3>1, AppendTurnAppended
    <3>2. CASE ~AppendTurn(a)
      <4>1. UNCHANGED memory
        BY <2>4, <3>2 DEF HandleQuery, GetContext, LookedUp, Retrieve, StreamToken, Synthesize, Stored, Die
      <4>2. QED
        BY <1>2, <2>1, <2>4, <3>2, <4>1, OnwardSteps, AppendedKept DEF HandleQuery
    <3>3. QED
      BY <3>1, <3>2
  <2>5. ASSUME NEW t \in landing, Land(t)
        PROVE  Appended'
    BY <1>2, <2>1, <2>5, LandAppended
  <2>6. ASSUME \/ \E a \in Attempts : CacheServes(a)
               \/ Reindex \/ Tick \/ UNCHANGED vars
        PROVE  UNCHANGED <<memory, attempt>>
    BY <2>6 DEF CacheServes, Reindex, Tick, vars
  <2>7. QED
    BY <1>2, <2>2, <2>3, <2>4, <2>5, <2>6 DEF Next
<1>3. QED
  BY <1>1, <1>2, ChatInvariant, PTL DEF Spec

\* Whatever calls to the memory are given up, carried out late or never, and
\* repeated: an answer is never in a session before the question it answers,
\* and no turn is there more often than its call was made.
THEOREM ChatExchangeInOrder == Spec => []ExchangeInOrder
<1>1. ASSUME ChatInv, Appended
      PROVE  ExchangeInOrder
  <2>1. Typed /\ MemoryTyped /\ AtHome /\ NotOften /\ InOrder
    BY <1>1 DEF ChatInv, Typed, Appended
  <2> SUFFICES ASSUME NEW s \in Sessions, NEW i \in DOMAIN turns[s]
               PROVE  LET at(t) == {j \in DOMAIN turns[s] : turns[s][j] = t}
                      IN  /\ Cardinality(at(turns[s][i])) <= Retries + 1
                          /\ turns[s][i].role = "assistant" =>
                                \E j \in at(Turn(turns[s][i].of, "user")) : j < i
    BY DEF ExchangeInOrder
  <2>2. turns[s][i] \in Turns /\ Question(turns[s][i].of).session = s
    BY <2>1 DEF MemoryTyped, AtHome
  <2>3. PICK a \in Attempts, role \in {"user", "assistant"} : turns[s][i] = Turn(a, role) /\ turns[s][i].of = a
    BY <2>2, TurnFacts
  <2>4. \A r \in {"user", "assistant"} : Own(Turn(a, r)) = turns[s]
    BY <2>2, <2>3, TurnFacts DEF Own
  <2>5. \A r \in {"user", "assistant"} :
           Times(Turn(a, r)) = {j \in DOMAIN turns[s] : turns[s][j] = Turn(a, r)}
    BY <2>4 DEF Times
  <2>6. Cardinality(Times(Turn(a, role))) <= Retries + 1
    <3>1. Sent(Turn(a, role)) <= Tried(a, role) /\ Tried(a, role) \in 0 .. Retries + 1 /\ Retries \in Nat
      BY <2>1, SentTyped DEF NotOften
    <3>2. Cardinality(Times(Turn(a, role))) \in Nat
      BY <2>1, TurnFacts, TimesFinite
    <3>3. QED
      BY <3>1, <3>2 DEF Sent
  <2>7. turns[s][i].role = "assistant" => \E j \in Times(Turn(a, "user")) : j < i
    BY <2>1, <2>3 DEF InOrder
  <2>8. QED
    BY <2>3, <2>5, <2>6, <2>7
<1>2. QED
  BY <1>1, ChatInvariant, AppendedAlways, PTL
----------------------------------------------------------------------------
(* The limiter                                                             *)
(*                                                                         *)
(* A bucket is in order, and from the oldest time that still counts on it  *)
(* holds one time for every request admitted later: dropping the times     *)
(* that have left the window and adding the present one keeps this         *)
(* (HitsCount).  It never grows beyond the limit, which is why a request   *)
(* that is refused finds the window exactly full.                          *)

Clients == {Asked[c].client : c \in Chats}
Ordered(b) == \A i, j \in DOMAIN b : i <= j => b[i] <= b[j]
Later(b, x) == {i \in DOMAIN b : b[i] > x}
AdmittedAfter(k, x) == {d \in Chats : Admitted(d) /\ Asked[d].client = k /\ chat[d].at > x}

\* What a client's bucket holds at the present time.
BucketOk(b) ==
    /\ b \in Seq(Nat) /\ Ordered(b) /\ Len(b) <= MaxRequests
    /\ \A i \in DOMAIN b : b[i] <= now
BucketsOk == /\ DOMAIN hits = Clients
             /\ \A k \in Clients : BucketOk(hits[k])
HitsCount ==
    \A k \in Clients : \A x \in Int : x >= now - Window =>
        /\ IsFiniteSet(AdmittedAfter(k, x))
        /\ Cardinality(AdmittedAfter(k, x)) = Cardinality(Later(hits[k], x))
NotAnew == \A c \in Before : chat[c].phase # "new"
Limited == NotAnew /\ (MaxRequests > 0 => BucketsOk /\ HitsCount /\ LimitExact)

\* The times that have left the window are the first n of the bucket.
LEMMA RecentShape ==
  ASSUME NEW b \in Seq(Nat), Ordered(b), NEW time \in Nat
  PROVE  \E n \in 0 .. Len(b) :
            /\ Limiter!Recent(b, time) = SubSeq(b, n + 1, Len(b))
            /\ \A i \in 1 .. n : b[i] <= time - Window
            /\ \A i \in n + 1 .. Len(b) : b[i] > time - Window
<1> DEFINE left == {i \in DOMAIN b : \A j \in 1 .. i : b[j] <= time - Window}
           T == {m \in Nat : m + 1 \notin left}
<1>1. Window \in Nat /\ Len(b) \in Nat /\ DOMAIN b = 1 .. Len(b) /\ \A i \in 1 .. Len(b) : b[i] \in Nat
  BY PartsAssumption DEF Limiter!LimiterAssumption
<1>2. Len(b) \in T
  BY <1>1
<1>3. PICK n \in T : \A y \in T : ~ (<<y, n>> \in OpToRel(<, Nat))
  <2>1. T \subseteq Nat /\ T # {}
    BY <1>2
  <2> HIDE DEF T
  <2>2. QED
    BY <2>1, NatLessThanWellFounded, WFMin
<1>4. \A y \in T : ~ (y < n)
  BY <1>3 DEF OpToRel
<1>5. n \in 0 .. Len(b)
  BY <1>1, <1>2, <1>4
<1>6. \A i \in 1 .. n : i \in left
  <2>1. ASSUME NEW i \in 1 .. n
        PROVE  i \in left
    <3>1. i - 1 \in Nat /\ i - 1 < n /\ (i - 1) + 1 = i
      BY <1>5
    <3>2. QED
      BY <1>4, <3>1
  <2>2. QED
    BY <2>1
<1>7. n + 1 \notin left
  BY <1>3
<1>8. left = 1 .. n
  <2>1. ASSUME NEW i \in left
        PROVE  i \in 1 .. n
    <3>1. CASE i <= n
      BY <1>1, <3>1
    <3>2. CASE i > n
      <4>1. n + 1 \in DOMAIN b /\ \A j \in 1 .. n + 1 : j \in 1 .. i
        BY <1>1, <1>5, <3>2
      <4>2. n + 1 \in left
        BY <4>1
      <4>3. QED
        BY <1>7, <4>2
    <3>3. QED
      BY <1>1, <1>5, <3>1, <3>2
  <2>2. QED
    BY <1>6, <2>1
<1>9. Cardinality(left) = n
  <2>1. Cardinality(1 .. n) = n
    BY <1>5, FS_Interval
  <2>2. QED
    BY <1>8, <2>1
<1>10. \A i \in 1 .. n : b[i] <= time - Window
  BY <1>6
<1>11. ASSUME NEW i \in n + 1 .. Len(b)
       PROVE  b[i] > time - Window
  <2>1. n + 1 \in DOMAIN b /\ i \in DOMAIN b /\ n + 1 <= i
    BY <1>1, <1>5
  <2>2. b[n + 1] > time - Window
    <3>1. PICK j \in 1 .. n + 1 : ~ (b[j] <= time - Window)
      BY <1>7, <2>1
    <3>2. j = n + 1
      BY <1>5, <1>10, <3>1
    <3>3. QED
      BY <1>1, <2>1, <3>1, <3>2
  <2>3. b[n + 1] <= b[i]
    BY <2>1 DEF Ordered
  <2>4. QED
    BY <1>1, <2>1, <2>2, <2>3
<1>12. Limiter!Recent(b, time) = SubSeq(b, n + 1, Len(b))
  <2>1. Limiter!Recent(b, time) = SubSeq(b, Cardinality(left) + 1, Len(b))
    BY Zenon DEF Limiter!Recent, Limiter!Cardinality, Cardinality
  <2>2. QED
    BY <1>9, <2>1
<1>13. QED
  BY <1>5, <1>10, <1>11, <1>12

\* Without its first n times, none of them after x, a bucket has as many
\* times after x as before.
LEMMA LaterOfRest ==
  ASSUME NEW b \in Seq(Nat), NEW n \in 0 .. Len(b), NEW x \in Int, \A i \in 1 .. n : b[i] <= x
  PROVE  /\ SubSeq(b, n + 1, Len(b)) \in Seq(Nat)
         /\ Len(SubSeq(b, n + 1, Len(b))) = Len(b) - n
         /\ \A i \in 1 .. Len(b) - n : SubSeq(b, n + 1, Len(b))[i] = b[i + n]
         /\ Cardinality(Later(SubSeq(b, n + 1, Len(b)), x)) = Cardinality(Later(b, x))
<1>1. PICK r : r = SubSeq(b, n + 1, Len(b))
  OBVIOUS
<1>2. Len(b) \in Nat /\ n \in Nat /\ DOMAIN b = 1 .. Len(b) /\ \A i \in DOMAIN b : b[i] \in Nat
  OBVIOUS
<1>3. /\ r \in Seq(Nat) /\ Len(r) = Len(b) - n /\ DOMAIN r = 1 .. Len(b) - n
      /\ \A i \in 1 .. Len(b) - n : r[i] = b[i + n]
  <2>1. r \in Seq(Nat)
    BY <1>1, <1>2
  <2>2. Len(r) = Len(b) - n
    <3>1. n + 1 \in Int /\ Len(b) \in Int /\ \A i \in n + 1 .. Len(b) : b[i] \in Nat
      BY <1>2
    <3>2. Len(r) = IF n + 1 <= Len(b) THEN Len(b) - (n + 1) + 1 ELSE 0
      BY <1>1, <3>1, SubSeqProperties
    <3>3. ASSUME NEW l \in Nat, n \in 0 .. l
          PROVE  (IF n + 1 <= l THEN l - (n + 1) + 1 ELSE 0) = l - n
      <4>1. CASE n = l
        BY <4>1
      <4>2. CASE n < l
        BY <1>2, <4>2
      <4>3. QED
        BY <1>2, <3>3, <4>1, <4>2
    <3>4. QED
      BY <1>2, <3>2, <3>3
  <2>3. DOMAIN r = 1 .. Len(b) - n
    BY <2>1, <2>2
  <2>4. ASSUME NEW i \in 1 .. Len(b) - n
        PROVE  r[i] = b[i + n]
    BY <1>1, <1>2
  <2>5. QED
    BY <2>1, <2>2, <2>3, <2>4
<1> DEFINE f == [i \in Later(r, x) |-> i + n]
<1>4. Later(r, x) \subseteq 1 .. Len(r) /\ Later(b, x) \subseteq 1 .. Len(b)
  BY <1>2, <1>3 DEF Later
<1>5. IsFiniteSet(Later(r, x))
  <2>1. IsFiniteSet(1 .. Len(r))
    BY <1>2, <1>3, FS_Interval
  <2>2. QED
    BY <1>4, <2>1, FS_Subset
<1>6. f \in Bijection(Later(r, x), Later(b, x))
  <2>1. ASSUME NEW i \in Later(r, x)
        PROVE  f[i] \in Later(b, x)
    <3>1. i \in 1 .. Len(b) - n /\ r[i] > x /\ r[i] = b[i + n]
      BY <1>3 DEF Later
    <3>2. i + n \in DOMAIN b /\ b[i + n] > x
      BY <1>2, <3>1
    <3>3. QED
      BY <3>2 DEF Later
  <2>2. ASSUME NEW i \in Later(r, x), NEW j \in Later(r, x), f[i] = f[j]
        PROVE  i = j
    BY <1>2, <1>3, <1>4, <2>2
  <2>3. ASSUME NEW j \in Later(b, x)
        PROVE  \E i \in Later(r, x) : f[i] = j
    <3>1. j \in 1 .. Len(b) /\ b[j] > x
      BY <1>2 DEF Later
    <3>2. j > n
      BY <1>2, <3>1
    <3>3. j - n \in 1 .. Len(b) - n /\ (j - n) + n = j
      BY <1>2, <3>1, <3>2
    <3>4. r[j - n] = b[j] /\ j - n \in DOMAIN r
      BY <1>3, <3>3
    <3>5. j - n \in Later(r, x)
      BY <3>1, <3>4 DEF Later
    <3>6. QED
      BY <3>3, <3>5
  <2> HIDE DEF f
  <2>4. f \in [Later(r, x) -> Later(b, x)]
    BY <2>1 DEF f
  <2>5. QED
    BY <2>2, <2>3, <2>4 DEF Bijection, Injection, Surjection, IsInjective
<1>7. Cardinality(Later(r, x)) = Cardinality(Later(b, x))
  <2> HIDE DEF f
  <2>1. ExistsBijection(Later(r, x), Later(b, x))
    BY <1>6 DEF ExistsBijection
  <2>2. QED
    BY <1>5, <2>1, FS_Bijection
<1>8. QED
  BY <1>1, <1>3, <1>7

\* The bucket after the loop of the limiter: in order, no longer than it
\* was, with all it had from the window on and nothing else.
LEMMA RecentFacts ==
  ASSUME now \in Nat, NEW b, BucketOk(b), NEW r, r = Limiter!Recent(b, now)
  PROVE  /\ BucketOk(r)
         /\ \A x \in Int : x >= now - Window => Cardinality(Later(r, x)) = Cardinality(Later(b, x))
         /\ Cardinality(Later(b, now - Window)) = Len(r)
<1>1. b \in Seq(Nat) /\ Ordered(b) /\ Len(b) <= MaxRequests /\ \A i \in DOMAIN b : b[i] <= now
  BY DEF BucketOk
<1>2. PICK n \in 0 .. Len(b) :
         /\ Limiter!Recent(b, now) = SubSeq(b, n + 1, Len(b))
         /\ \A i \in 1 .. n : b[i] <= now - Window
         /\ \A i \in n + 1 .. Len(b) : b[i] > now - Window
  BY <1>1, RecentShape
<1>3. /\ Window \in Nat /\ MaxRequests \in Int /\ Len(b) \in Nat /\ DOMAIN b = 1 .. Len(b)
      /\ \A i \in DOMAIN b : b[i] \in Nat
  BY <1>1, PartsAssumption DEF Limiter!LimiterAssumption
<1>4. ASSUME NEW x \in Int, x >= now - Window
      PROVE  /\ r \in Seq(Nat) /\ Len(r) = Len(b) - n
             /\ \A i \in 1 .. Len(b) - n : r[i] = b[i + n]
             /\ Cardinality(Later(r, x)) = Cardinality(Later(b, x))
  <2>1. \A i \in 1 .. n : b[i] <= x
    BY <1>2, <1>3, <1>4
  <2>2. QED
    BY <1>1, <1>2, <2>1, LaterOfRest
<1>5. now - Window \in Int /\ now - Window >= now - Window
  BY <1>3
<1>6. /\ r \in Seq(Nat) /\ Len(r) = Len(b) - n
      /\ \A i \in 1 .. Len(b) - n : r[i] = b[i + n]
      /\ Cardinality(Later(r, now - Window)) = Cardinality(Later(b, now - Window))
  BY <1>4, <1>5
<1>7. DOMAIN r = 1 .. Len(b) - n /\ \A i \in DOMAIN r : i + n \in DOMAIN b /\ r[i] = b[i + n]
  <2>1. DOMAIN r = 1 .. Len(r)
    BY <1>6
  <2>2. DOMAIN r = 1 .. Len(b) - n
    BY <1>6, <2>1
  <2>3. ASSUME NEW i \in 1 .. Len(b) - n
        PROVE  i + n \in DOMAIN b
    BY <1>2, <1>3
  <2>4. QED
    BY <1>6, <2>2, <2>3
<1>8. BucketOk(r)
  <2>1. Ordered(r)
    <3>1. ASSUME NEW i \in DOMAIN r, NEW j \in DOMAIN r, i <= j
          PROVE  r[i] <= r[j]
      <4>1. i + n <= j + n
        BY <1>2, <1>3, <1>7, <3>1
      <4>2. QED
        BY <1>1, <1>7, <4>1 DEF Ordered
    <3>2. QED
      BY <3>1 DEF Ordered
  <2>2. Len(r) <= MaxRequests
    <3>1. n \in Nat /\ Len(r) = Len(b) - n /\ Len(b) <= MaxRequests
      BY <1>1, <1>2, <1>6
    <3>2. QED
      BY <1>3, <3>1
  <2>3. \A i \in DOMAIN r : r[i] <= now
    BY <1>1, <1>7
  <2>4. QED
    BY <1>6, <2>1, <2>2, <2>3 DEF BucketOk
<1>9. Later(r, now - Window) = 1 .. Len(r)
  <2>1. ASSUME NEW i \in DOMAIN r
        PROVE  r[i] > now - Window
    <3>1. i + n \in n + 1 .. Len(b)
      BY <1>2, <1>3, <1>7
    <3>2. QED
      BY <1>2, <1>7, <3>1
  <2>2. QED
    BY <1>6, <1>7, <2>1 DEF Later
<1>10. Cardinality(Later(r, now - Window)) = Len(r)
  <2>1. Len(r) \in Nat
    BY <1>6
  <2>2. Cardinality(1 .. Len(r)) = Len(r)
    <3>1. PICK m \in Nat : m = Len(r)
      BY <2>1
    <3>2. Cardinality(1 .. m) = m
      BY FS_Interval
    <3>3. QED
      BY <3>1, <3>2
  <2>3. QED
    BY <1>9, <2>2
<1>11. QED
  BY <1>4, <1>6, <1>8, <1>10

\* With the time of an admitted request at its end.
LEMMA LaterAppended ==
  ASSUME now \in Nat, NEW r, BucketOk(r), Len(r) < MaxRequests
  PROVE  /\ BucketOk(Append(r, now))
         /\ \A x \in Int : Cardinality(Later(Append(r, now), x)) =
                               IF now > x THEN Cardinality(Later(r, x)) + 1 ELSE Cardinality(Later(r, x))
<1>1. PICK s : s = Append(r, now)
  OBVIOUS
<1>2. /\ r \in Seq(Nat) /\ Ordered(r) /\ Len(r) \in Nat /\ DOMAIN r = 1 .. Len(r) /\ MaxRequests \in Int
      /\ \A i \in DOMAIN r : r[i] <= now /\ r[i] \in Nat
  BY PartsAssumption DEF BucketOk, Limiter!LimiterAssumption
<1>3. /\ s \in Seq(Nat) /\ Len(s) = Len(r) + 1 /\ DOMAIN s = 1 .. Len(r) + 1
      /\ s[Len(r) + 1] = now /\ \A i \in 1 .. Len(r) : s[i] = r[i]
  BY <1>1, <1>2
<1>4. \A i \in DOMAIN s : s[i] <= now
  BY <1>2, <1>3
<1>5. Ordered(s)
  <2>1. ASSUME NEW i \in DOMAIN s, NEW j \in DOMAIN s, i <= j
        PROVE  s[i] <= s[j]
    <3>1. CASE j = Len(r) + 1
      BY <1>3, <1>4, <3>1
    <3>2. CASE j # Len(r) + 1
      <4>1. i \in DOMAIN r /\ j \in DOMAIN r
        BY <1>2, <1>3, <2>1, <3>2
      <4>2. QED
        BY <1>2, <1>3, <2>1, <4>1 DEF Ordered
    <3>3. QED
      BY <3>1, <3>2
  <2>2. QED
    BY <2>1 DEF Ordered
<1>6. BucketOk(s)
  BY <1>2, <1>3, <1>4, <1>5 DEF BucketOk
<1>7. ASSUME NEW x \in Int
      PROVE  Cardinality(Later(s, x)) =
                 IF now > x THEN Cardinality(Later(r, x)) + 1 ELSE Cardinality(Later(r, x))
  <2>1. CASE now > x
    <3>1. Later(s, x) = Later(r, x) \cup {Len(r) + 1}
      BY <1>2, <1>3, <2>1 DEF Later
    <3>2. Len(r) + 1 \notin Later(r, x)
      BY <1>2 DEF Later
    <3>3. IsFiniteSet(Later(r, x))
      <4>1. IsFiniteSet(1 .. Len(r))
        BY <1>2, FS_Interval
      <4>2. Later(r, x) \subseteq 1 .. Len(r)
        BY <1>2 DEF Later
      <4>3. QED
        BY <4>1, <4>2, FS_Subset
    <3>4. Cardinality(Later(r, x) \cup {Len(r) + 1}) = Cardinality(Later(r, x)) + 1
      BY <3>2, <3>3, FS_AddElement
    <3>5. QED
      BY <2>1, <3>1, <3>4
  <2>2. CASE ~ (now > x)
    <3>1. \A i \in DOMAIN s : ~ (s[i] > x)
      BY <1>2, <1>3, <1>4, <2>2
    <3>2. \A i \in DOMAIN r : ~ (r[i] > x)
      BY <1>2, <2>2
    <3>3. Later(s, x) = {} /\ Later(r, x) = {}
      BY <3>1, <3>2 DEF Later
    <3>4. QED
      BY <2>2, <3>3
  <2>3. QED
    BY <2>1, <2>2
<1>8. QED
  BY <1>1, <1>6, <1>7

\* A step that neither admits nor refuses a request.
Unmoved == \A d \in Chats : /\ chat'[d].at = chat[d].at
                            /\ chat'[d].phase = "new" <=> chat[d].phase = "new"
                            /\ chat'[d].phase = "limited" <=> chat[d].phase = "limited"

LEMMA LimitedKept ==
  ASSUME Limited, now \in Nat, now' \in {now, now + 1}, hits' = hits, Unmoved
  PROVE  Limited'
<1>1. \A d \in Chats : Admitted(d)' = Admitted(d)
  BY DEF Unmoved, Admitted
<1>2. NotAnew'
  BY ChatAssumption DEF Limited, NotAnew, Unmoved
<1>3. ASSUME MaxRequests > 0
      PROVE  BucketsOk' /\ HitsCount' /\ LimitExact'
  <2>1. BucketsOk /\ HitsCount /\ LimitExact
    BY <1>3 DEF Limited
  <2>2. BucketsOk'
    <3>1. ASSUME NEW k \in Clients
          PROVE  BucketOk(hits[k])'
      <4>1. BucketOk(hits[k])
        BY <2>1 DEF BucketsOk
      <4>2. \A i \in DOMAIN hits[k] : hits[k][i] \in Nat /\ hits[k][i] <= now
        BY <4>1 DEF BucketOk
      <4>3. \A i \in DOMAIN hits[k] : hits[k][i] <= now'
        BY <4>2
      <4>4. QED
        BY <4>1, <4>3 DEF BucketOk, Ordered
    <3>2. QED
      BY <2>1, <3>1 DEF BucketsOk
  <2>3. HitsCount'
    <3>1. ASSUME NEW k \in Clients, NEW x \in Int, x >= now' - Window
          PROVE  /\ IsFiniteSet(AdmittedAfter(k, x)')
                 /\ Cardinality(AdmittedAfter(k, x)') = Cardinality(Later(hits[k], x)')
      <4>1. x >= now - Window
        <5>1. Window \in Nat
          BY PartsAssumption DEF Limiter!LimiterAssumption
        <5>2. now' \in Nat /\ now <= now'
          OBVIOUS
        <5>3. \A m \in Nat, n \in Nat, w \in Nat, y \in Int : m <= n /\ y >= n - w => y >= m - w
          OBVIOUS
        <5>4. QED
          BY <3>1, <5>1, <5>2, <5>3
      <4>2. AdmittedAfter(k, x)' = AdmittedAfter(k, x) /\ Later(hits[k], x)' = Later(hits[k], x)
        BY <1>1 DEF AdmittedAfter, Unmoved, Later
      <4>3. /\ IsFiniteSet(AdmittedAfter(k, x))
            /\ Cardinality(AdmittedAfter(k, x)) = Cardinality(Later(hits[k], x))
        BY <2>1, <4>1 DEF HitsCount
      <4>4. QED
        BY <4>2, <4>3
    <3>2. QED
      BY <3>1 DEF HitsCount
  <2>4. LimitExact'
    <3>1. \A d \in Chats : InWindow(d)' = InWindow(d)
      BY <1>1 DEF InWindow, Unmoved
    <3>2. QED
      BY <1>1, <2>1, <3>1 DEF LimitExact, Unmoved
  <2>5. QED
    BY <2>2, <2>3, <2>4
<1>4. QED
  BY <1>2, <1>3 DEF Limited

LEMMA ArriveMoves ==
  ASSUME ChatsTyped, NEW c \in Chats, Arrive(c)
  PROVE  /\ chat[c].phase = "new" /\ chat'[c].at = now /\ now' = now
         /\ \A d \in Chats \ {c} : chat'[d] = chat[d]
         /\ \/ Limiter!Allow(Asked[c].client, now) /\ chat'[c].phase \in {"calling", "failed"}
            \/ Limiter!Refuse(Asked[c].client, now) /\ chat'[c].phase = "limited"
<1>1. chat \in [Chats -> ChatRecord] /\ chat[c].phase = "new" /\ now' = now
  BY DEF ChatsTyped, Arrive
<1>2. ASSUME NEW phase \in {"calling", "failed", "limited"}, NEW n \in {0, 1},
             chat' = [chat EXCEPT ![c].phase = phase, ![c].at = now, ![c].number = n]
      PROVE  /\ chat'[c].phase = phase /\ chat'[c].at = now
             /\ \A d \in Chats \ {c} : chat'[d] = chat[d]
  <2>1. chat'[c] = [chat[c] EXCEPT !.phase = phase, !.at = now, !.number = n]
    BY <1>1, <1>2
  <2>2. chat[c] \in ChatRecord
    BY <1>1
  <2>3. chat'[c].phase = phase /\ chat'[c].at = now
    BY <2>1, <2>2 DEF ChatRecord
  <2>4. QED
    BY <1>1, <1>2, <2>3
<1>3. QED
  BY <1>1, <1>2 DEF Arrive

\* The window that ends now, by the time from which on requests count.
LEMMA WindowNow ==
  ASSUME ChatsTyped', now' = now, NEW c \in Chats, chat'[c].at = now
  PROVE  InWindow(c)' = {d \in Chats : /\ Admitted(d)' /\ Asked[d].client = Asked[c].client
                                       /\ chat'[d].at > now - Window}
<1>1. now \in Nat /\ Window \in Nat /\ \A d \in Chats : chat'[d].at \in Nat /\ chat'[d].at <= now
  BY PartsAssumption DEF ChatsTyped, ChatRecord, Limiter!LimiterAssumption
<1>2. ASSUME NEW d \in Chats
      PROVE  chat'[d].at \in chat'[c].at - Window + 1 .. chat'[c].at <=> chat'[d].at > now - Window
  <2>1. chat'[d].at \in Nat /\ chat'[d].at <= now
    BY <1>1
  <2>2. \A m \in Nat : m <= now => (m \in now - Window + 1 .. now <=> m > now - Window)
    BY <1>1
  <2>3. QED
    BY <2>1, <2>2
<1>3. QED
  BY <1>2 DEF InWindow

\* The bucket of the client after a request that came now.
LEMMA BucketsMoved ==
  ASSUME BucketsOk, now' = now, NEW k \in Clients,
         NEW s, BucketOk(s), hits' = [hits EXCEPT ![k] = s]
  PROVE  /\ BucketsOk' /\ hits'[k] = s
         /\ \A l \in Clients \ {k} : hits'[l] = hits[l]
<1>1. DOMAIN hits = Clients
  BY DEF BucketsOk
<1>2. /\ DOMAIN hits' = Clients /\ hits'[k] = s
      /\ \A l \in Clients \ {k} : hits'[l] = hits[l]
  BY <1>1
<1>3. ASSUME NEW l \in Clients
      PROVE  BucketOk(hits[l])'
  <2>1. \E b : b = hits'[l] /\ BucketOk(b)
    BY <1>2 DEF BucketsOk
  <2>2. QED
    BY <2>1 DEF BucketOk, Ordered
<1>4. QED
  BY <1>2, <1>3 DEF BucketsOk

LEMMA RefuseLimited ==
  ASSUME ChatsTyped, ChatsTyped', Limited, MaxRequests > 0, NEW c \in Chats,
         chat[c].phase = "new", chat'[c].at = now, now' = now,
         \A d \in Chats \ {c} : chat'[d] = chat[d],
         Limiter!Refuse(Asked[c].client, now), chat'[c].phase = "limited"
  PROVE  Limited'
<1>1. BucketsOk /\ HitsCount /\ LimitExact /\ NotAnew /\ now \in Nat
  BY DEF Limited, ChatsTyped
<1>2. PICK k \in Clients : k = Asked[c].client
  BY DEF Clients
<1>3. PICK r : r = Limiter!Recent(hits[k], now)
  OBVIOUS
<1>4. BucketOk(hits[k])
  BY <1>1 DEF BucketsOk
<1>5. /\ BucketOk(r)
      /\ \A x \in Int : x >= now - Window => Cardinality(Later(r, x)) = Cardinality(Later(hits[k], x))
      /\ Cardinality(Later(hits[k], now - Window)) = Len(r)
  BY <1>1, <1>3, <1>4, RecentFacts
<1>6. hits' = [hits EXCEPT ![k] = r] /\ ~ (Len(r) < MaxRequests)
  BY <1>2, <1>3 DEF Limiter!Refuse, Limiter!Admits
<1>7. /\ BucketsOk' /\ hits'[k] = r
      /\ \A l \in Clients \ {k} : hits'[l] = hits[l]
  BY <1>1, <1>5, <1>6, BucketsMoved
<1>8. \A d \in Chats : /\ Admitted(d)' = Admitted(d)
                       /\ Admitted(d) => chat'[d] = chat[d]
  BY DEF Admitted
<1>9. NotAnew'
  BY <1>1, ChatAssumption DEF NotAnew
<1>10. \A l \in Clients, x \in Int : AdmittedAfter(l, x)' = AdmittedAfter(l, x)
  BY <1>8 DEF AdmittedAfter
<1>11. HitsCount'
  <2>1. ASSUME NEW l \in Clients, NEW x \in Int, x >= now - Window
        PROVE  /\ IsFiniteSet(AdmittedAfter(l, x)')
               /\ Cardinality(AdmittedAfter(l, x)') = Cardinality(Later(hits'[l], x))
    <3>1. /\ IsFiniteSet(AdmittedAfter(l, x))
          /\ Cardinality(AdmittedAfter(l, x)) = Cardinality(Later(hits[l], x))
      BY <1>1, <2>1 DEF HitsCount
    <3>2. Cardinality(Later(hits'[l], x)) = Cardinality(Later(hits[l], x))
      BY <1>5, <1>7, <2>1
    <3>3. QED
      BY <1>10, <3>1, <3>2
  <2>2. ASSUME NEW l \in Clients, NEW x \in Int
        PROVE  Later(hits[l], x)' = Later(hits'[l], x)
    BY DEF Later
  <2>3. QED
    BY <2>1, <2>2 DEF HitsCount
<1>12. \A d \in Chats \ {c} : InWindow(d)' = InWindow(d)
  BY <1>8 DEF InWindow
<1>13. Cardinality(InWindow(c)') = MaxRequests
  <2>1. InWindow(c)' = AdmittedAfter(k, now - Window)
    <3>1. InWindow(c)' = {d \in Chats : /\ Admitted(d)' /\ Asked[d].client = Asked[c].client
                                        /\ chat'[d].at > now - Window}
      BY WindowNow
    <3>2. QED
      BY <1>2, <1>8, <3>1 DEF AdmittedAfter
  <2>2. now - Window \in Int /\ now - Window >= now - Window
    BY <1>1, PartsAssumption DEF Limiter!LimiterAssumption
  <2>3. Cardinality(AdmittedAfter(k, now - Window)) = Len(r)
    BY <1>1, <1>5, <2>2 DEF HitsCount
  <2>4. Len(r) \in Nat /\ Len(r) <= MaxRequests /\ MaxRequests \in Int
    BY <1>5, PartsAssumption DEF BucketOk, Limiter!LimiterAssumption
  <2>5. Len(r) = MaxRequests
    BY <1>6, <2>4
  <2>6. QED
    BY <2>1, <2>3, <2>5
<1>14. LimitExact'
  <2>1. ASSUME NEW d \in Chats
        PROVE  /\ Admitted(d)' => Cardinality(InWindow(d)') <= MaxRequests
               /\ chat'[d].phase = "limited" => Cardinality(InWindow(d)') = MaxRequests
    <3>1. CASE d = c
      BY <1>13, <3>1 DEF Admitted
    <3>2. CASE d # c
      <4>1. /\ Admitted(d) => Cardinality(InWindow(d)) <= MaxRequests
            /\ chat[d].phase = "limited" => Cardinality(InWindow(d)) = MaxRequests
        BY <1>1 DEF LimitExact
      <4>2. QED
        BY <1>8, <1>12, <3>2, <4>1
    <3>3. QED
      BY <3>1, <3>2
  <2>2. QED
    BY <2>1 DEF LimitExact
<1>15. QED
  BY <1>7, <1>9, <1>11, <1>14 DEF Limited

\* The same before the step, for a request that came in this tick too.
LEMMA WindowBefore ==
  ASSUME ChatsTyped, NEW d \in Chats, chat[d].at = now
  PROVE  InWindow(d) = AdmittedAfter(Asked[d].client, now - Window)
<1>1. now \in Nat /\ Window \in Nat /\ \A e \in Chats : chat[e].at \in Nat /\ chat[e].at <= now
  BY PartsAssumption DEF ChatsTyped, ChatRecord, Limiter!LimiterAssumption
<1>2. ASSUME NEW e \in Chats
      PROVE  chat[e].at \in chat[d].at - Window + 1 .. chat[d].at <=> chat[e].at > now - Window
  <2>1. chat[e].at \in Nat /\ chat[e].at <= now
    BY <1>1
  <2>2. \A m \in Nat : m <= now => (m \in now - Window + 1 .. now <=> m > now - Window)
    BY <1>1
  <2>3. QED
    BY <2>1, <2>2
<1>3. QED
  BY <1>2 DEF InWindow, AdmittedAfter

LEMMA AllowLimited ==
  ASSUME ChatsTyped, ChatsTyped', Limited, MaxRequests > 0, NEW c \in Chats,
         chat[c].phase = "new", chat'[c].at = now, now' = now,
         \A d \in Chats \ {c} : chat'[d] = chat[d],
         Limiter!Allow(Asked[c].client, now), chat'[c].phase \in {"calling", "failed"}
  PROVE  Limited'
<1>1. BucketsOk /\ HitsCount /\ LimitExact /\ NotAnew /\ now \in Nat
  BY DEF Limited, ChatsTyped
<1>2. PICK k \in Clients : k = Asked[c].client
  BY DEF Clients
<1>3. PICK r : r = Limiter!Recent(hits[k], now)
  OBVIOUS
<1>4. BucketOk(hits[k])
  BY <1>1 DEF BucketsOk
<1>5. /\ BucketOk(r)
      /\ \A x \in Int : x >= now - Window => Cardinality(Later(r, x)) = Cardinality(Later(hits[k], x))
      /\ Cardinality(Later(hits[k], now - Window)) = Len(r)
  BY <1>1, <1>3, <1>4, RecentFacts
<1>6. PICK s : s = Append(r, now)
  OBVIOUS
<1>7. hits' = [hits EXCEPT ![k] = s] /\ Len(r) < MaxRequests /\ Len(r) \in Nat /\ MaxRequests \in Int
  <2>1. ~ (MaxRequests <= 0)
    BY PartsAssumption DEF Limiter!LimiterAssumption
  <2>2. QED
    BY <1>2, <1>3, <1>5, <1>6, <2>1, PartsAssumption
       DEF Limiter!Allow, Limiter!Admits, Limiter!LimiterAssumption, BucketOk
<1>8. /\ BucketOk(s)
      /\ \A x \in Int : Cardinality(Later(s, x)) =
                            IF now > x THEN Cardinality(Later(r, x)) + 1 ELSE Cardinality(Later(r, x))
  BY <1>1, <1>5, <1>6, <1>7, LaterAppended
<1>9. /\ BucketsOk' /\ hits'[k] = s
      /\ \A l \in Clients \ {k} : hits'[l] = hits[l]
  BY <1>1, <1>7, <1>8, BucketsMoved
<1>10. /\ Admitted(c)' /\ ~ Admitted(c)
       /\ \A d \in Chats \ {c} : Admitted(d)' = Admitted(d) /\ chat'[d] = chat[d]
  BY <1>1 DEF Admitted, NotAnew
<1>11. NotAnew'
  BY <1>1, ChatAssumption DEF NotAnew
<1>12. ASSUME NEW l \in Clients, NEW x \in Int
       PROVE  AdmittedAfter(l, x)' = IF l = k /\ now > x THEN AdmittedAfter(l, x) \cup {c}
                                     ELSE AdmittedAfter(l, x)
  BY <1>2, <1>10 DEF AdmittedAfter
<1>13. ASSUME NEW l \in Clients, NEW x \in Int, x >= now - Window
       PROVE  /\ IsFiniteSet(AdmittedAfter(l, x)')
              /\ Cardinality(AdmittedAfter(l, x)') = Cardinality(Later(hits'[l], x))
  <2>1. /\ IsFiniteSet(AdmittedAfter(l, x))
        /\ Cardinality(AdmittedAfter(l, x)) = Cardinality(Later(hits[l], x))
    BY <1>1, <1>13 DEF HitsCount
  <2>2. CASE l # k
    BY <1>9, <1>12, <2>1, <2>2
  <2>3. CASE l = k
    <3>1. c \notin AdmittedAfter(l, x)
      BY <1>10 DEF AdmittedAfter
    <3>2. /\ IsFiniteSet(AdmittedAfter(l, x) \cup {c})
          /\ Cardinality(AdmittedAfter(l, x) \cup {c}) = Cardinality(AdmittedAfter(l, x)) + 1
      BY <2>1, <3>1, FS_AddElement
    <3>3. Cardinality(Later(r, x)) = Cardinality(AdmittedAfter(l, x))
      BY <1>5, <1>13, <2>1, <2>3
    <3>4. QED
      BY <1>8, <1>9, <1>12, <2>1, <2>3, <3>2, <3>3
  <2>4. QED
    BY <2>2, <2>3
<1>14. HitsCount'
  <2>1. ASSUME NEW l \in Clients, NEW x \in Int
        PROVE  Later(hits[l], x)' = Later(hits'[l], x)
    BY DEF Later
  <2>2. QED
    BY <1>13, <2>1 DEF HitsCount
\* The window that ends now.
<1>15. now - Window \in Int /\ now - Window >= now - Window
  BY <1>1, PartsAssumption DEF Limiter!LimiterAssumption
<1>16. ASSUME NEW d \in Chats, chat'[d].at = now, Asked[d].client = k
       PROVE  Cardinality(InWindow(d)') <= MaxRequests
  <2>1. InWindow(d)' = {e \in Chats : /\ Admitted(e)' /\ Asked[e].client = Asked[d].client
                                      /\ chat'[e].at > now - Window}
    BY <1>16, WindowNow
  <2>2. InWindow(d)' = AdmittedAfter(k, now - Window)'
    BY <1>16, <2>1 DEF AdmittedAfter
  <2>3. Cardinality(AdmittedAfter(k, now - Window)') = Cardinality(Later(s, now - Window))
    BY <1>9, <1>13, <1>15
  <2>4. Cardinality(Later(s, now - Window)) \in {Len(r), Len(r) + 1}
    BY <1>5, <1>8, <1>15
  <2>5. QED
    BY <1>7, <2>2, <2>3, <2>4
<1>17. LimitExact'
  <2>1. ASSUME NEW d \in Chats
        PROVE  /\ Admitted(d)' => Cardinality(InWindow(d)') <= MaxRequests
               /\ chat'[d].phase = "limited" => Cardinality(InWindow(d)') = MaxRequests
    <3>1. CASE d = c
      BY <1>2, <1>16, <3>1
    <3>2. CASE d # c
      <4>1. /\ chat'[d] = chat[d] /\ Admitted(d)' = Admitted(d)
            /\ Admitted(d) => Cardinality(InWindow(d)) <= MaxRequests
            /\ chat[d].phase = "limited" => Cardinality(InWindow(d)) = MaxRequests
        BY <1>1, <1>10, <3>2 DEF LimitExact
      <4>2. CASE chat[d].at = now /\ Asked[d].client = k
        <5>1. Admitted(d)' => Cardinality(InWindow(d)') <= MaxRequests
          BY <1>16, <4>1, <4>2
        <5>2. Cardinality(InWindow(d)) = Len(r)
          <6>1. InWindow(d) = AdmittedAfter(k, now - Window)
            BY <4>2, WindowBefore
          <6>2. Cardinality(AdmittedAfter(k, now - Window)) = Cardinality(Later(hits[k], now - Window))
            BY <1>1, <1>15 DEF HitsCount
          <6>3. QED
            BY <1>5, <6>1, <6>2
        <5>3. chat[d].phase # "limited"
          BY <1>7, <4>1, <5>2
        <5>4. QED
          BY <4>1, <5>1, <5>3
      <4>3. CASE ~ (chat[d].at = now /\ Asked[d].client = k)
        <5>1. InWindow(d)' = InWindow(d)
          <6>1. Asked[c].client # Asked[d].client \/ now \notin chat[d].at - Window + 1 .. chat[d].at
            <7>1. chat[d].at \in Nat /\ chat[d].at <= now
              BY DEF ChatsTyped, ChatRecord
            <7>2. Window \in Nat
              BY PartsAssumption DEF Limiter!LimiterAssumption
            <7>3. QED
              BY <1>1, <1>2, <4>3, <7>1, <7>2
          <6>2. QED
            BY <1>10, <4>1, <6>1 DEF InWindow
        <5>2. QED
          BY <4>1, <5>1
      <4>4. QED
        BY <4>2, <4>3
    <3>3. QED
      BY <3>1, <3>2
  <2>2. QED
    BY <2>1 DEF LimitExact
<1>18. QED
  BY <1>9, <1>11, <1>14, <1>17 DEF Limited

LEMMA InitLimited ==
  ASSUME Init
  PROVE  Limited
<1>1. /\ chat = [c \in Chats |-> IF c \in Before THEN Done(c) ELSE New]
      /\ hits = [k \in Clients |-> <<>>] /\ now = 0
  BY DEF Init, Limiter!LimiterInit, Clients
<1>2. NotAnew
  BY <1>1, ChatAssumption DEF NotAnew, Done, New
<1>3. ASSUME NEW c \in Chats
      PROVE  ~ Admitted(c) /\ chat[c].phase # "limited"
  BY <1>1 DEF Admitted, Done, New
<1>4. (\A k \in Clients, x \in Int : AdmittedAfter(k, x) = {}) /\ \A c \in Chats : InWindow(c) = {}
  BY <1>3 DEF AdmittedAfter, InWindow
<1>5. ASSUME MaxRequests > 0
      PROVE  BucketsOk /\ HitsCount /\ LimitExact
  <2>1. MaxRequests \in Int /\ IsFiniteSet({}) /\ Cardinality({}) = 0
    BY PartsAssumption, FS_EmptySet DEF Limiter!LimiterAssumption
  <2>2. BucketsOk
    <3>1. BucketOk(<<>>)
      BY <1>5, <2>1 DEF BucketOk, Ordered
    <3>2. QED
      BY <1>1, <3>1 DEF BucketsOk
  <2>3. \A k \in Clients, x \in Int : Later(hits[k], x) = {}
    BY <1>1 DEF Later
  <2>4. HitsCount
    BY <1>4, <2>1, <2>3 DEF HitsCount
  <2>5. LimitExact
    BY <1>3, <1>4, <1>5, <2>1 DEF LimitExact
  <2>6. QED
    BY <2>2, <2>4, <2>5
<1>6. QED
  BY <1>2, <1>5 DEF Limited

LEMMA EmitUnmoved ==
  ASSUME ChatsTyped, NEW a \in Attempts, NEW events, Emit(a, events)
  PROVE  Unmoved
<1>1. chat \in [Chats -> ChatRecord] /\ a[1] \in Chats
  BY QuestionTyped DEF ChatsTyped
<1>2. CASE chat' = chat
  BY <1>2 DEF Unmoved
<1>3. CASE chat' = [chat EXCEPT ![a[1]].stream = @ \o events]
  <2>1. \A d \in Chats : chat[d] \in ChatRecord
    BY <1>1
  <2>2. \A d \in Chats : chat'[d] = IF d = a[1] THEN [chat[d] EXCEPT !.stream = @ \o events] ELSE chat[d]
    BY <1>1, <1>3
  <2>3. QED
    BY <2>1, <2>2 DEF Unmoved, ChatRecord
<1>4. QED
  BY <1>2, <1>3 DEF Emit

LEMMA StreamUnmoved ==
  ASSUME ChatsTyped, NEW c \in Chats,
         SessionBreaks(c) \/ CallFails(c) \/ CallRaises(c) \/ Returns(c) \/ Leave(c)
  PROVE  Unmoved
<1>1. chat \in [Chats -> ChatRecord] /\ chat[c].phase = "calling" /\ \A d \in Chats : chat[d] \in ChatRecord
  BY DEF ChatsTyped, SessionBreaks, CallFails, CallRaises, Returns, Leave
<1>2. CASE chat' = [chat EXCEPT ![c].number = 2]
  BY <1>1, <1>2 DEF Unmoved, ChatRecord
<1>3. CASE chat' = [chat EXCEPT ![c].phase = "failed"]
  BY <1>1, <1>3 DEF Unmoved, ChatRecord
<1>4. CASE chat' = [chat EXCEPT ![c].reading = FALSE]
  BY <1>1, <1>4 DEF Unmoved, ChatRecord
<1>5. ASSUME NEW r, Finish(c, r)
      PROVE  Unmoved
  BY <1>1, <1>5 DEF Finish, Unmoved, ChatRecord
<1>6. QED
  BY <1>2, <1>3, <1>4, <1>5 DEF SessionBreaks, CallFails, CallRaises, Returns, Leave

LEMMA LimitedAlways == Spec => []Limited
<1>1. Init => Limited
  BY InitLimited
<1>2. ASSUME ChatInv, ChatInv', Limited, [Next]_vars
      PROVE  Limited'
  <2>1. ChatsTyped /\ ChatsTyped' /\ now \in Nat
    BY <1>2 DEF ChatInv, Typed, ChatsTyped
  <2>2. ASSUME NEW c \in Chats, Arrive(c)
        PROVE  Limited'
    <3>1. /\ chat[c].phase = "new" /\ chat'[c].at = now /\ now' = now
          /\ \A d \in Chats \ {c} : chat'[d] = chat[d]
          /\ \/ Limiter!Allow(Asked[c].client, now) /\ chat'[c].phase \in {"calling", "failed"}
             \/ Limiter!Refuse(Asked[c].client, now) /\ chat'[c].phase = "limited"
      BY <2>1, <2>2, ArriveMoves
    <3>2. CASE MaxRequests > 0
      BY <1>2, <2>1, <3>1, <3>2, AllowLimited, RefuseLimited
    <3>3. CASE ~ (MaxRequests > 0)
      <4>1. NotAnew'
        BY <1>2, <3>1, ChatAssumption DEF Limited, NotAnew
      <4>2. QED
        BY <3>3, <4>1 DEF Limited
    <3>4. QED
      BY <3>2, <3>3
  <2>3. ASSUME UNCHANGED hits, now' \in {now, now + 1}, Unmoved
        PROVE  Limited'
    BY <1>2, <2>1, <2>3, LimitedKept
  <2>4. ASSUME NEW c \in Chats, SessionBreaks(c) \/ CallFails(c) \/ CallRaises(c) \/ Returns(c) \/ Leave(c)
        PROVE  Limited'
    <3>1. UNCHANGED <<hits, now>>
      BY <2>4 DEF SessionBreaks, CallFails, CallRaises, Returns, Leave
    <3>2. QED
      BY <2>1, <2>3, <2>4, <3>1, StreamUnmoved
  <2>5. ASSUME NEW a \in Attempts, HandleQuery(a)
        PROVE  Limited'
    <3>1. UNCHANGED <<hits, now>>
      BY <2>5 DEF HandleQuery, GetContext, LookedUp, Retrieve, StreamToken, Synthesize, AppendTurn, Stored, Die
    <3>2. \/ UNCHANGED chat
          \/ \E events : Emit(a, events)
      BY <2>5 DEF HandleQuery, GetContext, LookedUp, Retrieve, StreamToken, Synthesize, AppendTurn, Stored, Die
    <3>3. Unmoved
      BY <2>1, <3>2, EmitUnmoved DEF Unmoved
    <3>4. QED
      BY <2>3, <3>1, <3>3
  <2>6. CASE UNCHANGED <<chat, hits>> /\ now' \in {now, now + 1}
    BY <2>3, <2>6 DEF Unmoved
  <2>7. ASSUME NEW a \in Attempts, CacheServes(a)
        PROVE  Limited'
    BY <2>6, <2>7 DEF CacheServes
  <2>8. ASSUME NEW t \in landing, Land(t)
        PROVE  Limited'
    BY <2>6, <2>8 DEF Land
  <2>9. CASE Reindex \/ Tick \/ UNCHANGED vars
    BY <2>6, <2>9 DEF Reindex, Tick, Cache!Tick, vars
  <2>10. QED
    BY <1>2, <2>2, <2>4, <2>5, <2>7, <2>8, <2>9 DEF Next, Stream
<1>3. QED
  BY <1>1, <1>2, ChatInvariant, PTL DEF Spec

\* The limiter's count is exact: no window of its length admits more of a
\* client's requests than the limit, and one is refused only when the window
\* that ends with it is full, however the requests and the clock interleave.
THEOREM ChatLimitExact == Spec => []LimitExact
<1>1. ASSUME Limited PROVE LimitExact
  BY <1>1 DEF Limited, LimitExact
<1>2. QED
  BY <1>1, LimitedAlways, PTL

----------------------------------------------------------------------------
(* What the client reads                                                   *)
(*                                                                         *)
(* While the first attempt of a chat is heard, the stream is one routing   *)
(* event per round, the specialists' result, and the pieces of the answer  *)
(* so far (Exact); once it is not, it stays a beginning of such a stream   *)
(* (Part).  An attempt whose synthesis was not abandoned sends no token    *)
(* after it has counted them (Lengths), so what the end of stream() finds  *)
(* there is the whole answer or nothing of it (Over).                      *)

Early == {"unused", "context", "looking", "route"}
First(c) == <<c, 1>>
Live(a, s, pieces) ==
    \E k \in 2 .. Len(s) :
       /\ \A i \in 1 .. k - 1 : s[i] = Event("routing", a)
       /\ s[k] = Event("agent_result", a)
       /\ Len(s) = k + Len(pieces)
       /\ \A n \in 1 .. Len(pieces) : s[k + n] = pieces[n]
Pieces(a) == {Tokens(a, m) : m \in Nat}
Spoken(a) == Tokens(a, attempt[a].sent)
\* What ClientSeesAnswer says of a chat, without the answer that was returned:
\* it is what the client reads unless it was edited after its tokens.
Sees(c) ==
    LET r == chat[c].result
        s == chat[c].stream
        ended == chat[c].phase = "closed" /\ chat[c].reading
    IN  /\ EventsInOrder(s)
        /\ ended => Types(s) = DOMAIN Rank
        /\ (ended /\ r \in Attempts /\ ~attempt[r].late) =>
              Joins(s, IF attempt[r].length = 0 THEN <<WholeAnswer(r)>> ELSE Tokens(r, attempt[r].length))

Lengths(a) ==
    LET r == attempt[a]
    IN  /\ r.pc \in Early => r.sent = 0 /\ r.length = 0 /\ r.kind = "none"
        /\ r.pc \in Early \cup {"synthesis"} => ~r.late
        /\ r.pc \in Writing \ {"dead"} => r.kind # "none" /\ (~r.late => r.length = r.sent)
        /\ r.kind = "cached" => r.pc = "done" /\ r.length = 0
        /\ r.late => r.kind \in {"partial", "evidence"}
Exact(c) ==
    LET a == First(c)
    IN  (chat[c].phase = "calling" /\ chat[c].reading /\ attempt[a].pc # "dead") =>
           IF attempt[a].pc \in Early \/ attempt[a].kind = "cached" THEN chat[c].stream = <<>>
           ELSE Live(a, chat[c].stream, Spoken(a))
Part(c) == chat[c].phase \in {"calling", "failed"} =>
    chat[c].stream = <<>> \/ \E p \in Pieces(First(c)) : Live(First(c), chat[c].stream, p)
Over(c) == chat[c].phase = "closed" =>
    /\ chat[c].result \in {<<c, 0>>, First(c)}
    /\ chat[c].result = First(c) => attempt[First(c)].pc = "done"
    /\ Sees(c)
Streaming(c) ==
    /\ chat[c].phase = "new" => chat[c].number = 0
    /\ chat[c].number = 0 => chat[c].stream = <<>> /\ chat[c].phase \in {"new", "limited", "failed"}
    /\ chat[c].number = 1 => chat[c].phase \in {"calling", "failed", "closed"} /\ Exact(c) /\ Part(c) /\ Over(c)
Streamed == \A c \in Chats : Lengths(First(c)) /\ Streaming(c)

LEMMA RankValues ==
  /\ Rank["routing"] = 1 /\ Rank["agent_result"] = 2 /\ Rank["answer"] = 3 /\ Rank["done"] = 4
  /\ DOMAIN Rank = {"routing", "agent_result", "answer", "done"}
BY DEF Rank

LEMMA EventType ==
  ASSUME NEW r
  PROVE  /\ Event("routing", r).type = "routing" /\ Event("agent_result", r).type = "agent_result"
         /\ Event("done", r).type = "done" /\ Text(r).type = "answer"
         /\ \A n : Token(r, n).type = "answer"
BY DEF Event, Text, Token

\* The pieces of an answer are answer events.
LEMMA PiecesTyped ==
  ASSUME NEW a, NEW p \in Pieces(a)
  PROVE  /\ Len(p) \in Nat /\ DOMAIN p = 1 .. Len(p)
         /\ \A n \in 1 .. Len(p) : p[n].type = "answer"
<1>1. ASSUME NEW m \in Nat, p = Tokens(a, m)
      PROVE  /\ Len(p) = m /\ DOMAIN p = 1 .. m
             /\ \A n \in 1 .. m : p[n] = Token(a, n)
  BY <1>1 DEF Tokens
<1>2. QED
  BY <1>1, EventType DEF Pieces

LEMMA Regions ==
  ASSUME NEW k \in Nat, k >= 2, NEW n \in Nat, NEW l \in {k + n, k + n + 1}
  PROVE  /\ l \in Nat /\ {1, k} \subseteq 1 .. l /\ k + 1 .. k + n \subseteq 1 .. l
         /\ k + n + 1 # k
         /\ l = k + n + 1 => k + n + 1 \in 1 .. l
         /\ \A i \in 1 .. l : \/ i \in 1 .. k - 1
                              \/ i = k
                              \/ i \in k + 1 .. k + n
                              \/ i = k + n + 1 /\ l = k + n + 1
<1>1. /\ l \in Nat /\ {1, k} \subseteq 1 .. l /\ k + 1 .. k + n \subseteq 1 .. l
      /\ k + n + 1 # k
      /\ l = k + n + 1 => k + n + 1 \in 1 .. l
  <2>1. l \in Nat /\ l >= k + n /\ l >= k
    OBVIOUS
  <2>2. {1, k} \subseteq 1 .. l /\ k + 1 .. k + n \subseteq 1 .. l
    BY <2>1
  <2>3. QED
    BY <2>1, <2>2
<1>2. ASSUME NEW i \in 1 .. l
      PROVE  \/ i \in 1 .. k - 1
             \/ i = k
             \/ i \in k + 1 .. k + n
             \/ i = k + n + 1 /\ l = k + n + 1
  <2>1. i \in Nat /\ i >= 1 /\ i <= l
    BY <1>1
  <2>2. CASE i < k
    BY <2>1, <2>2
  <2>3. CASE i > k /\ i <= k + n
    BY <2>1, <2>3
  <2>4. CASE i > k + n
    <3>1. i = k + n + 1 /\ l = k + n + 1
      BY <1>1, <2>1, <2>4
    <3>2. QED
      BY <3>1
  <2>5. QED
    BY <2>1, <2>2, <2>3, <2>4
<1>3. QED
  BY <1>1, <1>2

LEMMA PairCounted ==
  ASSUME NEW x, NEW y, x # y
  PROVE  IsFiniteSet({x} \cup {y}) /\ Cardinality({x} \cup {y}) = 2
<1>1. IsFiniteSet({x}) /\ Cardinality({x}) = 1
  BY FS_Singleton
<1>2. IsFiniteSet({x} \cup {y}) /\ Cardinality({x} \cup {y}) = Cardinality({x}) + 1
  BY <1>1, FS_AddElement
<1>3. QED
  BY <1>1, <1>2

\* The rounds and the result are the first k events, then come n pieces of
\* an answer and maybe the end; l events altogether.
Seen(s, k, n, l) ==
    /\ k \in Nat /\ k >= 2 /\ n \in Nat /\ l \in {k + n, k + n + 1} /\ DOMAIN s = 1 .. l
    /\ \A i \in 1 .. k - 1 : s[i].type = "routing"
    /\ s[k].type = "agent_result"
    /\ \A i \in k + 1 .. k + n : s[i].type = "answer"
    /\ l = k + n + 1 => s[k + n + 1].type = "done"

LEMMA SeenOrder ==
  ASSUME NEW s, NEW k, NEW n, NEW l, Seen(s, k, n, l)
  PROVE  /\ EventsInOrder(s)
         /\ {i \in DOMAIN s : s[i].type = "answer"} = k + 1 .. k + n
         /\ l = k + n + 1 /\ n # 0 => Types(s) = DOMAIN Rank
<1>0. /\ k \in Nat /\ k >= 2 /\ n \in Nat /\ l \in {k + n, k + n + 1} /\ DOMAIN s = 1 .. l
      /\ \A i \in 1 .. k - 1 : s[i].type = "routing"
      /\ s[k].type = "agent_result"
      /\ \A i \in k + 1 .. k + n : s[i].type = "answer"
      /\ l = k + n + 1 => s[k + n + 1].type = "done"
  BY DEF Seen
<1> USE <1>0
<1>1. \A i \in DOMAIN s : \/ i \in 1 .. k - 1 /\ s[i].type = "routing"
                          \/ i = k /\ s[i].type = "agent_result"
                          \/ i \in k + 1 .. k + n /\ s[i].type = "answer"
                          \/ i = k + n + 1 /\ l = k + n + 1 /\ s[i].type = "done"
  <2>1. \A i \in DOMAIN s : \/ i \in 1 .. k - 1
                            \/ i = k
                            \/ i \in k + 1 .. k + n
                            \/ i = k + n + 1 /\ l = k + n + 1
    BY Regions
  <2>2. QED
    BY <2>1
<1>2. ASSUME NEW i \in DOMAIN s, NEW j \in DOMAIN s, i < j
      PROVE  Rank[s[i].type] <= Rank[s[j].type]
  <2>1. \E x \in Nat : /\ x = Rank[s[i].type]
                       /\ \/ i \in 1 .. k - 1 /\ x = 1
                          \/ i = k /\ x = 2
                          \/ i \in k + 1 .. k + n /\ x = 3
                          \/ i = k + n + 1 /\ x = 4
    <3>1. PICK x : x = Rank[s[i].type]
      OBVIOUS
    <3>2. \/ i \in 1 .. k - 1 /\ x = 1
          \/ i = k /\ x = 2
          \/ i \in k + 1 .. k + n /\ x = 3
          \/ i = k + n + 1 /\ x = 4
      <4>1. CASE i \in 1 .. k - 1 /\ s[i].type = "routing"
        <5>1. s[i].type = "routing"
          BY <4>1
        <5>2. x = 1
          BY <3>1, <5>1, RankValues
        <5>3. QED
          BY <4>1, <5>2
      <4>2. CASE i = k /\ s[i].type = "agent_result"
        <5>1. x = 2
          BY <3>1, <4>2, RankValues
        <5>2. QED
          BY <4>2, <5>1
      <4>3. CASE i \in k + 1 .. k + n /\ s[i].type = "answer"
        <5>1. s[i].type = "answer"
          BY <4>3
        <5>2. x = 3
          BY <3>1, <5>1, RankValues
        <5>3. QED
          BY <4>3, <5>2
      <4>4. CASE i = k + n + 1 /\ l = k + n + 1 /\ s[i].type = "done"
        <5>1. x = 4
          BY <3>1, <4>4, RankValues
        <5>2. QED
          BY <4>4, <5>1
      <4>5. QED
        BY <1>1, <4>1, <4>2, <4>3, <4>4
    <3>3. x \in Nat
      BY <3>2
    <3>4. QED
      BY <3>1, <3>2, <3>3
  <2>2. \E y \in Nat : /\ y = Rank[s[j].type]
                       /\ \/ j \in 1 .. k - 1 /\ y = 1
                          \/ j = k /\ y = 2
                          \/ j \in k + 1 .. k + n /\ y = 3
                          \/ j = k + n + 1 /\ y = 4
    <3>1. PICK y : y = Rank[s[j].type]
      OBVIOUS
    <3>2. \/ j \in 1 .. k - 1 /\ y = 1
          \/ j = k /\ y = 2
          \/ j \in k + 1 .. k + n /\ y = 3
          \/ j = k + n + 1 /\ y = 4
      <4>1. CASE j \in 1 .. k - 1 /\ s[j].type = "routing"
        <5>1. s[j].type = "routing"
          BY <4>1
        <5>2. y = 1
          BY <3>1, <5>1, RankValues
        <5>3. QED
          BY <4>1, <5>2
      <4>2. CASE j = k /\ s[j].type = "agent_result"
        <5>1. y = 2
          BY <3>1, <4>2, RankValues
        <5>2. QED
          BY <4>2, <5>1
      <4>3. CASE j \in k + 1 .. k + n /\ s[j].type = "answer"
        <5>1. s[j].type = "answer"
          BY <4>3
        <5>2. y = 3
          BY <3>1, <5>1, RankValues
        <5>3. QED
          BY <4>3, <5>2
      <4>4. CASE j = k + n + 1 /\ l = k + n + 1 /\ s[j].type = "done"
        <5>1. y = 4
          BY <3>1, <4>4, RankValues
        <5>2. QED
          BY <4>4, <5>1
      <4>5. QED
        BY <1>1, <4>1, <4>2, <4>3, <4>4
    <3>3. y \in Nat
      BY <3>2
    <3>4. QED
      BY <3>1, <3>2, <3>3
  <2>3. l \in Nat /\ i \in Nat /\ j \in Nat
    BY Regions
  <2>4. PICK x \in Nat : /\ x = Rank[s[i].type]
                         /\ \/ i \in 1 .. k - 1 /\ x = 1
                            \/ i = k /\ x = 2
                            \/ i \in k + 1 .. k + n /\ x = 3
                            \/ i = k + n + 1 /\ x = 4
    BY <2>1
  <2>5. PICK y \in Nat : /\ y = Rank[s[j].type]
                         /\ \/ j \in 1 .. k - 1 /\ y = 1
                            \/ j = k /\ y = 2
                            \/ j \in k + 1 .. k + n /\ y = 3
                            \/ j = k + n + 1 /\ y = 4
    BY <2>2
  <2>6. x <= y
    <3>1. CASE i \in 1 .. k - 1 /\ x = 1
      BY <2>5, <3>1
    <3>2. CASE i = k /\ x = 2
      BY <1>2, <2>3, <2>5, <3>2
    <3>3. CASE i \in k + 1 .. k + n /\ x = 3
      BY <1>2, <2>3, <2>5, <3>3
    <3>4. CASE i = k + n + 1 /\ x = 4
      BY <1>2, <2>3, <2>5, <3>4
    <3>5. QED
      BY <2>4, <3>1, <3>2, <3>3, <3>4
  <2>7. QED
    BY <2>4, <2>5, <2>6
<1>3. Cardinality({i \in DOMAIN s : s[i].type \in {"agent_result", "done"}}) <= 2
  <2>1. {i \in DOMAIN s : s[i].type \in {"agent_result", "done"}} \subseteq {k, k + n + 1}
    BY <1>1
  <2>2. IsFiniteSet({k} \cup {k + n + 1}) /\ Cardinality({k} \cup {k + n + 1}) = 2
    <3>1. k + n + 1 # k
      BY Regions
    <3>2. QED
      BY <3>1, PairCounted
  <2>3. {k, k + n + 1} = {k} \cup {k + n + 1}
    OBVIOUS
  <2>4. PICK T : T = {i \in DOMAIN s : s[i].type \in {"agent_result", "done"}}
    OBVIOUS
  <2>5. T \subseteq {k} \cup {k + n + 1}
    BY <2>1, <2>3, <2>4
  <2>6. Cardinality(T) <= Cardinality({k} \cup {k + n + 1})
    BY <2>2, <2>5, FS_Subset
  <2>7. QED
    BY <2>2, <2>4, <2>6
<1>4. {i \in DOMAIN s : s[i].type = "answer"} = k + 1 .. k + n
  <2>1. \A i \in k + 1 .. k + n : i \in DOMAIN s
    BY Regions
  <2>2. QED
    BY <1>1, <2>1
<1>5. ASSUME l = k + n + 1, n # 0
      PROVE  Types(s) = DOMAIN Rank
  <2>1. {1, k, k + 1, k + n + 1} \subseteq DOMAIN s
    <3>1. k + 1 \in k + 1 .. k + n
      BY <1>5
    <3>2. QED
      BY <1>5, <3>1, Regions
  <2>2. /\ s[1].type = "routing" /\ s[k].type = "agent_result" /\ s[k + 1].type = "answer"
        /\ s[k + n + 1].type = "done"
    BY <1>5
  <2>3. \A i \in DOMAIN s : s[i].type \in DOMAIN Rank
    BY <1>1, RankValues
  <2>4. {s[1].type, s[k].type, s[k + 1].type, s[k + n + 1].type} \subseteq Types(s)
    BY <2>1 DEF Types
  <2>5. Types(s) \subseteq DOMAIN Rank
    BY <2>3 DEF Types
  <2>6. QED
    BY <2>2, <2>4, <2>5, RankValues
<1>6. QED
  BY <1>2, <1>3, <1>4, <1>5 DEF EventsInOrder

\* The shape of a stream that was live, by the types of its events.
LEMMA LiveTypes ==
  ASSUME NEW a, NEW p \in Pieces(a), NEW s \in Seq(Events), Live(a, s, p)
  PROVE  \E k \in Nat : /\ Seen(s, k, Len(p), k + Len(p)) /\ Len(s) = k + Len(p)
                        /\ \A n \in 1 .. Len(p) : s[k + n] = p[n]
<1>1. Len(p) \in Nat /\ \A n \in 1 .. Len(p) : p[n].type = "answer"
  BY PiecesTyped
<1>2. PICK k \in 2 .. Len(s) :
         /\ \A i \in 1 .. k - 1 : s[i] = Event("routing", a)
         /\ s[k] = Event("agent_result", a)
         /\ Len(s) = k + Len(p)
         /\ \A n \in 1 .. Len(p) : s[k + n] = p[n]
  BY DEF Live
<1>3. k \in Nat /\ k >= 2 /\ DOMAIN s = 1 .. Len(s)
  OBVIOUS
<1>4. ASSUME NEW i \in k + 1 .. k + Len(p)
      PROVE  s[i].type = "answer"
  <2>1. i - k \in 1 .. Len(p) /\ k + (i - k) = i
    BY <1>1, <1>3
  <2>2. s[i] = p[i - k]
    BY <1>2, <2>1
  <2>3. QED
    BY <1>1, <2>1, <2>2
<1>5. (\A i \in 1 .. k - 1 : s[i].type = "routing") /\ s[k].type = "agent_result"
  BY <1>2, EventType
<1>6. k + Len(p) # k + Len(p) + 1
  BY <1>1, <1>3
<1>7. Seen(s, k, Len(p), k + Len(p))
  BY <1>1, <1>2, <1>3, <1>4, <1>5, <1>6 DEF Seen
<1>8. QED
  BY <1>2, <1>3, <1>7

LEMMA LiveOrder ==
  ASSUME NEW a, NEW p \in Pieces(a), NEW s \in Seq(Events), Live(a, s, p)
  PROVE  EventsInOrder(s)
<1>1. \E k \in Nat : Seen(s, k, Len(p), k + Len(p))
  BY LiveTypes
<1>2. QED
  BY <1>1, SeenOrder

LEMMA EmptyInOrder == EventsInOrder(<<>>)
<1>1. {i \in DOMAIN <<>> : <<>>[i].type \in {"agent_result", "done"}} = {}
  OBVIOUS
<1>2. Cardinality({}) = 0
  BY FS_EmptySet
<1>3. QED
  BY <1>1, <1>2 DEF EventsInOrder

\* A stream that nothing was heard in is the answer as a whole.
LEMMA FinishUnheard ==
  ASSUME NEW r, NEW t, t = <<>> \o Rest(<<>>, r)
  PROVE  /\ EventsInOrder(t) /\ Types(t) = DOMAIN Rank
         /\ Joins(t, <<WholeAnswer(r)>>)
         /\ t = <<Event("routing", r), Event("agent_result", r), WholeAnswer(r), Event("done", r)>>
<1>1. PICK w : w = WholeAnswer(r) /\ w.type = "answer"
  BY EventType DEF WholeAnswer
<1>2. Types(<<>>) = {}
  BY DEF Types
<1>3. Rest(<<>>, r) = <<Event("routing", r), Event("agent_result", r)>> \o <<w>> \o <<Event("done", r)>>
  BY <1>1, <1>2 DEF Rest
<1>4. PICK x, y, z : x = Event("routing", r) /\ y = Event("agent_result", r) /\ z = Event("done", r)
  OBVIOUS
<1>5. t = <<x, y, w, z>>
  <2>1. t = <<>> \o (<<x, y>> \o <<w>> \o <<z>>)
    BY <1>3, <1>4
  <2>2. QED
    BY <2>1
<1>6. DOMAIN t = 1 .. 4 /\ Len(t) = 4 /\ t[1] = x /\ t[2] = y /\ t[3] = w /\ t[4] = z
  BY <1>5
<1>7. x.type = "routing" /\ y.type = "agent_result" /\ w.type = "answer" /\ z.type = "done"
  BY <1>1, <1>4, EventType
<1>8. Seen(t, 2, 1, 4)
  BY <1>6, <1>7 DEF Seen
<1>9. /\ EventsInOrder(t) /\ Types(t) = DOMAIN Rank
      /\ {i \in DOMAIN t : t[i].type = "answer"} = 2 + 1 .. 2 + 1
  BY <1>8, SeenOrder
<1>10. Joins(t, <<w>>)
  <2>1. 2 \in 0 .. Len(t) /\ Len(<<w>>) = 1 /\ DOMAIN <<w>> = {1} /\ t[2 + 1] = <<w>>[1]
    BY <1>6
  <2>2. QED
    BY <1>9, <2>1 DEF Joins
<1>11. QED
  BY <1>1, <1>4, <1>5, <1>9, <1>10

\* A stream that pieces of an answer were heard in is these, or the answer
\* as a whole if none was.
LEMMA FinishHeard ==
  ASSUME NEW a, NEW r, NEW p \in Pieces(a), NEW s \in Seq(Events), Live(a, s, p),
         NEW t, t = s \o Rest(s, r), t \in Seq(Events)
  PROVE  /\ EventsInOrder(t) /\ Types(t) = DOMAIN Rank
         /\ Joins(t, IF Len(p) = 0 THEN <<WholeAnswer(r)>> ELSE p)
<1>1. PICK w : w = WholeAnswer(r) /\ w.type = "answer"
  BY EventType DEF WholeAnswer
<1>2. PICK k \in Nat : /\ Seen(s, k, Len(p), k + Len(p)) /\ Len(s) = k + Len(p)
                      /\ \A n \in 1 .. Len(p) : s[k + n] = p[n]
  BY LiveTypes
<1>3. /\ Len(p) \in Nat /\ k >= 2 /\ DOMAIN s = 1 .. k + Len(p)
      /\ \A i \in 1 .. k - 1 : s[i].type = "routing"
      /\ s[k].type = "agent_result"
      /\ \A i \in k + 1 .. k + Len(p) : s[i].type = "answer"
  BY <1>2 DEF Seen
<1>4. PICK z : z = Event("done", r) /\ z.type = "done"
  BY EventType
<1>5. "routing" \in Types(s)
  <2>1. 1 \in 1 .. k - 1 /\ 1 \in DOMAIN s
    BY <1>3
  <2>2. QED
    BY <1>3, <2>1 DEF Types
<1>6. CASE Len(p) = 0
  <2>1. "answer" \notin Types(s)
    <3>1. \A i \in DOMAIN s : i \in 1 .. k - 1 \/ i = k
      BY <1>3, <1>6
    <3>2. QED
      BY <1>3, <3>1 DEF Types
  <2>2. Rest(s, r) = <<>> \o <<w>> \o <<z>>
    BY <1>1, <1>4, <1>5, <2>1 DEF Rest
  <2>3. t = s \o <<w, z>>
    BY <2>2
  <2>4. Len(s) = k
    BY <1>2, <1>3, <1>6
  <2>5. /\ Len(t) = k + 2 /\ DOMAIN t = 1 .. k + 2 /\ t[k + 1] = w /\ t[k + 2] = z
        /\ \A i \in 1 .. k : t[i] = s[i]
    BY <1>3, <2>3, <2>4
  <2>6. Seen(t, k, 1, k + 1 + 1)
    <3>1. k + 1 + 1 = k + 2 /\ \A i \in k + 1 .. k + 1 : i = k + 1
      OBVIOUS
    <3>2. DOMAIN t = 1 .. k + 1 + 1
      BY <2>5, <3>1
    <3>3. (\A i \in 1 .. k - 1 : t[i].type = "routing") /\ t[k].type = "agent_result"
      BY <1>3, <2>5
    <3>4. /\ \A i \in k + 1 .. k + 1 : t[i].type = "answer"
          /\ t[k + 1 + 1].type = "done"
      BY <1>1, <1>4, <2>5, <3>1
    <3>5. QED
      BY <1>3, <3>2, <3>3, <3>4 DEF Seen
  <2>7. /\ EventsInOrder(t) /\ Types(t) = DOMAIN Rank
        /\ {i \in DOMAIN t : t[i].type = "answer"} = k + 1 .. k + 1
    <3>1. k + 1 + 1 = k + 1 + 1 /\ 1 # 0
      OBVIOUS
    <3>2. QED
      BY <2>6, <3>1, SeenOrder
  <2>8. Joins(t, <<w>>)
    <3>1. k \in 0 .. Len(t) /\ Len(<<w>>) = 1 /\ DOMAIN <<w>> = {1} /\ t[k + 1] = <<w>>[1]
      BY <1>3, <2>5
    <3>2. QED
      BY <2>7, <3>1 DEF Joins
  <2>9. QED
    BY <1>1, <1>6, <2>7, <2>8
<1>7. CASE Len(p) # 0
  <2>1. "answer" \in Types(s)
    <3>1. k + 1 \in k + 1 .. k + Len(p) /\ k + 1 \in DOMAIN s
      BY <1>3, <1>7
    <3>2. QED
      BY <1>3, <3>1 DEF Types
  <2>2. Rest(s, r) = <<>> \o <<>> \o <<z>>
    BY <1>4, <1>5, <2>1 DEF Rest
  <2>3. t = s \o <<z>>
    BY <2>2
  <2>4. PICK n \in Nat : n = Len(p)
    BY <1>3
  <2>5. /\ Len(t) = k + n + 1 /\ DOMAIN t = 1 .. k + n + 1 /\ t[k + n + 1] = z
        /\ \A i \in 1 .. k + n : t[i] = s[i]
    <3>1. Len(s) = k + n
      BY <1>2, <2>4
    <3>2. QED
      BY <2>3, <3>1
  <2>6. Seen(t, k, n, k + n + 1)
    BY <1>3, <1>4, <2>4, <2>5 DEF Seen
  <2>7. /\ EventsInOrder(t) /\ Types(t) = DOMAIN Rank
        /\ {i \in DOMAIN t : t[i].type = "answer"} = k + 1 .. k + n
    BY <1>7, <2>4, <2>6, SeenOrder
  <2>8. Joins(t, p)
    <3>1. k \in 0 .. Len(t)
      BY <2>5
    <3>2. DOMAIN p = 1 .. n
      BY <2>4, PiecesTyped
    <3>3. \A i \in DOMAIN p : t[k + i] = p[i]
      <4>1. \A i \in 1 .. n : k + i \in 1 .. k + n
        OBVIOUS
      <4>2. QED
        BY <1>2, <2>4, <2>5, <3>2, <4>1
    <3>4. QED
      BY <2>4, <2>7, <3>1, <3>3 DEF Joins
  <2>9. QED
    BY <1>7, <2>7, <2>8
<1>8. QED
  BY <1>6, <1>7

\* How a stream that is heard begins and grows.
LEMMA LiveBegun ==
  ASSUME NEW a \in Attempts, NEW rounds \in Nat \ {0}, NEW s,
         s = <<>> \o ([i \in 1 .. rounds |-> Event("routing", a)] \o <<Event("agent_result", a)>>)
  PROVE  Live(a, s, Tokens(a, 0))
<1>1. PICK x, y : x = Event("routing", a) /\ y = Event("agent_result", a) /\ x \in Events /\ y \in Events
  BY EventTyped, AttemptsAreResults
<1>2. PICK f : f = [i \in 1 .. rounds |-> x]
  OBVIOUS
<1>3. f \in Seq(Events) /\ Len(f) = rounds /\ \A i \in 1 .. rounds : f[i] = x
  BY <1>1, <1>2
<1>4. s = f \o <<y>>
  <2>1. s = <<>> \o (f \o <<y>>)
    BY <1>1, <1>2
  <2>2. f \o <<y>> \in Seq(Events)
    BY <1>1, <1>3
  <2>3. QED
    BY <2>1, <2>2
<1>5. /\ Len(s) = rounds + 1 /\ s[rounds + 1] = y
      /\ \A i \in 1 .. rounds : s[i] = x
  BY <1>1, <1>3, <1>4
<1>6. Len(Tokens(a, 0)) = 0
  BY DEF Tokens
<1>7. PICK k \in Nat : k = rounds + 1
  OBVIOUS
<1>8. /\ k \in 2 .. Len(s) /\ s[k] = y /\ Len(s) = k + 0
      /\ \A i \in 1 .. k - 1 : s[i] = x
      /\ \A n \in 1 .. 0 : s[k + n] = Tokens(a, 0)[n]
  BY <1>5, <1>7
<1>9. QED
  BY <1>1, <1>6, <1>8 DEF Live

LEMMA LiveGrown ==
  ASSUME NEW a \in Attempts, NEW m \in Nat, NEW s \in Seq(Events), Live(a, s, Tokens(a, m))
  PROVE  Live(a, s \o <<Token(a, m + 1)>>, Tokens(a, m + 1))
<1>1. Len(Tokens(a, m)) = m /\ \A n \in 1 .. m : Tokens(a, m)[n] = Token(a, n)
  BY DEF Tokens
<1>2. PICK k \in 2 .. Len(s) :
         /\ \A i \in 1 .. k - 1 : s[i] = Event("routing", a)
         /\ s[k] = Event("agent_result", a)
         /\ Len(s) = k + m
         /\ \A n \in 1 .. m : s[k + n] = Token(a, n)
  BY <1>1 DEF Live
<1>3. k \in Nat /\ k >= 2
  OBVIOUS
<1>4. ASSUME NEW e, NEW p, Len(p) = m + 1, p[m + 1] = e, \A n \in 1 .. m : p[n] = Token(a, n)
      PROVE  Live(a, s \o <<e>>, p)
  <2>1. PICK t : t = s \o <<e>>
    OBVIOUS
  <2>2. Len(t) = k + m + 1 /\ t[k + m + 1] = e /\ \A i \in 1 .. k + m : t[i] = s[i]
    <3>1. PICK j \in Nat : j = k + m
      BY <1>3
    <3>2. Len(s) = j
      BY <1>2, <3>1
    <3>3. Len(t) = j + 1 /\ t[j + 1] = e /\ \A i \in 1 .. j : t[i] = s[i]
      BY <2>1, <3>2
    <3>4. QED
      BY <3>1, <3>3
  <2>3. k \in 2 .. Len(t) /\ Len(t) = k + (m + 1)
    BY <1>3, <2>2
  <2>4. ASSUME NEW n \in 1 .. m + 1
        PROVE  t[k + n] = p[n]
    <3>1. CASE n = m + 1
      <4>1. k + n = k + m + 1
        BY <1>3, <3>1
      <4>2. QED
        BY <1>4, <2>2, <3>1, <4>1
    <3>2. CASE n # m + 1
      <4>1. n \in 1 .. m /\ k + n \in 1 .. k + m
        BY <1>3, <3>2
      <4>2. QED
        BY <1>2, <1>4, <2>2, <4>1
    <3>3. QED
      BY <3>1, <3>2
  <2>5. (\A i \in 1 .. k - 1 : t[i] = Event("routing", a)) /\ t[k] = Event("agent_result", a)
    <3>1. k \in 1 .. k + m /\ \A i \in 1 .. k - 1 : i \in 1 .. k + m
      BY <1>3
    <3>2. QED
      BY <1>2, <2>2, <3>1
  <2>6. QED
    BY <1>4, <2>1, <2>3, <2>4, <2>5 DEF Live
<1>5. /\ Len(Tokens(a, m + 1)) = m + 1 /\ Tokens(a, m + 1)[m + 1] = Token(a, m + 1)
      /\ \A n \in 1 .. m : Tokens(a, m + 1)[n] = Token(a, n)
  BY DEF Tokens
<1>6. QED
  BY <1>4, <1>5

\* What an attempt emits goes to the end of its chat's stream, or nowhere.
LEMMA EmitStream ==
  ASSUME ChatsTyped, NEW c \in Chats, NEW b \in Attempts, NEW events, Emit(b, events)
  PROVE  /\ chat'[c].phase = chat[c].phase /\ chat'[c].number = chat[c].number
         /\ chat'[c].reading = chat[c].reading /\ chat'[c].result = chat[c].result
         /\ (b # First(c) /\ chat[c].number # 2) => chat'[c] = chat[c]
         /\ b = First(c) =>
               chat'[c].stream = IF chat[c].phase = "calling" /\ chat[c].number = 1 /\ chat[c].reading
                                 THEN chat[c].stream \o events ELSE chat[c].stream
<1>1. chat \in [Chats -> ChatRecord] /\ b[1] \in Chats /\ b[2] \in {1, 2} /\ b = <<b[1], b[2]>>
  <2>1. b \in Chats \X {1, 2}
    BY DEF Attempts
  <2>2. b[1] \in Chats /\ b[2] \in {1, 2} /\ b = <<b[1], b[2]>>
    BY <2>1
  <2>3. QED
    BY <2>2 DEF ChatsTyped
<1>2. CASE ~ (Heard(b) /\ chat[b[1]].reading)
  <2>1. chat' = chat
    BY <1>2 DEF Emit
  <2>2. b = First(c) => ~ (chat[c].phase = "calling" /\ chat[c].number = 1 /\ chat[c].reading)
    BY <1>2 DEF Heard, First
  <2>3. QED
    BY <2>1, <2>2
<1>3. CASE Heard(b) /\ chat[b[1]].reading /\ chat' = [chat EXCEPT ![b[1]].stream = @ \o events]
  <2>1. chat[c] \in ChatRecord
    BY <1>1
  <2>2. chat'[c] = IF c = b[1] THEN [chat[c] EXCEPT !.stream = @ \o events] ELSE chat[c]
    BY <1>1, <1>3
  <2>3. ASSUME NEW x \in ChatRecord
        PROVE  LET y == [x EXCEPT !.stream = @ \o events]
               IN  /\ y.phase = x.phase /\ y.number = x.number /\ y.reading = x.reading /\ y.result = x.result
                   /\ y.stream = x.stream \o events
    BY DEF ChatRecord
  <2>4. c = b[1] => chat[c].phase = "calling" /\ chat[c].number = b[2] /\ chat[c].reading
    BY <1>3 DEF Heard
  <2>5. (b # First(c) /\ chat[c].number # 2) => c # b[1]
    BY <1>1, <2>4 DEF First
  <2>6. b = First(c) => c = b[1] /\ b[2] = 1
    BY DEF First
  <2>7. QED
    BY <2>1, <2>2, <2>3, <2>4, <2>5, <2>6
<1>4. QED
  BY <1>2, <1>3 DEF Emit

\* What a step of handle_query does to what is heard of its attempt.
SameVoice(a) ==
    /\ attempt'[a].kind = attempt[a].kind /\ attempt'[a].sent = attempt[a].sent
    /\ attempt'[a].length = attempt[a].length /\ attempt'[a].late = attempt[a].late
    /\ attempt'[a].served = attempt[a].served
Quiet(a) ==
    /\ UNCHANGED chat /\ SameVoice(a)
    /\ \/ attempt[a].pc \in Early /\ attempt'[a].pc \in Early
       \/ /\ attempt[a].pc \in {"user", "assistant", "storing"}
          /\ attempt'[a].pc \in {"user", "assistant", "storing", "done"}
       \/ attempt'[a].pc = "dead"
Serves(a) ==
    /\ UNCHANGED chat
    /\ attempt[a].pc = "looking" /\ attempt'[a].pc = "done" /\ attempt'[a].kind = "cached"
    /\ attempt'[a].sent = attempt[a].sent /\ attempt'[a].length = attempt[a].length
    /\ attempt'[a].late = attempt[a].late
Begins(a) ==
    /\ attempt[a].pc = "route" /\ attempt'[a].pc = "synthesis" /\ SameVoice(a)
    /\ \E rounds \in Nat \ {0} :
          Emit(a, [i \in 1 .. rounds |-> Event("routing", a)] \o <<Event("agent_result", a)>>)
Speaks(a) ==
    /\ attempt[a].pc = "synthesis" \/ attempt[a].late
    /\ attempt'[a].pc = attempt[a].pc /\ attempt'[a].kind = attempt[a].kind
    /\ attempt'[a].length = attempt[a].length /\ attempt'[a].late = attempt[a].late
    /\ attempt'[a].sent = attempt[a].sent + 1
    /\ Emit(a, <<Token(a, attempt[a].sent + 1)>>)
Ends(a) ==
    /\ attempt[a].pc = "synthesis" /\ attempt'[a].pc \in {"user", "done"}
    /\ attempt'[a].sent = attempt[a].sent /\ attempt'[a].length = attempt[a].sent
    /\ UNCHANGED chat
    /\ attempt'[a].kind \in {"full", "refusal", "partial", "evidence"}
    /\ attempt'[a].late => attempt'[a].kind \in {"partial", "evidence"}

LEMMA EndsAnswered ==
  ASSUME AttemptsTyped, NEW a \in Attempts, Synthesize(a)
  PROVE  Ends(a)
<1>1. attempt[a] \in AttemptRecord /\ attempt[a].pc = "synthesis" /\ attempt \in [Attempts -> AttemptRecord]
  BY DEF AttemptsTyped, Synthesize, At
<1>2. ASSUME NEW kind, NEW calls, NEW late, Answered(a, kind, calls, late)
      PROVE  /\ attempt'[a].pc \in {"user", "done"} /\ attempt'[a].kind = kind /\ attempt'[a].late = late
             /\ attempt'[a].sent = attempt[a].sent /\ attempt'[a].length = attempt[a].sent
  <2>1. ASSUME NEW pc \in {"user", "done"}, NEW sourced, NEW own, NEW tokens,
               Set(a, [pc |-> pc, kind |-> kind, late |-> late, length |-> attempt[a].sent,
                       sourced |-> sourced, own |-> own, tokens |-> tokens])
        PROVE  /\ attempt'[a].pc \in {"user", "done"} /\ attempt'[a].kind = kind /\ attempt'[a].late = late
               /\ attempt'[a].sent = attempt[a].sent /\ attempt'[a].length = attempt[a].sent
    BY <1>1, <2>1 DEF Set, AttemptRecord
  <2>2. CASE attempt[a].mem
    BY <1>2, <2>1, <2>2 DEF Answered
  <2>3. CASE ~attempt[a].mem
    BY <1>2, <2>1, <2>3 DEF Answered
  <2>4. QED
    BY <2>2, <2>3
<1>3. /\ UNCHANGED chat
      /\ \/ Answered(a, "full", 1, FALSE)
         \/ Answered(a, "refusal", 0, FALSE)
         \/ \E kind \in {"partial", "evidence"}, late \in BOOLEAN : Answered(a, kind, 0, late)
  BY DEF Synthesize
<1>4. QED
  BY <1>1, <1>2, <1>3 DEF Ends

LEMMA VoiceMoves ==
  ASSUME AttemptsTyped, NEW a \in Attempts, HandleQuery(a)
  PROVE  /\ attempt[a].pc \in Running /\ attempt'[a].sent \in Nat
         /\ Quiet(a) \/ Serves(a) \/ Begins(a) \/ Speaks(a) \/ Ends(a)
<1>1. attempt[a] \in AttemptRecord /\ attempt \in [Attempts -> AttemptRecord]
  BY DEF AttemptsTyped
<1>2. attempt[a].sent \in Nat
  BY <1>1, ChatAssumption DEF AttemptRecord
<1>3. ASSUME GetContext(a) PROVE attempt[a].pc = "context" /\ Quiet(a)
  <2>1. \/ \E about, key : Set(a, [pc |-> "looking", about |-> about, key |-> key])
        \/ \E about, key : Set(a, [pc |-> "route", mem |-> FALSE, about |-> about, key |-> key])
    BY <1>3 DEF GetContext
  <2>2. ASSUME NEW about, NEW key, Set(a, [pc |-> "looking", about |-> about, key |-> key])
        PROVE  SameVoice(a) /\ attempt'[a].pc = "looking"
    BY <1>1, <2>2 DEF Set, AttemptRecord, SameVoice
  <2>3. ASSUME NEW about, NEW key, Set(a, [pc |-> "route", mem |-> FALSE, about |-> about, key |-> key])
        PROVE  SameVoice(a) /\ attempt'[a].pc = "route"
    BY <1>1, <2>3 DEF Set, AttemptRecord, SameVoice
  <2>4. SameVoice(a) /\ attempt'[a].pc \in {"looking", "route"}
    BY <2>1, <2>2, <2>3
  <2>5. QED
    BY <1>3, <2>4 DEF GetContext, At, Quiet, Early
<1>4. ASSUME LookedUp(a) PROVE attempt[a].pc = "looking" /\ (Quiet(a) \/ Serves(a))
  <2>1. \/ \E served : Set(a, [pc |-> "done", kind |-> "cached", served |-> served])
        \/ Set(a, [pc |-> "route"])
    BY <1>4 DEF LookedUp
  <2>2. UNCHANGED chat /\ attempt[a].pc = "looking"
    BY <1>4 DEF LookedUp, At
  <2>3. CASE Set(a, [pc |-> "route"])
    BY <1>1, <2>2, <2>3 DEF Set, AttemptRecord, SameVoice, Quiet, Early
  <2>4. ASSUME NEW served, Set(a, [pc |-> "done", kind |-> "cached", served |-> served])
        PROVE  Serves(a)
    BY <1>1, <2>2, <2>4 DEF Set, AttemptRecord, Serves
  <2>5. QED
    BY <2>1, <2>2, <2>3, <2>4
<1>5. ASSUME NEW pc, Set(a, [pc |-> pc])
      PROVE  attempt'[a].pc = pc /\ SameVoice(a)
  BY <1>1, <1>5 DEF Set, AttemptRecord, SameVoice
<1>6. ASSUME Retrieve(a) PROVE attempt[a].pc = "route" /\ (Quiet(a) \/ Begins(a))
  <2>1. attempt[a].pc = "route"
    BY <1>6 DEF Retrieve, At
  <2>2. CASE Set(a, [pc |-> "dead"]) /\ UNCHANGED chat
    <3>1. attempt'[a].pc = "dead" /\ SameVoice(a)
      BY <1>5, <2>2
    <3>2. QED
      BY <2>1, <2>2, <3>1 DEF Quiet
  <2>3. ASSUME NEW calls, NEW rounds \in 1 .. MaxRounds, NEW incomplete,
               Set(a, [pc |-> "synthesis", own |-> calls, graph |-> graph, incomplete |-> incomplete]),
               Emit(a, [i \in 1 .. rounds |-> Event("routing", a)] \o <<Event("agent_result", a)>>)
        PROVE  Begins(a)
    <3>1. attempt'[a].pc = "synthesis" /\ SameVoice(a)
      BY <1>1, <2>3 DEF Set, AttemptRecord, SameVoice
    <3>2. rounds \in Nat \ {0}
      BY ChatAssumption
    <3>3. QED
      BY <2>1, <2>3, <3>1, <3>2 DEF Begins
  <2>4. QED
    BY <1>6, <2>1, <2>2, <2>3 DEF Retrieve
<1>7. ASSUME StreamToken(a) PROVE attempt[a].pc \in Running /\ Speaks(a)
  <2>1. /\ Set(a, [sent |-> attempt[a].sent + 1]) /\ Emit(a, <<Token(a, attempt[a].sent + 1)>>)
        /\ attempt[a].pc = "synthesis" \/ (attempt[a].late /\ attempt[a].pc \in Running)
    BY <1>7 DEF StreamToken, At
  <2>2. QED
    BY <1>1, <2>1 DEF Set, AttemptRecord, Speaks, Running, Accounting
<1>8. ASSUME AppendTurn(a) PROVE attempt[a].pc \in {"user", "assistant"} /\ Quiet(a)
  <2>1. UNCHANGED chat /\ attempt[a].pc \in {"user", "assistant"}
    BY <1>8 DEF AppendTurn, At
  <2>2. \/ Set(a, [pc |-> "storing"])
        \/ Set(a, [pc |-> "assistant", tries |-> 0])
        \/ \E tries : Set(a, [tries |-> tries])
    BY <1>8 DEF AppendTurn
  <2>3. ASSUME Set(a, [pc |-> "assistant", tries |-> 0])
        PROVE  SameVoice(a) /\ attempt'[a].pc = "assistant"
    BY <1>1, <2>3 DEF Set, AttemptRecord, SameVoice
  <2>4. ASSUME NEW tries, Set(a, [tries |-> tries])
        PROVE  SameVoice(a) /\ attempt'[a].pc = attempt[a].pc
    BY <1>1, <2>4 DEF Set, AttemptRecord, SameVoice
  <2>5. attempt'[a].pc \in {"user", "assistant", "storing"} /\ SameVoice(a)
    BY <1>5, <2>1, <2>2, <2>3, <2>4
  <2>6. QED
    BY <2>1, <2>5 DEF Quiet
<1>9. ASSUME Stored(a) PROVE attempt[a].pc = "storing" /\ Quiet(a)
  BY <1>5, <1>9 DEF Stored, At, Quiet
<1>10. ASSUME Die(a) PROVE attempt[a].pc \in Running /\ Quiet(a)
  BY <1>5, <1>10 DEF Die, Quiet
<1>11. ASSUME Synthesize(a) PROVE attempt[a].pc = "synthesis" /\ Ends(a)
  BY <1>11, EndsAnswered DEF AttemptsTyped, Synthesize, At
<1>12. /\ attempt[a].pc \in Running
       /\ Quiet(a) \/ Serves(a) \/ Begins(a) \/ Speaks(a) \/ Ends(a)
  BY <1>3, <1>4, <1>6, <1>7, <1>8, <1>9, <1>10, <1>11 DEF HandleQuery, Running, Accounting
<1>13. attempt'[a].sent \in Nat
  BY <1>2, <1>12 DEF Quiet, SameVoice, Serves, Begins, Speaks, Ends
<1>14. QED
  BY <1>12, <1>13

LEMMA LengthsMoved ==
  ASSUME NEW a, Lengths(a), attempt[a].pc \in Running,
         Quiet(a) \/ Serves(a) \/ Begins(a) \/ Speaks(a) \/ Ends(a)
  PROVE  Lengths(a)'
<1>1. attempt[a].pc # "done" /\ attempt[a].kind # "cached"
  BY DEF Lengths, Running, Accounting
<1>2. CASE Quiet(a)
  <2>1. CASE attempt[a].pc \in Early /\ attempt'[a].pc \in Early
    BY <1>1, <1>2, <2>1 DEF Lengths, Quiet, SameVoice, Early, Writing
  <2>2. CASE /\ attempt[a].pc \in {"user", "assistant", "storing"}
             /\ attempt'[a].pc \in {"user", "assistant", "storing", "done"}
    BY <1>1, <1>2, <2>2 DEF Lengths, Quiet, SameVoice, Early, Writing
  <2>3. CASE attempt'[a].pc = "dead"
    BY <1>1, <1>2, <2>3 DEF Lengths, Quiet, SameVoice, Early, Writing
  <2>4. QED
    BY <1>2, <2>1, <2>2, <2>3 DEF Quiet
<1>3. CASE Serves(a)
  BY <1>3 DEF Lengths, Serves, Early, Writing
<1>4. CASE Begins(a)
  BY <1>1, <1>4 DEF Lengths, Begins, SameVoice, Early, Writing
<1>5. CASE Speaks(a)
  BY <1>1, <1>5 DEF Lengths, Speaks, Early, Writing
<1>6. CASE Ends(a)
  BY <1>6 DEF Lengths, Ends, Early, Writing
<1>7. QED
  BY <1>2, <1>3, <1>4, <1>5, <1>6

\* A chat whose stream and whose first attempt stay as they are.
LEMMA StreamingKept ==
  ASSUME NEW c \in Chats, Lengths(First(c)), Streaming(c), chat'[c] = chat[c],
         attempt'[First(c)].pc = attempt[First(c)].pc, SameVoice(First(c))
  PROVE  Lengths(First(c))' /\ Streaming(c)'
<1>1. Lengths(First(c))'
  BY DEF Lengths, SameVoice, First
<1>2. Exact(c) => Exact(c)'
  BY DEF Exact, Spoken, SameVoice, First
<1>3. Part(c) => Part(c)'
  BY DEF Part
<1>4. Over(c) => Over(c)'
  <2>1. SUFFICES ASSUME Over(c), chat[c].phase = "closed"
        PROVE  Over(c)'
    BY DEF Over
  <2>2. chat[c].result \in {<<c, 0>>, First(c)} /\ Sees(c)
    BY <2>1 DEF Over
  <2>3. <<c, 0>> \notin Attempts
    BY DEF Attempts
  <2>4. Sees(c)'
    <3>1. CASE chat[c].result = <<c, 0>>
      BY <2>2, <2>3, <3>1 DEF Sees
    <3>2. CASE chat[c].result = First(c)
      <4>1. PICK r : r = First(c)
        OBVIOUS
      <4>2. /\ attempt'[r].late = attempt[r].late /\ attempt'[r].length = attempt[r].length
            /\ WholeAnswer(r)' = WholeAnswer(r)
        BY <4>1 DEF SameVoice, WholeAnswer, First
      <4>3. chat[c].result = r /\ chat'[c].result = r
        BY <3>2, <4>1
      <4>4. QED
        BY <2>2, <4>2, <4>3 DEF Sees
    <3>3. QED
      BY <2>2, <3>1, <3>2
  <2>5. QED
    BY <2>1, <2>4 DEF Over, First
<1>5. QED
  BY <1>1, <1>2, <1>3, <1>4 DEF Streaming

\* One that is not called by its first attempt alone is spared its steps.
LEMMA StreamingApart ==
  ASSUME NEW c \in Chats, Streaming(c),
         chat'[c].phase = chat[c].phase, chat'[c].number = chat[c].number,
         chat[c].number = 2
  PROVE  Streaming(c)'
BY DEF Streaming

LEMMA ExactIsPart ==
  ASSUME NEW c \in Chats, Exact(c), chat[c].phase = "calling", chat[c].reading,
         attempt[First(c)].pc # "dead", attempt[First(c)].sent \in Nat
  PROVE  Part(c)
BY DEF Exact, Part, Spoken, Pieces

\* The stream of a chat that its first attempt is heard in.
LEMMA ExactMoved ==
  ASSUME ChatsTyped, NEW c \in Chats, Lengths(First(c)), Stage(First(c)), First(c) \in Attempts,
         Exact(c), attempt[First(c)].pc \in Running, attempt[First(c)].sent \in Nat,
         chat[c].phase = "calling", chat[c].number = 1, chat[c].reading,
         LET a == First(c) IN Quiet(a) \/ Serves(a) \/ Begins(a) \/ Speaks(a) \/ Ends(a)
  PROVE  Exact(c)'
<1>1. PICK a \in Attempts : a = First(c)
  OBVIOUS
<1>2. PICK s \in Seq(Events) : s = chat[c].stream
  BY DEF ChatsTyped, ChatRecord
<1>3. /\ Lengths(a) /\ Stage(a) /\ attempt[a].pc \in Running /\ attempt[a].sent \in Nat
      /\ attempt[a].pc # "dead" /\ attempt[a].kind # "cached"
  BY <1>1 DEF Lengths, Running, Accounting
<1>4. IF attempt[a].pc \in Early THEN s = <<>> ELSE Live(a, s, Spoken(a))
  BY <1>1, <1>2, <1>3 DEF Exact
<1>5. /\ attempt'[a].pc # "dead" /\ (attempt'[a].pc \in Early \/ attempt'[a].kind = "cached")
         /\ chat'[c].stream = <<>> => Exact(c)'
      /\ attempt'[a].pc \notin Early /\ attempt'[a].kind # "cached"
         /\ Live(a, chat'[c].stream, Spoken(a)') => Exact(c)'
      /\ attempt'[a].pc = "dead" => Exact(c)'
  BY <1>1 DEF Exact, First
<1>6. ASSUME NEW events, Emit(a, events) PROVE chat'[c].stream = s \o events
  BY <1>1, <1>2, <1>6, EmitStream
<1>7. CASE Quiet(a)
  <2>1. chat'[c].stream = s /\ Spoken(a)' = Spoken(a) /\ attempt'[a].kind # "cached"
    BY <1>2, <1>3, <1>7 DEF Quiet, SameVoice, Spoken
  <2>2. attempt'[a].pc # "dead" => (attempt'[a].pc \in Early <=> attempt[a].pc \in Early)
    BY <1>7 DEF Quiet, Early
  <2>3. QED
    BY <1>4, <1>5, <2>1, <2>2
<1>8. CASE Serves(a)
  BY <1>2, <1>4, <1>5, <1>8 DEF Serves, Early
<1>9. CASE Begins(a)
  <2>1. PICK rounds \in Nat \ {0} :
           Emit(a, [i \in 1 .. rounds |-> Event("routing", a)] \o <<Event("agent_result", a)>>)
    BY <1>9 DEF Begins
  <2>2. PICK t : t = chat'[c].stream
    OBVIOUS
  <2>3. s = <<>> /\ attempt[a].sent = 0 /\ attempt[a].kind = "none"
    BY <1>3, <1>4, <1>9 DEF Begins, Early, Lengths
  <2>4. t = <<>> \o ([i \in 1 .. rounds |-> Event("routing", a)] \o <<Event("agent_result", a)>>)
    BY <1>6, <2>1, <2>2, <2>3
  <2>5. Live(a, t, Tokens(a, 0))
    BY <2>4, LiveBegun
  <2>6. Spoken(a)' = Tokens(a, 0) /\ attempt'[a].kind = "none" /\ attempt'[a].pc = "synthesis"
    BY <1>9, <2>3 DEF Begins, SameVoice, Spoken
  <2>7. QED
    BY <1>5, <2>2, <2>5, <2>6 DEF Early
<1>10. CASE Speaks(a)
  <2>1. PICK m \in Nat : m = attempt[a].sent
    BY <1>3
  <2>2. PICK t : t = chat'[c].stream
    OBVIOUS
  <2>3. attempt[a].pc \notin Early
    BY <1>3, <1>10 DEF Speaks, Early, Lengths, Stage, Writing
  <2>4. Live(a, s, Tokens(a, m)) /\ t = s \o <<Token(a, m + 1)>>
    BY <1>4, <1>6, <1>10, <2>1, <2>2, <2>3 DEF Spoken, Speaks
  <2>5. Live(a, t, Tokens(a, m + 1))
    BY <2>4, LiveGrown
  <2>6. /\ Spoken(a)' = Tokens(a, m + 1) /\ attempt'[a].kind # "cached"
        /\ attempt'[a].pc \notin Early
    BY <1>3, <1>10, <2>1, <2>3 DEF Speaks, Spoken
  <2>7. QED
    BY <1>5, <2>2, <2>5, <2>6
<1>11. CASE Ends(a)
  <2>1. PICK m \in Nat : m = attempt[a].sent
    BY <1>3
  <2>2. PICK t : t = chat'[c].stream
    OBVIOUS
  <2>3. /\ attempt[a].kind = "none" /\ attempt[a].pc \notin Early
        /\ attempt'[a].pc \notin Early \cup {"dead"} /\ attempt'[a].kind # "cached"
    BY <1>3, <1>11 DEF Ends, Early, Stage, Writing
  <2>4. Live(a, s, Tokens(a, m))
    BY <1>4, <2>1, <2>3 DEF Spoken
  <2>5. Spoken(a)' = Tokens(a, m) /\ t = s
    BY <1>2, <1>11, <2>1, <2>2 DEF Ends, Spoken
  <2>6. QED
    BY <1>5, <2>2, <2>3, <2>4, <2>5
<1>12. QED
  BY <1>1, <1>7, <1>8, <1>9, <1>10, <1>11

LEMMA FirstTyped ==
  ASSUME AttemptsTyped, NEW c \in Chats
  PROVE  First(c) \in Attempts /\ attempt[First(c)].sent \in Nat
<1>1. First(c) \in Attempts
  BY DEF First, Attempts
<1>2. QED
  BY <1>1, ChatAssumption DEF AttemptsTyped, AttemptRecord

\* A step of a chat's first attempt.
LEMMA FirstStreaming ==
  ASSUME AttemptsTyped, ChatsTyped, NEW c \in Chats, Stage(First(c)), HandleQuery(First(c)),
         Lengths(First(c)), Streaming(c)
  PROVE  Lengths(First(c))' /\ Streaming(c)'
<1>1. PICK a \in Attempts : a = First(c)
  BY FirstTyped
<1>2. /\ attempt[a].pc \in Running /\ attempt[a].sent \in Nat /\ attempt'[a].sent \in Nat
      /\ Quiet(a) \/ Serves(a) \/ Begins(a) \/ Speaks(a) \/ Ends(a)
  BY <1>1, VoiceMoves, FirstTyped
<1>3. Lengths(First(c))'
  BY <1>1, <1>2, LengthsMoved DEF First
<1>4. \E events : UNCHANGED chat \/ Emit(a, events)
  BY <1>2 DEF Quiet, Serves, Begins, Speaks, Ends
<1>5. /\ chat'[c].phase = chat[c].phase /\ chat'[c].number = chat[c].number
      /\ chat'[c].reading = chat[c].reading /\ chat'[c].result = chat[c].result
      /\ ~ (chat[c].phase = "calling" /\ chat[c].number = 1 /\ chat[c].reading)
            => chat'[c].stream = chat[c].stream
  BY <1>1, <1>4, EmitStream
<1>6. CASE chat[c].number # 1
  BY <1>3, <1>5, <1>6 DEF Streaming
<1>7. CASE chat[c].number = 1 /\ chat[c].phase = "closed"
  <2>1. Over(c) /\ attempt[First(c)].pc # "done"
    BY <1>1, <1>2, <1>7 DEF Streaming, Running, Accounting
  <2>2. chat[c].result = <<c, 0>> /\ Sees(c) /\ <<c, 0>> # First(c) /\ <<c, 0>> \notin Attempts
    BY <1>7, <2>1 DEF Over, First, Attempts
  <2>3. Sees(c)'
    BY <1>5, <1>7, <2>2 DEF Sees
  <2>4. Over(c)'
    BY <1>5, <2>2, <2>3 DEF Over, First
  <2>5. QED
    BY <1>3, <1>5, <1>7, <2>4 DEF Streaming, Exact, Part
<1>8. CASE chat[c].number = 1 /\ chat[c].phase \in {"calling", "failed"}
  <2>1. Exact(c) /\ Part(c)
    BY <1>8 DEF Streaming
  <2>2. Over(c)'
    BY <1>5, <1>8 DEF Over
  <2>3. CASE chat[c].phase = "calling" /\ chat[c].reading
    <3>1. Exact(c)'
      BY <1>1, <1>2, <1>8, <2>1, <2>3, ExactMoved
    <3>2. Part(c)'
      <4>1. CASE attempt'[a].pc = "dead"
        <5>1. UNCHANGED chat
          BY <1>2, <4>1 DEF Quiet, Serves, Begins, Speaks, Ends, Running, Accounting
        <5>2. QED
          BY <2>1, <5>1 DEF Part
      <4>2. CASE attempt'[a].pc # "dead"
        BY <1>1, <1>2, <1>5, <1>8, <2>3, <3>1, <4>2 DEF Exact, Part, Spoken, Pieces, First
      <4>3. QED
        BY <4>1, <4>2
    <3>3. QED
      BY <1>3, <1>5, <1>8, <2>2, <3>1, <3>2 DEF Streaming
  <2>4. CASE ~ (chat[c].phase = "calling" /\ chat[c].reading)
    <3>1. Exact(c)' /\ Part(c)'
      BY <1>5, <1>8, <2>1, <2>4 DEF Exact, Part
    <3>2. QED
      BY <1>3, <1>5, <1>8, <2>2, <3>1 DEF Streaming
  <2>5. QED
    BY <2>3, <2>4
<1>9. chat[c].phase \in {"new", "limited", "calling", "failed", "closed"}
  BY DEF ChatsTyped, ChatRecord
<1>10. QED
  BY <1>6, <1>7, <1>8, <1>9 DEF Streaming

\* Opening one attempt leaves what is heard of the others.
LEMMA OpenVoices ==
  ASSUME AttemptsTyped, NEW a \in Attempts, Open(a)
  PROVE  /\ ~attempt'[a].late
         /\ \A b \in Attempts \ {a} : attempt'[b].pc = attempt[b].pc /\ SameVoice(b)
<1>1. \E s : attempt'[a] = [Unused EXCEPT !.pc = "context", !.shared = s]
  BY DEF Open
<1>2. ~attempt'[a].late
  BY <1>1 DEF Unused
<1>3. ASSUME NEW b \in Attempts \ {a} PROVE attempt'[b].pc = attempt[b].pc /\ SameVoice(b)
  <2>1. attempt[b] \in AttemptRecord
    BY DEF AttemptsTyped
  <2>2. attempt'[b] = [attempt[b] EXCEPT !.shared = TRUE] \/ attempt'[b] = attempt[b]
    BY OpenEffect
  <2>3. QED
    BY <2>1, <2>2 DEF AttemptRecord, SameVoice
<1>4. QED
  BY <1>2, <1>3

\* A chat that begins to be called, or is turned away.
LEMMA StreamingBegins ==
  ASSUME NEW c \in Chats, Streaming(c), Lengths(First(c)), chat[c].phase = "new",
         chat'[c].stream = chat[c].stream,
         \/ /\ chat'[c].phase \in {"failed", "limited"} /\ chat'[c].number = 0
            /\ UNCHANGED attempt
         \/ /\ chat'[c].phase = "calling" /\ chat'[c].number = 1
            /\ LET r == attempt'[First(c)]
               IN  r.pc = "context" /\ r.sent = 0 /\ r.length = 0 /\ r.kind = "none" /\ ~r.late
  PROVE  Lengths(First(c))' /\ Streaming(c)'
<1>1. chat'[c].stream = <<>>
  BY DEF Streaming
<1>2. CASE /\ chat'[c].phase \in {"failed", "limited"} /\ chat'[c].number = 0
           /\ UNCHANGED attempt
  BY <1>1, <1>2 DEF Streaming, Lengths, First
<1>3. CASE /\ chat'[c].phase = "calling" /\ chat'[c].number = 1
           /\ LET r == attempt'[First(c)]
              IN  r.pc = "context" /\ r.sent = 0 /\ r.length = 0 /\ r.kind = "none" /\ ~r.late
  <2>1. Lengths(First(c))'
    BY <1>3 DEF Lengths, Early, Writing, First
  <2>2. Exact(c)' /\ Part(c)' /\ Over(c)'
    BY <1>1, <1>3 DEF Exact, Part, Over, Early, First
  <2>3. QED
    BY <1>1, <1>3, <2>1, <2>2 DEF Streaming
<1>4. QED
  BY <1>2, <1>3

\* The end of stream(), heard or not, after any beginning.
LEMMA StreamingEnds ==
  ASSUME NEW c \in Chats, Streaming(c), Lengths(First(c)), chat[c].phase = "calling", chat[c].number = 1,
         NEW r \in {<<c, 0>>, First(c)}, r = First(c) => attempt[r].pc = "done",
         NEW s \in Seq(Events), NEW t \in Seq(Events), s = chat[c].stream, t = chat'[c].stream,
         chat'[c].phase = "closed", chat'[c].number = 1, chat'[c].result = r,
         chat'[c].reading = chat[c].reading,
         t = IF chat[c].reading THEN s \o Rest(s, r) ELSE s,
         AttemptsTyped, UNCHANGED attempt
  PROVE  Streaming(c)'
<1>1. PICK a \in Attempts : a = First(c)
  BY FirstTyped
<1>2. Exact(c) /\ Part(c) /\ attempt[a].sent \in Nat
  BY <1>1, FirstTyped DEF Streaming
<1>3. s = <<>> \/ \E p \in Pieces(a) : Live(a, s, p)
  BY <1>1, <1>2 DEF Part
<1>4. EventsInOrder(t) /\ (chat[c].reading => Types(t) = DOMAIN Rank)
  <2>1. CASE chat[c].reading
    <3>1. CASE s = <<>>
      BY <2>1, <3>1, FinishUnheard
    <3>2. ASSUME NEW p \in Pieces(a), Live(a, s, p)
          PROVE  EventsInOrder(t) /\ Types(t) = DOMAIN Rank
      <4>1. t = s \o Rest(s, r)
        BY <2>1
      <4>2. QED
        BY <3>2, <4>1, FinishHeard
    <3>3. QED
      BY <1>3, <3>1, <3>2
  <2>2. CASE ~chat[c].reading
    BY <1>3, <2>2, LiveOrder, EmptyInOrder
  <2>3. QED
    BY <2>1, <2>2
<1>5. ASSUME chat[c].reading, r \in Attempts, ~attempt[r].late
      PROVE  Joins(t, IF attempt[r].length = 0 THEN <<WholeAnswer(r)>> ELSE Tokens(r, attempt[r].length))
  <2>1. r = a /\ attempt[a].pc = "done"
    BY <1>1, <1>5 DEF Attempts
  <2>2. attempt[a].length = attempt[a].sent /\ attempt[a].pc \notin Early \cup {"dead"}
        /\ (attempt[a].kind = "cached" => attempt[a].length = 0)
    BY <1>1, <1>5, <2>1 DEF Lengths, Writing, Early
  <2>3. PICK m \in Nat : m = attempt[a].sent /\ m = attempt[a].length
    BY <1>2, <2>2
  <2>4. CASE attempt[a].kind = "cached"
    <3>1. s = <<>>
      BY <1>1, <1>2, <1>5, <2>2, <2>4 DEF Exact
    <3>2. Joins(t, <<WholeAnswer(a)>>)
      BY <1>5, <2>1, <3>1, FinishUnheard
    <3>3. QED
      BY <2>1, <2>2, <2>4, <3>2
  <2>5. CASE attempt[a].kind # "cached"
    <3>1. Live(a, s, Spoken(a))
      BY <1>1, <1>2, <1>5, <2>2, <2>5 DEF Exact
    <3>2. PICK p \in Pieces(a) : p = Spoken(a)
      BY <2>3 DEF Spoken, Pieces
    <3>3. Joins(t, IF Len(p) = 0 THEN <<WholeAnswer(r)>> ELSE p)
      BY <1>5, <3>1, <3>2, FinishHeard
    <3>4. p = Tokens(a, m)
      BY <2>3, <3>2 DEF Spoken
    <3>5. Len(p) = m
      BY <3>4 DEF Tokens
    <3>6. Joins(t, IF m = 0 THEN <<WholeAnswer(r)>> ELSE Tokens(a, m))
      BY <3>3, <3>4, <3>5
    <3>7. QED
      BY <2>1, <2>3, <3>6
  <2>6. QED
    BY <2>4, <2>5
<1>6. Sees(c)'
  <2>1. WholeAnswer(r)' = WholeAnswer(r)
    BY DEF WholeAnswer
  <2>2. QED
    BY <1>4, <1>5, <2>1 DEF Sees
<1>7. Exact(c)' /\ Part(c)' /\ Over(c)'
  BY <1>6 DEF Exact, Part, Over, First
<1>8. QED
  BY <1>7 DEF Streaming

\* The steps of the gateway, one after the other.
LEMMA ArriveStreamed ==
  ASSUME AttemptsTyped, ChatsTyped, Streamed, NEW c \in Chats, Arrive(c)
  PROVE  Streamed'
<1>1. /\ chat \in [Chats -> ChatRecord] /\ chat[c] \in ChatRecord /\ chat[c].phase = "new"
      /\ First(c) \in Attempts
  BY FirstTyped DEF ChatsTyped, Arrive
<1>2. ASSUME NEW phase, NEW n,
             chat' = [chat EXCEPT ![c].phase = phase, ![c].at = now, ![c].number = n]
      PROVE  /\ chat'[c].phase = phase /\ chat'[c].number = n /\ chat'[c].stream = chat[c].stream
             /\ \A d \in Chats \ {c} : chat'[d] = chat[d]
  BY <1>1, <1>2 DEF ChatRecord
<1>3. \/ /\ chat' = [chat EXCEPT ![c].phase = "calling", ![c].at = now, ![c].number = 1]
         /\ Open(First(c))
      \/ /\ \E phase \in {"failed", "limited"} :
               chat' = [chat EXCEPT ![c].phase = phase, ![c].at = now, ![c].number = 0]
         /\ UNCHANGED attempt
  BY DEF Arrive, First
<1>4. \/ /\ chat'[c].phase \in {"failed", "limited"} /\ chat'[c].number = 0
         /\ UNCHANGED attempt
      \/ /\ chat'[c].phase = "calling" /\ chat'[c].number = 1
         /\ LET r == attempt'[First(c)]
            IN  r.pc = "context" /\ r.sent = 0 /\ r.length = 0 /\ r.kind = "none" /\ ~r.late
  <2>1. CASE /\ chat' = [chat EXCEPT ![c].phase = "calling", ![c].at = now, ![c].number = 1]
             /\ Open(First(c))
    <3>1. chat'[c].phase = "calling" /\ chat'[c].number = 1
      BY <1>2, <2>1
    <3>2. PICK a \in Attempts : a = First(c)
      BY <1>1
    <3>3. /\ attempt'[a].pc = "context" /\ attempt'[a].length = 0 /\ attempt'[a].sent = 0
          /\ attempt'[a].kind = "none" /\ ~attempt'[a].late
      BY <2>1, <3>2, OpenEffect, OpenVoices
    <3>4. QED
      BY <3>1, <3>2, <3>3
  <2>2. QED
    BY <1>2, <1>3, <2>1
<1>5. chat'[c].stream = chat[c].stream /\ \A d \in Chats \ {c} : chat'[d] = chat[d]
  BY <1>2, <1>3
<1>6. Lengths(First(c))' /\ Streaming(c)'
  BY <1>1, <1>4, <1>5, StreamingBegins DEF Streamed
<1>7. ASSUME NEW d \in Chats \ {c} PROVE Lengths(First(d))' /\ Streaming(d)'
  <2>1. First(d) \in Attempts \ {First(c)}
    BY DEF First, Attempts
  <2>2. attempt'[First(d)].pc = attempt[First(d)].pc /\ SameVoice(First(d))
    <3>1. CASE UNCHANGED attempt
      BY <3>1 DEF SameVoice, First
    <3>2. CASE Open(First(c))
      BY <1>1, <2>1, <3>2, OpenVoices
    <3>3. QED
      BY <1>3, <3>1, <3>2
  <2>3. QED
    BY <1>5, <2>2, StreamingKept DEF Streamed
<1>8. QED
  BY <1>6, <1>7 DEF Streamed

LEMMA SessionBreaksStreamed ==
  ASSUME AttemptsTyped, ChatsTyped, Streamed, NEW c \in Chats, SessionBreaks(c)
  PROVE  Streamed'
<1>1. /\ chat \in [Chats -> ChatRecord] /\ chat[c] \in ChatRecord /\ chat[c].phase = "calling"
      /\ <<c, 2>> \in Attempts /\ Open(<<c, 2>>) /\ chat' = [chat EXCEPT ![c].number = 2]
  BY DEF ChatsTyped, SessionBreaks, Attempts
<1>2. chat'[c].number = 2 /\ chat'[c].phase = "calling" /\ \A d \in Chats \ {c} : chat'[d] = chat[d]
  BY <1>1 DEF ChatRecord
<1>3. ASSUME NEW d \in Chats
      PROVE  attempt'[First(d)].pc = attempt[First(d)].pc /\ SameVoice(First(d))
  <2>1. First(d) \in Attempts \ {<<c, 2>>}
    BY DEF First, Attempts
  <2>2. QED
    BY <1>1, <2>1, OpenVoices
<1>4. Lengths(First(c))' /\ Streaming(c)'
  BY <1>2, <1>3 DEF Streamed, Lengths, Streaming, SameVoice, First
<1>5. ASSUME NEW d \in Chats \ {c} PROVE Lengths(First(d))' /\ Streaming(d)'
  BY <1>2, <1>3, StreamingKept DEF Streamed
<1>6. QED
  BY <1>4, <1>5 DEF Streamed

\* One chat changes and no attempt does.
LEMMA OneStreamed ==
  ASSUME Streamed, NEW c \in Chats, UNCHANGED attempt, \A d \in Chats \ {c} : chat'[d] = chat[d],
         Streaming(c)'
  PROVE  Streamed'
<1>1. ASSUME NEW d \in Chats PROVE Lengths(First(d))'
  BY DEF Streamed, Lengths, First
<1>2. ASSUME NEW d \in Chats \ {c} PROVE Streaming(d)'
  BY StreamingKept DEF Streamed, SameVoice, First
<1>3. QED
  BY <1>1, <1>2 DEF Streamed

LEMMA CallFailsStreamed ==
  ASSUME ChatsTyped, Streamed, NEW c \in Chats, CallFails(c) \/ Leave(c)
  PROVE  Streamed'
<1>1. /\ chat \in [Chats -> ChatRecord] /\ chat[c] \in ChatRecord /\ UNCHANGED attempt
      /\ chat[c].phase = "calling" /\ Streaming(c)
      /\ chat' = [chat EXCEPT ![c].phase = "failed"] \/ chat' = [chat EXCEPT ![c].reading = FALSE]
  BY DEF ChatsTyped, CallFails, Leave, Streamed
<1>2. /\ \A d \in Chats \ {c} : chat'[d] = chat[d]
      /\ chat'[c].number = chat[c].number /\ chat'[c].stream = chat[c].stream
      /\ \/ chat'[c].phase = "failed"
         \/ chat'[c].phase = "calling" /\ ~chat'[c].reading
  <2>1. CASE chat' = [chat EXCEPT ![c].phase = "failed"]
    BY <1>1, <2>1 DEF ChatRecord
  <2>2. CASE chat' = [chat EXCEPT ![c].reading = FALSE]
    BY <1>1, <2>2 DEF ChatRecord
  <2>3. QED
    BY <1>1, <2>1, <2>2
<1>3. Exact(c)' /\ Over(c)' /\ (Part(c) => Part(c)')
  BY <1>1, <1>2 DEF Exact, Over, Part
<1>4. Streaming(c)'
  BY <1>1, <1>2, <1>3 DEF Streaming
<1>5. QED
  BY <1>1, <1>2, <1>4, OneStreamed

LEMMA FinishStreamed ==
  ASSUME AttemptsTyped, ChatsTyped, ChatsTyped', Streamed, NEW c \in Chats, Returns(c) \/ CallRaises(c)
  PROVE  Streamed'
<1>1. /\ chat \in [Chats -> ChatRecord] /\ chat[c] \in ChatRecord /\ UNCHANGED attempt
      /\ chat[c].phase = "calling" /\ Streaming(c) /\ Lengths(First(c))
  BY DEF ChatsTyped, Returns, CallRaises, Streamed
<1>2. PICK r : /\ Finish(c, r)
               /\ \/ r = <<c, 0>>
                  \/ r = <<c, chat[c].number>> /\ attempt[r].pc = "done"
  BY DEF Returns, CallRaises, At
<1>3. PICK s, t : s = chat[c].stream /\ t = chat'[c].stream
  OBVIOUS
<1>4. s \in Seq(Events) /\ t \in Seq(Events)
  BY <1>3 DEF ChatsTyped, ChatRecord
<1>5. /\ \A d \in Chats \ {c} : chat'[d] = chat[d]
      /\ chat'[c].phase = "closed" /\ chat'[c].number = chat[c].number /\ chat'[c].result = r
      /\ chat'[c].reading = chat[c].reading
      /\ t = IF chat[c].reading THEN s \o Rest(s, r) ELSE s
  BY <1>1, <1>2, <1>3 DEF Finish, ChatRecord
<1>6. Streaming(c)'
  <2>1. CASE chat[c].number = 1
    <3>1. r \in {<<c, 0>>, First(c)} /\ (r = First(c) => attempt[r].pc = "done")
      BY <1>2, <2>1 DEF First
    <3>2. QED
      BY <1>1, <1>3, <1>4, <1>5, <2>1, <3>1, StreamingEnds
  <2>2. CASE chat[c].number # 1
    BY <1>1, <1>5, <2>2 DEF Streaming
  <2>3. QED
    BY <2>1, <2>2
<1>7. QED
  BY <1>1, <1>5, <1>6, OneStreamed

\* A step of handle_query, heard by its own chat alone.
LEMMA HandleStreamed ==
  ASSUME AttemptsTyped, ChatsTyped, Stages, Streamed, NEW a \in Attempts, HandleQuery(a), Alone(a)
  PROVE  Streamed'
<1>1. \E events : UNCHANGED chat \/ Emit(a, events)
  <2>1. Quiet(a) \/ Serves(a) \/ Begins(a) \/ Speaks(a) \/ Ends(a)
    BY VoiceMoves
  <2>2. CASE UNCHANGED chat
    BY <2>2
  <2>3. QED
    BY <2>1, <2>2 DEF Quiet, Serves, Begins, Speaks, Ends
<1>2. ASSUME NEW c \in Chats PROVE Lengths(First(c))' /\ Streaming(c)'
  <2>1. First(c) \in Attempts /\ Stage(First(c)) /\ Lengths(First(c)) /\ Streaming(c)
    BY FirstTyped DEF Stages, Streamed
  <2>2. CASE a = First(c)
    BY <2>1, <2>2, FirstStreaming
  <2>3. CASE a # First(c)
    <3>1. attempt'[First(c)] = attempt[First(c)]
      BY <2>1, <2>3 DEF Alone
    <3>2. attempt'[First(c)].pc = attempt[First(c)].pc /\ SameVoice(First(c))
      BY <3>1 DEF SameVoice
    <3>3. CASE chat'[c] = chat[c]
      BY <2>1, <3>2, <3>3, StreamingKept
    <3>4. CASE chat[c].number = 2
      <4>1. chat'[c].phase = chat[c].phase /\ chat'[c].number = chat[c].number
        BY <1>1, EmitStream
      <4>2. Streaming(c)'
        BY <2>1, <3>4, <4>1, StreamingApart
      <4>3. Lengths(First(c))'
        BY <2>1, <3>1 DEF Lengths, First
      <4>4. QED
        BY <4>2, <4>3
    <3>5. QED
      BY <1>1, <2>3, <3>3, <3>4, EmitStream
  <2>4. QED
    BY <2>2, <2>3
<1>3. QED
  BY <1>2 DEF Streamed

LEMMA InitStreamed ==
  ASSUME Init
  PROVE  Streamed
<1> DEFINE seen(c) == <<Event("routing", First(c)), Event("agent_result", First(c)), Text(First(c)),
                        Event("done", First(c))>>
<1>1. ASSUME NEW c \in Chats, c \notin Before PROVE Lengths(First(c)) /\ Streaming(c)
  <2>1. /\ chat[c].phase = "new" /\ chat[c].number = 0 /\ chat[c].stream = <<>>
    BY <1>1 DEF Init, New
  <2>2. attempt[First(c)] = Unused
    BY <1>1 DEF Init, First, Attempts
  <2>3. Lengths(First(c))
    BY <2>2 DEF Lengths, Unused, Early, Writing
  <2>4. QED
    BY <2>1, <2>3 DEF Streaming
<1>2. ASSUME NEW c \in Before PROVE Lengths(First(c)) /\ Streaming(c)
  <2>1. c \in Chats
    BY ChatAssumption
  <2>2. /\ chat[c].phase = "closed" /\ chat[c].number = 1 /\ chat[c].reading
        /\ chat[c].result = First(c) /\ chat[c].stream = seen(c)
    BY <2>1 DEF Init, Done, New, First
  <2>3. PICK a \in Attempts : a = First(c)
    BY <2>1 DEF First, Attempts
  <2>4. /\ attempt[a].pc = "done" /\ attempt[a].kind = "refusal" /\ attempt[a].sent = 0
        /\ attempt[a].length = 0 /\ ~attempt[a].late
    <3>1. \E key, about : attempt[a] = [Unused EXCEPT !.pc = "done", !.key = key, !.about = about,
                                                      !.kind = "refusal", !.own = 1, !.tokens = 1]
      BY <2>3 DEF Init, First
    <3>2. QED
      BY <3>1 DEF Unused
  <2>5. Lengths(a)
    BY <2>4 DEF Lengths, Early, Writing
  <2>6. WholeAnswer(a) = Text(a)
    BY <2>4 DEF WholeAnswer
  <2>7. PICK t : t = <<>> \o Rest(<<>>, a)
    OBVIOUS
  <2>8. /\ EventsInOrder(t) /\ Types(t) = DOMAIN Rank /\ Joins(t, <<WholeAnswer(a)>>)
        /\ t = <<Event("routing", a), Event("agent_result", a), WholeAnswer(a), Event("done", a)>>
    BY <2>7, FinishUnheard
  <2>9. chat[c].stream = t
    BY <2>2, <2>3, <2>6, <2>8
  <2>10. Sees(c)
    <3>1. chat[c].result = a
      BY <2>2, <2>3
    <3>2. QED
      BY <2>4, <2>8, <2>9, <3>1 DEF Sees
  <2>11. Exact(c) /\ Part(c) /\ Over(c)
    BY <2>2, <2>3, <2>4, <2>10 DEF Exact, Part, Over
  <2>12. QED
    BY <2>2, <2>3, <2>5, <2>11 DEF Streaming
<1>3. QED
  BY <1>1, <1>2 DEF Streamed

LEMMA HandleAlone ==
  ASSUME Typed, NEW a \in Attempts, HandleQuery(a)
  PROVE  Alone(a)
<1>1. AttemptsTyped /\ LedgerTyped /\ CacheTyped /\ MemoryTyped /\ graph \in Nat
  BY DEF Typed
<1>2. CASE GetContext(a)
  BY <1>1, <1>2, GetContextEffect
<1>3. CASE LookedUp(a)
  BY <1>1, <1>3, LookedUpEffect
<1>4. CASE Retrieve(a)
  BY <1>1, <1>4, RetrieveEffect
<1>5. CASE StreamToken(a)
  BY <1>1, <1>5, StreamTokenEffect
<1>6. CASE Synthesize(a)
  BY <1>1, <1>6, SynthesizeEffect, AnsweredEffect
<1>7. CASE AppendTurn(a)
  BY <1>1, <1>7, AppendTurnEffect
<1>8. CASE Stored(a)
  BY <1>1, <1>8, StoredEffect
<1>9. CASE Die(a)
  BY <1>1, <1>9, DieEffect DEF Die
<1>10. QED
  BY <1>2, <1>3, <1>4, <1>5, <1>6, <1>7, <1>8, <1>9 DEF HandleQuery

LEMMA StreamedAlways == Spec => []Streamed
<1>1. Init => Streamed
  BY InitStreamed
<1>2. ASSUME ChatInv, ChatInv', Streamed, [Next]_vars
      PROVE  Streamed'
  <2>1. Typed /\ AttemptsTyped /\ ChatsTyped /\ ChatsTyped' /\ Stages
    BY <1>2 DEF ChatInv, Typed
  <2>2. ASSUME NEW c \in Chats, Stream(c)
        PROVE  Streamed'
    BY <1>2, <2>1, <2>2, ArriveStreamed, SessionBreaksStreamed, CallFailsStreamed, FinishStreamed DEF Stream
  <2>3. ASSUME NEW a \in Attempts, HandleQuery(a)
        PROVE  Streamed'
    BY <1>2, <2>1, <2>3, HandleAlone, HandleStreamed
  <2>4. CASE UNCHANGED <<chat, attempt>>
    <3>1. ASSUME NEW c \in Chats PROVE Lengths(First(c))' /\ Streaming(c)'
      BY <1>2, <2>4, StreamingKept DEF Streamed, SameVoice, First
    <3>2. QED
      BY <3>1 DEF Streamed
  <2>5. ASSUME NEW a \in Attempts, CacheServes(a)
        PROVE  Streamed'
    BY <2>4, <2>5 DEF CacheServes
  <2>6. ASSUME NEW t \in landing, Land(t)
        PROVE  Streamed'
    BY <2>4, <2>6 DEF Land
  <2>7. CASE Reindex \/ Tick \/ UNCHANGED vars
    BY <2>4, <2>7 DEF Reindex, Tick, vars
  <2>8. QED
    BY <1>2, <2>2, <2>3, <2>5, <2>6, <2>7 DEF Next
<1>3. QED
  BY <1>1, <1>2, ChatInvariant, PTL DEF Spec

LEMMA SeesIs ==
  ASSUME NEW c, Sees(c)
  PROVE  SeesAnswer(c)
<1>1. PICK r : r = chat[c].result
  OBVIOUS
<1>2. (IF attempt[r].length # 0 /\ Edited(r) THEN Emitted(r) ELSE Returned(r))
        = IF attempt[r].length = 0 THEN <<WholeAnswer(r)>> ELSE Tokens(r, attempt[r].length)
  <2>1. CASE attempt[r].length = 0
    BY <2>1 DEF Returned
  <2>2. CASE attempt[r].length # 0
    BY <2>2 DEF Returned, Emitted
  <2>3. QED
    BY <2>1, <2>2
<1>3. QED
  BY <1>1, <1>2 DEF Sees, SeesAnswer

\* What a client reads comes in the promised order, and one that stays to
\* the end reads the whole answer, its tokens once and in order, as long as
\* one attempt made it and its synthesis was not abandoned: whenever calls
\* fail, clients leave, other attempts run or the gateway answers itself.
\* What was added to the answer after its tokens is what it does not read.
THEOREM ChatClientSeesAnswer == Spec => []ClientSeesAnswer
<1>1. ASSUME ChatInv, Streamed PROVE ClientSeesAnswer
  <2>1. ChatsTyped
    BY <1>1 DEF ChatInv, Typed
  <2>2. ASSUME NEW c \in Chats, chat[c].number <= 1 PROVE Sees(c)
    <3>1. /\ chat[c].number \in {0, 1} /\ chat[c].stream \in Seq(Events) /\ Streaming(c)
          /\ chat[c].phase \in {"new", "limited", "calling", "failed", "closed"}
      BY <1>1, <2>1, <2>2 DEF ChatsTyped, ChatRecord, Streamed
    <3>2. CASE chat[c].phase = "closed"
      BY <3>1, <3>2 DEF Streaming, Over
    <3>3. CASE chat[c].phase # "closed"
      <4>1. EventsInOrder(chat[c].stream)
        BY <3>1, <3>3, LiveOrder, EmptyInOrder DEF Streaming, Part
      <4>2. QED
        BY <3>3, <4>1 DEF Sees
    <3>4. QED
      BY <3>2, <3>3
  <2>3. QED
    BY <2>2, SeesIs DEF ClientSeesAnswer
<1>2. QED
  BY <1>1, ChatInvariant, StreamedAlways, PTL
=============================================================================
