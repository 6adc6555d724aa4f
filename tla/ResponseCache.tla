--------------------------- MODULE ResponseCache ---------------------------
(***************************************************************************)
(* The response_cache table of memory/service.py, statement by statement.  *)
(* A lookup fixes its cutoff, reads the row, and deletes by key a row that *)
(* is older than the cutoff in a later statement: the row it deletes need  *)
(* not be the row it read.  A store fixes created_at before it writes.     *)
(*                                                                         *)
(* Time is counted in ticks.  A user makes one lookup and one store; each  *)
(* runs on when the caller has given up waiting for it.                    *)
(***************************************************************************)
EXTENDS Integers

CONSTANTS Users, Keys, Answers, Nothing,
          TimeToLive       \* cache_ttl_seconds

CacheAssumption ==
    /\ Nothing \notin Answers
    /\ TimeToLive \in Nat

VARIABLES now, rows, lookup, storing, reply
cacheVars == <<rows, lookup, storing, reply>>

Row == [answer : Answers, createdAt : Nat]
NoRow == [answer |-> Nothing]

\* The table is on disk: it may hold rows that earlier processes wrote.
Init ==
    /\ now = 0
    /\ rows \in [Keys -> [answer : Answers, createdAt : {0}] \cup {NoRow}]
    /\ lookup = [u \in Users |-> Nothing]
    /\ storing = [u \in Users |-> Nothing]
    /\ reply = [u \in Users |-> Nothing]

Answer(u, k, a) == reply' = [reply EXCEPT ![u] = [key |-> k, answer |-> a]]

\* cache_get up to its SELECT.
BeginGet(u, k) ==
    /\ lookup[u] = Nothing /\ reply[u] = Nothing
    /\ lookup' = [lookup EXCEPT ![u] = [key |-> k, cutoff |-> now - TimeToLive, expired |-> FALSE]]
    /\ UNCHANGED <<rows, storing, reply>>

Expired(row, cutoff) == row.createdAt < cutoff

\* The row is read; an expired one stays until the next statement.
Select(u) ==
    LET l == lookup[u]
        row == rows[l.key]
    IN  /\ l # Nothing /\ ~l.expired
        /\ IF row # NoRow /\ Expired(row, l.cutoff)
           THEN /\ lookup' = [lookup EXCEPT ![u].expired = TRUE]
                /\ UNCHANGED reply
           ELSE /\ lookup' = [lookup EXCEPT ![u] = Nothing]
                /\ Answer(u, l.key, row.answer)
        /\ UNCHANGED <<rows, storing>>

\* (mutant) DELETE without its WHERE.
DeleteAll(u) ==
    /\ lookup[u] # Nothing /\ lookup[u].expired
    /\ rows' = [k \in Keys |-> NoRow]
    /\ lookup' = [lookup EXCEPT ![u] = Nothing]
    /\ Answer(u, lookup[u].key, Nothing)
    /\ UNCHANGED storing

\* DELETE ... WHERE cache_key = ?, whatever row the key has by now.
DeleteExpired(u) ==
    LET l == lookup[u]
    IN  /\ l # Nothing /\ l.expired
        /\ rows' = [rows EXCEPT ![l.key] = NoRow]
        /\ lookup' = [lookup EXCEPT ![u] = Nothing]
        /\ Answer(u, l.key, Nothing)
        /\ UNCHANGED storing

\* cache_put up to its upsert.
BeginPut(u, k, a) ==
    /\ storing[u] = Nothing
    /\ storing' = [storing EXCEPT ![u] = [key |-> k, row |-> [answer |-> a, createdAt |-> now]]]
    /\ UNCHANGED <<rows, lookup, reply>>

Upsert(u) ==
    /\ storing[u] # Nothing
    /\ rows' = [rows EXCEPT ![storing[u].key] = storing[u].row]
    /\ storing' = [storing EXCEPT ![u] = Nothing]
    /\ UNCHANGED <<lookup, reply>>

CacheStep(u) == Select(u) \/ DeleteExpired(u) \/ Upsert(u)

Tick == now' = now + 1

Next ==
    \/ /\ \E u \in Users : \/ CacheStep(u)
                           \/ \E k \in Keys : \/ BeginGet(u, k)
                                              \/ \E a \in Answers : BeginPut(u, k, a)
       /\ UNCHANGED now
    \/ Tick /\ UNCHANGED cacheVars

Spec == Init /\ [][Next]_<<now, cacheVars>>

\* The rows seen without their age are the abstract cache.
Abstract == INSTANCE AnswerCache WITH store <- [k \in Keys |-> rows[k].answer]
=============================================================================
