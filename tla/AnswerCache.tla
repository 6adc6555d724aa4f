---------------------------- MODULE AnswerCache ----------------------------
(***************************************************************************)
(* What the response cache promises its callers: one answer per key, the   *)
(* last one written.  It may forget a key at any lookup, and a lookup      *)
(* never returns anything else than the last answer written.  Clocks,      *)
(* time-to-live and the statements of one lookup are ResponseCache's.      *)
(***************************************************************************)
CONSTANTS Users, Keys, Answers, Nothing

VARIABLES store,   \* key -> the answer kept for it, or Nothing
          reply    \* user -> [key, answer] of its last lookup that was answered

vars == <<store, reply>>

Init ==
    /\ store \in [Keys -> Answers \cup {Nothing}]
    /\ reply = [u \in Users |-> Nothing]

Put(k, a) ==
    /\ store' = [store EXCEPT ![k] = a]
    /\ UNCHANGED reply

Get(u, k) ==
    /\ reply' = [reply EXCEPT ![u] = [key |-> k, answer |-> store[k]]]
    /\ UNCHANGED store

\* A lookup that drops what it finds answers that it found nothing.
Forget(u, k) ==
    /\ store' = [store EXCEPT ![k] = Nothing]
    /\ reply' = [reply EXCEPT ![u] = [key |-> k, answer |-> Nothing]]

Next == \E k \in Keys :
    \/ \E a \in Answers : Put(k, a)
    \/ \E u \in Users : Get(u, k) \/ Forget(u, k)

Spec == Init /\ [][Next]_vars
=============================================================================
