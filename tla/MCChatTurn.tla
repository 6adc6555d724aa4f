----------------------------- MODULE MCChatTurn -----------------------------
(* Small instances of the chat requests: see the .cfg files.               *)
EXTENDS ChatTurn, TLC

CONSTANTS c0, c1, c2, s1, B

\* "What calls it?" has been asked before anything was named; it is asked
\* again while B is asked about, and stands for B from then on.
Ask(text, names) ==
    [session |-> s1, text |-> text, names |-> names, refers |-> names = {}, id |-> "i", client |-> "k"]
ItAgain == (c0 :> Ask("it", {})) @@ (c1 :> Ask("B", {B})) @@ (c2 :> Ask("it", {}))
Started == Cardinality({a \in Attempts : attempt[a].pc # "unused" /\ a[1] \notin Before})
Sourced == Cardinality({a \in Attempts : attempt[a].sourced})
\* At most two attempts beside each other, of two chats or of one, and one
\* failure, index pass or answer with sources added, while the clock moves:
\* once with two attempts.
TwoAttempts ==
    Started <= 2 /\ graph + faults + Sourced <= 1 /\ graph + faults + Sourced + now <= 4 - Started
=============================================================================
