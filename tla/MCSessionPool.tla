--------------------------- MODULE MCSessionPool ---------------------------
(* Small instances of the session pool: see the .cfg files.                 *)
EXTENDS SessionPool, TLC
CONSTANTS c1, c2
OneRetries == (c1 :> 1) @@ (c2 :> 0)
NoRetries == [c \in Calls |-> 0]
SessionSymmetry == Permutations(Sessions)
NotDrifted == ~drifted
=============================================================================
