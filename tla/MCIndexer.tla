----------------------------- MODULE MCIndexer -----------------------------
(* A small instance of the indexing pass: see the .cfg files.               *)
EXTENDS Indexer, TLC
CONSTANTS a, b, v1, v2
\* a refers to b in its first version only, b to a in its second.
CrossReferences == (a :> (v1 :> {b} @@ v2 :> {})) @@ (b :> (v1 :> {} @@ v2 :> {a}))
=============================================================================
