--------------------------- MODULE MCMemorySession ---------------------------
(* Small instances of the conversation memory: see the .cfg files.          *)
EXTENDS MemorySession, TLC
WorkerSymmetry == Permutations(Workers)
=============================================================================
