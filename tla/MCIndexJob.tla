----------------------------- MODULE MCIndexJob -----------------------------
(* Small instances of the index jobs: see the .cfg files.                   *)
EXTENDS IndexJob, TLC
JobSymmetry == Permutations(Jobs)
NotFaulty == ~faulty
=============================================================================
