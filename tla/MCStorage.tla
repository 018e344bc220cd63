----------------------------- MODULE MCStorage -----------------------------
(* Storage on small instances: see the .cfg files for the bounds. *)
EXTENDS Storage, TLC

CONSTANTS a, b, telegram, keeper

\* The threads are alike.
Alike == Permutations(Threads)
=============================================================================
