----------------------------- MODULE MCJourneys -----------------------------
(* Journeys on small instances: see the .cfg files for the bounds. *)
EXTENDS Journeys, TLC

CONSTANTS a, b, c

\* Players who start alike may be exchanged.
Veterans == Permutations({a, b})
=============================================================================
