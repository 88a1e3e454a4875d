-------------------------- MODULE MCResultJournal --------------------------
(***************************************************************************)
(* ResultJournal on small instances: two executions of this run and one of *)
(* another run, two manifests that claim the same run id.                  *)
(***************************************************************************)
EXTENDS ResultJournal, TLC

CONSTANTS k1, k2, foreign, ok, m1, m2

MCKeys == {k1, k2}
MCForeign == {foreign}
MCResults == {ok}
MCManifests == {m1, m2}

Symmetry == Permutations(MCKeys) \cup Permutations(MCManifests)
=============================================================================
