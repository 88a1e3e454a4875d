------------------------------ MODULE Keeping ------------------------------
(***************************************************************************)
(* The comprehensions that keep some records of a tuple, in its order      *)
(* (select_qa_cases, _curated_candidate): the n-th kept is at the first    *)
(* place up to which n are.                                                *)
(***************************************************************************)
EXTENDS Naturals, FiniteSets, FiniteSetsExt

Kept(records, wanted) ==
  LET upto(m) == {l \in wanted : l <= m}
  IN [n \in 1 .. Cardinality(wanted) |->
        records[Min({m \in wanted : Cardinality(upto(m)) >= n})]]
=============================================================================
