------------------------------ MODULE MCBatch ------------------------------
(***************************************************************************)
(* Batch with two candidates, the second one the frozen baseline.          *)
(***************************************************************************)
EXTENDS Batch

CONSTANTS m1, m11

MCRows == <<m1, m11>>
=============================================================================
