--------------------------- MODULE MCPublication ---------------------------
(***************************************************************************)
(* Publication with two review revisions.                                  *)
(***************************************************************************)
EXTENDS Publication

CONSTANTS e1, e2, r1, r2

TwoEditions == {e1, e2}
MCReviews == {r1, r2}
=============================================================================
