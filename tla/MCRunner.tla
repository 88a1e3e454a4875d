------------------------------ MODULE MCRunner ------------------------------
(***************************************************************************)
(* Runner on small instances.  The manifests commit to a plan by its hash, *)
(* which is modelled by the keys it was computed from.                     *)
(***************************************************************************)
EXTENDS Runner, TLC

CONSTANTS k1, k2, success, timeout

MCKeys == {k1, k2}
MCResults == {success, timeout}

Item(k) == [key |-> k, repetition |-> 0, model |-> "served"]

PlanA == <<Item(k1), Item(k2)>>
Twice == <<Item(k1), Item(k1)>>
OutOfRange == <<Item(k1), [Item(k2) EXCEPT !.repetition = 1]>>
OtherModel == <<Item(k1), [Item(k2) EXCEPT !.model = "other"]>>

Manifest(p) == [plan |-> KeysOf(p), repetitions |-> 1, model |-> "served",
                concurrency |-> 1]

\* One plan and its manifest.
OnePlan == {PlanA}
OneManifest == {Manifest(PlanA)}

\* Plans in another order, with one execution twice, out of range, or for
\* another model; manifests for those plans and for a concurrent run.
AllPlans == {PlanA, <<Item(k2), Item(k1)>>, <<Item(k1)>>, Twice, OutOfRange,
             OtherModel}
AllManifests == {Manifest(PlanA), Manifest(Twice),
                 [Manifest(PlanA) EXCEPT !.concurrency = 2],
                 Manifest(<<Item(k1)>>)}
=============================================================================
