------------------------------ MODULE Curated ------------------------------
(***************************************************************************)
(* dataset.py and prepare_curated_plan: the curated inventory.  A case has *)
(* an id, the allocation its fields claim (task, exercise, difficulty ...  *)
(* as one value) and the rest of its content; `valid` says that its line   *)
(* parses and its gold resolves.  There is one file of lines per task.     *)
(***************************************************************************)
EXTENDS Keeping, Sequences, SequencesExt

CONSTANTS
  Inventory,      \* _SUITE and _CONTROLS: [id, alloc] in canonical order
  FrozenCases,    \* the cases FROZEN_DATASET_HASH is of, a set
  SmokeIds        \* SMOKE_CASE_IDS

ASSUME InventoryAssumption == Inventory \in Seq(ToSet(Inventory))

\* load_cases of every file, each with cases of its task only.
FileOK(task, lines) ==
  /\ \A k \in DOMAIN lines : lines[k].valid /\ lines[k].alloc.task = task
  /\ IsInjective([k \in DOMAIN lines |-> lines[k].id])

\* validate_curated_cases with require_complete: canonical order, nothing
\* missing, every case allocated as the matrix says.
InventoryOK(cases) ==
  [k \in DOMAIN cases |-> [id |-> cases[k].id, alloc |-> cases[k].alloc]] = Inventory

load_curated_cases(files) == FlattenSeq([k \in DOMAIN files |-> files[k].lines])
CuratedOK(files) ==
  /\ \A k \in DOMAIN files : FileOK(files[k].task, files[k].lines)
  /\ InventoryOK(load_curated_cases(files))

\* hash_dataset sorts by id: the order of files and lines is not in it.
hash_dataset(cases) == ToSet(cases)

IsModel(case) == case.alloc.exercise = "model"
SmokeCases(cases) ==
  Kept(cases, {k \in DOMAIN cases : cases[k].id \in ToSet(SmokeIds)})
ModelCases(cases) == Kept(cases, {k \in DOMAIN cases : IsModel(cases[k])})
Controls(cases) == Kept(cases, {k \in DOMAIN cases : ~IsModel(cases[k])})
=============================================================================
