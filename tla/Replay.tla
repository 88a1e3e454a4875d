------------------------------- MODULE Replay -------------------------------
(***************************************************************************)
(* replay.py and the joins of qa_replay_comparison.py: which captured      *)
(* requests and baselines are read off the observations file (the source)  *)
(* and the CSV (the selection).  A row and a line are records; `whole`     *)
(* says that one is well formed (terminated, finite, its keys unique) and  *)
(* a name is a pair of the contract it tells of and a detail.              *)
(***************************************************************************)
EXTENDS Keeping, Sequences, Functions

CONSTANTS
  Counts,         \* _COUNTS: selected observations per contract
  QAIds           \* QA_OBSERVATION_IDS, in order

ASSUME QAIdsAssumption == QAIds \in Seq(Range(QAIds))

Ids(records) == [k \in DOMAIN records |-> records[k].id]

\* _read_selection, with the CSV's job types named as their contracts.
SelectionOK(rows) ==
  /\ \A k \in DOMAIN rows : rows[k].whole /\ rows[k].job = rows[k].name[1]
  /\ IsInjective(Ids(rows))
  /\ \A contract \in DOMAIN Counts :
       Cardinality({k \in DOMAIN rows : rows[k].job = contract}) = Counts[contract]

\* _read_cases: every line must be whole and named once, selected or not; a
\* selected one must be what its row says.
SourceOK(lines, rows) ==
  /\ \A n \in DOMAIN lines : lines[n].whole /\ lines[n].index = <<lines[n].id, lines[n].trace>>
  /\ IsInjective(Ids(lines))
  /\ \A n \in DOMAIN lines, k \in DOMAIN rows :
       lines[n].id = rows[k].id =>
         /\ lines[n].type = "GENERATION" /\ lines[n].messages # "none"
         /\ lines[n].name = rows[k].name /\ lines[n].trace = rows[k].trace
  /\ Range(Ids(rows)) \subseteq Range(Ids(lines))

LineOf(lines, id) == CHOOSE line \in Range(lines) : line.id = id

\* Cases come in the order of the selection, whatever the source's.
ReplayCases(lines, rows) ==
  [k \in DOMAIN rows |->
     [id |-> rows[k].id, contract |-> rows[k].job,
      messages |-> LineOf(lines, rows[k].id).messages]]

\* select_qa_cases of load_qa_comparison_inputs: the ten, in canonical order.
QACases(cases) == Kept(cases, {k \in DOMAIN cases : cases[k].id \in Range(QAIds)})
QASelectionOK(cases) ==
  /\ Ids(QACases(cases)) = QAIds
  /\ \A k \in DOMAIN QACases(cases) : QACases(cases)[k].contract = "qa"

\* The second pass: the historical outputs, by observation.
BaselinesOK(lines) ==
  /\ Range(QAIds) \subseteq Range(Ids(lines))
  /\ \A id \in Range(QAIds) : LineOf(lines, id).output # "invalid"
Baselines(lines) == [id \in Range(QAIds) |-> LineOf(lines, id).output]
=============================================================================
