--------------------------- MODULE Command_proofs ---------------------------
(***************************************************************************)
(* Theorems about the commands, for any inputs, implementations and        *)
(* replies, and any number of invocations, edits and kills.                *)
(***************************************************************************)
EXTENDS Command, SequenceTheorems, WellFoundedInduction, FiniteSetTheorems,
  TLAPS
-----------------------------------------------------------------------------
(* What holds of every run, of the invocation at its stages and of what is *)
(* published.                                                              *)

QACommand == command = "qa-replay-compare"

\* A plan of the ten requests as the canonical files have them.
QAPlan(plan) ==
  /\ DOMAIN plan = DOMAIN QAIds
  /\ \A k \in DOMAIN QAIds :
       /\ plan[k].case = QAIds[k]
       /\ plan[k].messages = LineOf(Canonical.source, QAIds[k]).messages

IsPlan(plan) == \E n \in Nat : DOMAIN plan = 1 .. n

JournalsInv ==
  \A run \in DOMAIN journals :
    /\ run = [dataset |-> run.dataset, plan |-> run.plan, code |-> run.code]
    /\ IsPlan(run.plan)
    /\ DOMAIN journals[run] = DOMAIN run.plan

Complete(run) == Finalized(run) = DOMAIN run.plan

CodeInv ==
  /\ code \in Codes
  /\ proc.at \notin {"idle", "failed", "done"} => proc.code = code
  /\ proc = [at |-> proc.at, code |-> proc.code, cases |-> proc.cases, source |-> proc.source,
             baselines |-> proc.baselines, run |-> proc.run, todo |-> proc.todo]

LoadInv ==
  /\ proc.at = "reread" => QACommand /\ proc.source = Canonical.source
  /\ proc.at \in {"reread", "identify"} /\ QACommand => QAPlan(Plan(Selected(proc.cases)))
  /\ proc.at = "identify" => IsPlan(Plan(Selected(proc.cases)))
  /\ proc.at \in {"identify", "execute", "publish"} /\ QACommand =>
       proc.baselines = Baselines(Canonical.source)

RunInv ==
  proc.at \in {"execute", "publish", "compare", "done"} =>
    /\ proc.run \in DOMAIN journals /\ proc.run.code = proc.code
    /\ QACommand => QAPlan(proc.run.plan)
    /\ proc.at # "execute" => Complete(proc.run)

Published(path, content) == path \in DOMAIN reports /\ reports[path] = content

RowPaths(run, rows) ==
  {<<Place(run, rows), "automatic">>, <<Place(run, rows), "summary-automatic">>}
ControlPath(path) == path = <<path[1], path[2]>> /\ path[1] = [controls |-> path[1].controls]
ComparisonPath(run, k) == <<run, "qa-comparison", QAIds[k]>>
ComparisonOf(run, k, by) == Comparison(run, k, Baselines(Canonical.source)[QAIds[k]], by)

Due(path, content) ==
  \E i \in DOMAIN proc.todo : proc.todo[i] = [path |-> path, content |-> content]

\* A file still to be published is one of the stage's, and each of the stage's
\* is published or still to be.
TodoInv ==
  /\ proc.at \in {"publish", "compare"} => \E S : proc.todo \in Seq(S)
  /\ proc.at = "publish" =>
       /\ \A i \in DOMAIN proc.todo :
            \/ /\ proc.todo[i].path \in RowPaths(proc.run, Rows(proc.run, proc.code))
               /\ proc.todo[i].content = Rows(proc.run, proc.code)
            \/ ControlPath(proc.todo[i].path)
       /\ \A path \in RowPaths(proc.run, Rows(proc.run, proc.code)) :
            \/ Published(path, Rows(proc.run, proc.code))
            \/ Due(path, Rows(proc.run, proc.code))
  /\ proc.at \in {"compare", "done"} =>
       \A path \in RowPaths(proc.run, Rows(proc.run, proc.code)) :
         Published(path, Rows(proc.run, proc.code))
  /\ proc.at = "compare" =>
       /\ QACommand
       /\ \A i \in DOMAIN proc.todo : \E k \in DOMAIN QAIds :
            /\ proc.todo[i].path = ComparisonPath(proc.run, k)
            /\ proc.todo[i].content = ComparisonOf(proc.run, k, proc.code)
       /\ \A k \in DOMAIN QAIds :
            \/ ComparisonPath(proc.run, k) \in DOMAIN reports
            \/ Due(ComparisonPath(proc.run, k), ComparisonOf(proc.run, k, proc.code))
  /\ proc.at = "done" /\ QACommand =>
       \A k \in DOMAIN QAIds : ComparisonPath(proc.run, k) \in DOMAIN reports

RowsPublished(path) ==
  \E run \in DOMAIN journals :
    /\ Complete(run) /\ path \in RowPaths(run, Rows(run, run.code))
    /\ reports[path] = Rows(run, run.code)

ComparisonPublished(path) ==
  \E run \in DOMAIN journals, k \in DOMAIN QAIds :
    /\ Complete(run) /\ QAPlan(run.plan)
    /\ path = ComparisonPath(run, k) /\ reports[path] = ComparisonOf(run, k, run.code)
    /\ <<Place(run, Rows(run, run.code)), "automatic">> \in DOMAIN reports

ReportsInv ==
  \A path \in DOMAIN reports :
    RowsPublished(path) \/ ControlPath(path) \/ ComparisonPublished(path)

CommandInv == JournalsInv /\ CodeInv /\ LoadInv /\ RunInv /\ TodoInv /\ ReportsInv

-----------------------------------------------------------------------------
(* What a comprehension keeps.                                             *)

LEMMA LeastOf ==
  ASSUME NEW S, S \subseteq Nat, S # {}
  PROVE  Min(S) \in S /\ \A y \in S : Min(S) <= y
<1>1. PICK x \in S : \A y \in S : ~ (<<y, x>> \in OpToRel(<, Nat))
  BY NatLessThanWellFounded, WFMin
<1>2. OpToRel(<, Nat) = {ss \in Nat \X Nat : ss[1] < ss[2]}
  BY DEF OpToRel
<1>3. ASSUME NEW y \in S PROVE x <= y
  <2>1. <<y, x>> \notin {ss \in Nat \X Nat : ss[1] < ss[2]}
    BY <1>1, <1>2
  <2>2. <<y, x>> \in Nat \X Nat /\ x \in Nat /\ y \in Nat
    OBVIOUS
  <2>3. ~(<<y, x>>[1] < <<y, x>>[2])
    BY <2>1, <2>2
  <2> QED
    BY <2>2, <2>3
<1> QED
  BY <1>3 DEF Min

LEMMA GreatestIn ==
  ASSUME NEW n \in Nat, NEW S, S \subseteq 1 .. n, S # {}
  PROVE  \E x \in S : \A y \in S : y <= x
<1> DEFINE T == {n - y : y \in S}
<1>1. \A y \in S : y \in Nat /\ y <= n /\ n - y \in Nat /\ n - y \in T
  OBVIOUS
<1>2. T \subseteq Nat /\ T # {}
  BY <1>1
<1>3. Min(T) \in T /\ \A z \in T : Min(T) <= z
  BY <1>2, LeastOf
<1>4. PICK x \in S : Min(T) = n - x
  BY <1>3
<1> HIDE DEF T
<1>5. \A y \in S : n - x <= n - y
  BY <1>1, <1>3, <1>4
<1>6. \A y \in S : y <= x
  BY <1>1, <1>5
<1> QED
  BY <1>6

(* The records kept are records at places that were wanted.                *)
LEMMA KeptAreWanted ==
  ASSUME NEW records, NEW n \in Nat, NEW wanted, wanted \subseteq 1 .. n
  PROVE  /\ IsPlan(Kept(records, wanted))
         /\ \A k \in DOMAIN Kept(records, wanted) :
              Kept(records, wanted)[k] \in {records[m] : m \in wanted}
<1> DEFINE upto(m) == {l \in wanted : l <= m}
           place(k) == Min({m \in wanted : Cardinality(upto(m)) >= k})
           size == Cardinality(wanted)
<1>1. Kept(records, wanted) = [k \in 1 .. size |-> records[place(k)]]
  BY DEF Kept
<1>2. IsFiniteSet(wanted) /\ size \in Nat
  <2>1. IsFiniteSet(1 .. n)
    BY FS_Interval
  <2> QED
    BY <2>1, FS_Subset, FS_CardinalityType
<1>3. ASSUME NEW k \in 1 .. size PROVE place(k) \in wanted
  <2> DEFINE enough == {m \in wanted : Cardinality(upto(m)) >= k}
  <2>1. wanted # {}
    <3>1. wanted = {} => size = 0
      BY FS_EmptySet
    <3> HIDE DEF size
    <3> QED
      BY <3>1
  <2>2. PICK last \in wanted : \A m \in wanted : m <= last
    BY <2>1, GreatestIn
  <2>3. upto(last) = wanted
    BY <2>2
  <2>4. Cardinality(upto(last)) >= k
    BY <1>2, <2>3
  <2>5. last \in enough
    BY <2>4
  <2>6. enough \subseteq wanted /\ enough \subseteq Nat
    <3>1. enough \subseteq wanted
      OBVIOUS
    <3> HIDE DEF enough
    <3> QED
      BY <3>1
  <2> HIDE DEF enough, upto
  <2>7. Min(enough) \in enough
    BY <2>5, <2>6, LeastOf
  <2>8. place(k) = Min(enough)
    BY DEF enough
  <2> QED
    BY <2>6, <2>7, <2>8
<1> HIDE DEF place, size
<1> QED
  BY <1>1, <1>2, <1>3 DEF IsPlan

LEMMA SelectedArePlanned ==
  ASSUME NEW cases, IsPlan(cases)
  PROVE  IsPlan(Plan(Selected(cases)))
<1>1. PICK n \in Nat : DOMAIN cases = 1 .. n
  BY DEF IsPlan
<1>2. ASSUME NEW wanted, wanted \subseteq DOMAIN cases PROVE IsPlan(Kept(cases, wanted))
  BY <1>1, <1>2, KeptAreWanted
<1>3. IsPlan(SmokeCases(cases)) /\ IsPlan(ModelCases(cases)) /\ IsPlan(QACases(cases))
  <2> DEFINE smoke == {k \in DOMAIN cases : cases[k].id \in ToSet(SmokeIds)}
             model == {k \in DOMAIN cases : IsModel(cases[k])}
             qa == {k \in DOMAIN cases : cases[k].id \in Range(QAIds)}
  <2>1. smoke \subseteq DOMAIN cases /\ model \subseteq DOMAIN cases /\ qa \subseteq DOMAIN cases
    OBVIOUS
  <2>2. SmokeCases(cases) = Kept(cases, smoke) /\ ModelCases(cases) = Kept(cases, model)
        /\ QACases(cases) = Kept(cases, qa)
    BY DEF SmokeCases, ModelCases, QACases
  <2> HIDE DEF smoke, model, qa
  <2> QED
    BY <1>2, <2>1, <2>2
<1>4. IsPlan(Selected(cases))
  BY <1>3 DEF Selected
<1> QED
  BY <1>4 DEF Plan, IsPlan

(* The plan of the canonical files asks what they captured.                *)
LEMMA CanonicalPlan ==
  ASSUME QACommand, QASelectionOK(ReplayCases(Canonical.source, Canonical.selection))
  PROVE  LET cases == ReplayCases(Canonical.source, Canonical.selection)
         IN IsPlan(cases) /\ QAPlan(Plan(Selected(cases)))
<1> DEFINE rows == Canonical.selection
           cases == ReplayCases(Canonical.source, rows)
           wanted == {k \in DOMAIN cases : cases[k].id \in Range(QAIds)}
           kept == Kept(cases, wanted)
<1>1. PICK n \in Nat : DOMAIN rows = 1 .. n
  BY CanonicalAssumption
<1>2. /\ DOMAIN cases = 1 .. n
      /\ \A k \in 1 .. n : cases[k] = [id |-> rows[k].id, contract |-> rows[k].job,
                                       messages |-> LineOf(Canonical.source, rows[k].id).messages]
  BY <1>1 DEF ReplayCases
<1>3. Selected(cases) = kept
  BY DEF Selected, QACases, QACommand
<1>4. Ids(kept) = QAIds
  BY DEF QASelectionOK, QACases
<1>5. wanted \subseteq 1 .. n
  BY <1>2
<1> HIDE DEF cases, wanted
<1>6. /\ DOMAIN kept = DOMAIN QAIds
      /\ \A k \in DOMAIN QAIds : kept[k].id = QAIds[k]
  BY <1>4 DEF Ids
<1>7. \A k \in DOMAIN QAIds : kept[k] \in {cases[m] : m \in wanted}
  <2>1. \A k \in DOMAIN kept : kept[k] \in {cases[m] : m \in wanted}
    BY <1>5, KeptAreWanted
  <2> HIDE DEF kept
  <2> QED
    BY <1>6, <2>1
<1>8. \A k \in DOMAIN QAIds : kept[k].messages = LineOf(Canonical.source, QAIds[k]).messages
  <2> HIDE DEF kept
  <2>1. \A k \in DOMAIN QAIds : \E m \in 1 .. n : kept[k] = cases[m]
    BY <1>5, <1>7
  <2> QED
    BY <1>2, <1>6, <2>1
<1> HIDE DEF kept
<1>9. QAPlan(Plan(kept))
  BY <1>6, <1>8 DEF QAPlan, Plan, Request
<1> QED
  BY <1>2, <1>3, <1>9 DEF IsPlan, cases

-----------------------------------------------------------------------------
(* What is finalized is not touched again, so what was published of it     *)
(* goes on being what the journal says.                                    *)

Grown ==
  \A run \in DOMAIN journals :
    /\ run \in DOMAIN journals'
    /\ \A k \in Finalized(run) : journals'[run][k] = journals[run][k]

LEMMA Carried ==
  ASSUME Grown, NEW run \in DOMAIN journals, Complete(run)
  PROVE  /\ run \in DOMAIN journals' /\ Complete(run)'
         /\ \A by : Rows(run, by)' = Rows(run, by)
         /\ \A by, baseline : \A k \in DOMAIN run.plan :
              Comparison(run, k, baseline, by)' = Comparison(run, k, baseline, by)
<1>1. /\ run \in DOMAIN journals'
      /\ \A k \in DOMAIN run.plan : /\ journals'[run][k] = journals[run][k]
                                    /\ Len(journals[run][k]) = 2
  BY DEF Grown, Complete, Finalized
<1>2. Complete(run)'
  BY <1>1 DEF Complete, Finalized
<1>3. \A by : Rows(run, by)' = Rows(run, by)
  BY <1>1 DEF Rows
<1>4. \A by, baseline : \A k \in DOMAIN run.plan :
        Comparison(run, k, baseline, by)' = Comparison(run, k, baseline, by)
  BY <1>1 DEF Comparison
<1> QED
  BY <1>1, <1>2, <1>3, <1>4

LEMMA ReportsKept ==
  ASSUME ReportsInv, Grown, reports' = reports
  PROVE  ReportsInv'
<1> SUFFICES ASSUME NEW path \in DOMAIN reports
             PROVE  RowsPublished(path)' \/ ControlPath(path) \/ ComparisonPublished(path)'
  BY DEF ReportsInv
<1>1. RowsPublished(path) \/ ControlPath(path) \/ ComparisonPublished(path)
  BY DEF ReportsInv
<1>2. ASSUME RowsPublished(path) PROVE RowsPublished(path)'
  <2>1. PICK run \in DOMAIN journals :
          /\ Complete(run) /\ path \in RowPaths(run, Rows(run, run.code))
          /\ reports[path] = Rows(run, run.code)
    BY <1>2 DEF RowsPublished
  <2>2. /\ run \in DOMAIN journals' /\ Complete(run)'
        /\ Rows(run, run.code)' = Rows(run, run.code)
    BY <2>1, Carried
  <2> QED
    BY <2>1, <2>2 DEF RowsPublished
<1>3. ASSUME ComparisonPublished(path) PROVE ComparisonPublished(path)'
  <2>1. PICK run \in DOMAIN journals, k \in DOMAIN QAIds :
          /\ Complete(run) /\ QAPlan(run.plan)
          /\ path = ComparisonPath(run, k) /\ reports[path] = ComparisonOf(run, k, run.code)
          /\ <<Place(run, Rows(run, run.code)), "automatic">> \in DOMAIN reports
    BY <1>3 DEF ComparisonPublished
  <2>2. /\ run \in DOMAIN journals' /\ Complete(run)'
        /\ Rows(run, run.code)' = Rows(run, run.code)
    BY <2>1, Carried
  <2>3. k \in DOMAIN run.plan
    BY <2>1 DEF QAPlan
  <2>4. ComparisonOf(run, k, run.code)' = ComparisonOf(run, k, run.code)
    BY <2>1, <2>3, Carried DEF ComparisonOf
  <2>5. (<<Place(run, Rows(run, run.code)), "automatic">> \in DOMAIN reports)'
    BY <2>1, <2>2
  <2> QED
    BY <2>1, <2>2, <2>4, <2>5 DEF ComparisonPublished
<1> QED
  BY <1>1, <1>2, <1>3

LEMMA NothingWritten == UNCHANGED journals => Grown
  BY DEF Grown

-----------------------------------------------------------------------------
(* Each action keeps the invariant.                                        *)

LEMMA CommandInit == Init => CommandInv
<1> SUFFICES ASSUME Init PROVE CommandInv
  OBVIOUS
<1>1. proc = Idle /\ journals = <<>> /\ reports = <<>> /\ code \in Codes
  BY DEF Init
<1> QED
  BY <1>1 DEF CommandInv, JournalsInv, CodeInv, LoadInv, RunInv, TodoInv, ReportsInv, Idle

(* Steps that end an invocation, begin one or take place outside it.       *)
LEMMA StoppedStep ==
  ASSUME CommandInv, UNCHANGED <<command, journals, reports, code>>,
         proc' = Idle \/ proc' = [Idle EXCEPT !.at = "failed"]
           \/ proc' = [Idle EXCEPT !.at = "load", !.code = code]
  PROVE  CommandInv'
<1>1. JournalsInv'
  BY DEF CommandInv, JournalsInv
<1>2. ReportsInv'
  BY NothingWritten, ReportsKept DEF CommandInv
<1>3. CodeInv' /\ proc'.at \in {"idle", "failed", "load"}
  <2>1. PICK at \in {"idle", "failed", "load"}, by \in Codes \cup {"none"} :
          /\ proc' = [at |-> at, code |-> by, cases |-> <<>>, source |-> <<>>,
                      baselines |-> <<>>, run |-> [plan |-> <<>>], todo |-> <<>>]
          /\ at = "load" => by = code /\ code' = code
    <3>1. Idle = [at |-> "idle", code |-> "none", cases |-> <<>>, source |-> <<>>,
                  baselines |-> <<>>, run |-> [plan |-> <<>>], todo |-> <<>>]
      BY DEF Idle
    <3>2. code \in Codes
      BY DEF CommandInv, CodeInv
    <3> QED
      BY <3>1, <3>2
  <2>2. code' \in Codes
    BY DEF CommandInv, CodeInv
  <2> QED
    BY <2>1, <2>2 DEF CodeInv
<1>4. LoadInv' /\ RunInv' /\ TodoInv'
  BY <1>3 DEF LoadInv, RunInv, TodoInv
<1> QED
  BY <1>1, <1>2, <1>3, <1>4 DEF CommandInv

LEMMA EditStep ==
  ASSUME CommandInv, UNCHANGED <<command, journals, reports, proc>>, code' \in Codes,
         Stopped \/ code' = code
  PROVE  CommandInv'
<1>1. JournalsInv'
  BY DEF CommandInv, JournalsInv
<1>2. ReportsInv'
  BY NothingWritten, ReportsKept DEF CommandInv
<1>3. CodeInv'
  BY DEF CommandInv, CodeInv, Stopped
<1>4. LoadInv'
  BY DEF CommandInv, LoadInv, QACommand, Selected
<1>5. RunInv'
  BY DEF CommandInv, RunInv, QACommand, Complete, Finalized
<1>6. TodoInv'
  <2>1. /\ proc' = proc /\ reports' = reports /\ command' = command
        /\ Rows(proc.run, proc.code)' = Rows(proc.run, proc.code)
        /\ \A k : ComparisonOf(proc.run, k, proc.code)' = ComparisonOf(proc.run, k, proc.code)
    BY DEF Rows, ComparisonOf, Comparison
  <2>2. RowPaths(proc.run, Rows(proc.run, proc.code))'
          = RowPaths(proc.run, Rows(proc.run, proc.code))
    BY <2>1
  <2> QED
    BY <2>1, <2>2 DEF CommandInv, TodoInv, QACommand, Published, Due, ComparisonPath
<1> QED
  BY <1>1, <1>2, <1>3, <1>4, <1>5, <1>6 DEF CommandInv

(* The frame of a step that only moves the invocation on.                  *)
LEMMA ProcStep ==
  ASSUME CommandInv, UNCHANGED <<command, code, journals, reports>>,
         CodeInv', LoadInv', RunInv', TodoInv'
  PROVE  CommandInv'
<1>1. JournalsInv'
  BY DEF CommandInv, JournalsInv
<1>2. ReportsInv'
  BY NothingWritten, ReportsKept DEF CommandInv
<1> QED
  BY <1>1, <1>2 DEF CommandInv

LEMMA LoadReplayStep ==
  ASSUME CommandInv, LoadReplay
  PROVE  CommandInv'
<1> DEFINE cases == ReplayCases(files.source, files.selection)
<1>1. UNCHANGED <<command, code, journals, reports>> /\ QACommand /\ proc.at = "load"
  BY DEF LoadReplay, disk, world, QACommand
<1>2. CASE Fail
  BY <1>1, <1>2, StoppedStep DEF Fail, CommandInv, CodeInv
<1>3. CASE ~Fail
  <2>1. /\ files.source = Canonical.source /\ files.selection = Canonical.selection
        /\ QASelectionOK(cases)
        /\ proc' = [proc EXCEPT !.at = "reread", !.cases = cases, !.source = files.source]
    BY <1>3 DEF LoadReplay
  <2>2. QAPlan(Plan(Selected(cases)))
    BY <1>1, <2>1, CanonicalPlan
  <2> HIDE DEF cases
  <2>3. /\ proc' = [at |-> "reread", code |-> proc.code, cases |-> cases,
                    source |-> files.source, baselines |-> proc.baselines,
                    run |-> proc.run, todo |-> proc.todo]
    BY <2>1 DEF CommandInv, CodeInv
  <2>4. CodeInv'
    BY <1>1, <2>3 DEF CommandInv, CodeInv
  <2>5. QAPlan(Plan(Selected(proc.cases)))'
    <3>1. QAPlan(Plan(QACases(cases)))
      BY <1>1, <2>2 DEF Selected, QACommand
    <3>2. QAPlan(Plan(QACases(proc'.cases)))
      BY <2>3, <3>1
    <3>3. command' = "qa-replay-compare"
      BY <1>1 DEF QACommand
    <3> QED
      BY <3>2, <3>3 DEF Selected
  <2>6. LoadInv'
    BY <1>1, <2>1, <2>3, <2>5 DEF LoadInv, QACommand
  <2>7. RunInv' /\ TodoInv'
    BY <2>3 DEF RunInv, TodoInv
  <2> QED
    BY <1>1, <2>4, <2>6, <2>7, ProcStep
<1> QED
  BY <1>2, <1>3

LEMMA RereadStep ==
  ASSUME CommandInv, Reread
  PROVE  CommandInv'
<1>1. UNCHANGED <<command, code, journals, reports>> /\ proc.at = "reread"
      /\ QACommand /\ proc.source = Canonical.source /\ QAPlan(Plan(Selected(proc.cases)))
  BY DEF Reread, disk, world, CommandInv, LoadInv
<1>2. CASE Fail
  BY <1>1, <1>2, StoppedStep DEF Fail, CommandInv, CodeInv
<1>3. CASE ~Fail
  <2> DEFINE baselines == Baselines(Canonical.source)
  <2>1. proc' = [proc EXCEPT !.at = "identify", !.baselines = baselines]
    BY <1>1, <1>3 DEF Reread
  <2> HIDE DEF baselines
  <2>2. /\ proc' = [at |-> "identify", code |-> proc.code, cases |-> proc.cases,
                    source |-> proc.source, baselines |-> baselines,
                    run |-> proc.run, todo |-> proc.todo]
    BY <2>1 DEF CommandInv, CodeInv
  <2>3. CodeInv'
    BY <1>1, <2>2 DEF CommandInv, CodeInv
  <2>4. Selected(proc.cases)' = Selected(proc.cases)
    BY <1>1, <2>2 DEF Selected
  <2>5. QAPlan(Plan(Selected(proc.cases)))'
    BY <1>1, <2>4 DEF QAPlan, Plan
  <2>6. IsPlan(Plan(Selected(proc.cases)))'
    BY <2>5, QAIdsAssumption DEF QAPlan, IsPlan
  <2>7. LoadInv'
    BY <2>2, <2>5, <2>6 DEF LoadInv, baselines
  <2>8. RunInv' /\ TodoInv'
    BY <2>2 DEF RunInv, TodoInv
  <2> QED
    BY <1>1, <2>3, <2>7, <2>8, ProcStep
<1> QED
  BY <1>2, <1>3

LEMMA LoadCuratedStep ==
  ASSUME CommandInv, LoadCurated
  PROVE  CommandInv'
<1> DEFINE cases == load_curated_cases(files.curated)
<1>1. UNCHANGED <<command, code, journals, reports>> /\ ~QACommand /\ proc.at = "load"
  BY DEF LoadCurated, disk, world, QACommand
<1>2. CASE Fail
  BY <1>1, <1>2, StoppedStep DEF Fail, CommandInv, CodeInv
<1>3. CASE ~Fail
  <2>1. /\ InventoryOK(cases)
        /\ proc' = [proc EXCEPT !.at = "identify", !.cases = cases]
    BY <1>3 DEF LoadCurated, CuratedOK
  <2> HIDE DEF cases
  <2>2. IsPlan(cases)
    <3>1. DOMAIN cases = DOMAIN Inventory
      BY <2>1 DEF InventoryOK
    <3> QED
      BY <3>1, InventoryAssumption DEF IsPlan
  <2>3. /\ proc' = [at |-> "identify", code |-> proc.code, cases |-> cases,
                    source |-> proc.source, baselines |-> proc.baselines,
                    run |-> proc.run, todo |-> proc.todo]
    BY <2>1 DEF CommandInv, CodeInv
  <2>4. CodeInv'
    BY <1>1, <2>3 DEF CommandInv, CodeInv
  <2>5. IsPlan(Plan(Selected(proc.cases)))'
    <3>1. IsPlan(Plan(Selected(cases)))
      BY <2>2, SelectedArePlanned
    <3>2. IsPlan(Plan(Selected(proc'.cases)))
      BY <2>3, <3>1
    <3>3. Selected(proc.cases)' = Selected(proc'.cases)
      BY <1>1 DEF Selected
    <3>4. Plan(Selected(proc.cases))' = Plan(Selected(proc'.cases))
      BY <3>3 DEF Plan
    <3> QED
      BY <3>2, <3>4 DEF IsPlan
  <2>6. LoadInv'
    BY <1>1, <2>3, <2>5 DEF LoadInv, QACommand
  <2>7. RunInv' /\ TodoInv'
    BY <2>3 DEF RunInv, TodoInv
  <2> QED
    BY <1>1, <2>4, <2>6, <2>7, ProcStep
<1> QED
  BY <1>2, <1>3

LEMMA IdentifyStep ==
  ASSUME CommandInv, Identify
  PROVE  CommandInv'
<1> DEFINE run == Run(proc.cases, code)
           plan == Plan(Selected(proc.cases))
           empty == [k \in DOMAIN run.plan |-> <<>>]
<1>1. /\ UNCHANGED <<command, code, reports>> /\ proc.at = "identify"
      /\ proc' = [proc EXCEPT !.at = "execute", !.run = run]
      /\ journals' = [r \in DOMAIN journals \cup {run} |->
                        IF r \in DOMAIN journals THEN journals[r] ELSE empty]
  BY DEF Identify, world
<1>2. /\ run = [dataset |-> run.dataset, plan |-> run.plan, code |-> run.code]
      /\ run.plan = plan /\ run.code = code
  BY DEF Run
<1>3. IsPlan(run.plan) /\ (QACommand => QAPlan(run.plan))
  BY <1>1, <1>2 DEF CommandInv, LoadInv
<1>4. DOMAIN empty = DOMAIN run.plan /\ \A k \in DOMAIN run.plan : empty[k] = <<>>
  OBVIOUS
<1> HIDE DEF run, plan, empty
<1>5. Grown
  BY <1>1 DEF Grown
<1>6. JournalsInv'
  <2> SUFFICES ASSUME NEW r \in DOMAIN journals'
               PROVE  /\ r = [dataset |-> r.dataset, plan |-> r.plan, code |-> r.code]
                      /\ IsPlan(r.plan)
                      /\ DOMAIN journals'[r] = DOMAIN r.plan
    BY DEF JournalsInv
  <2>1. CASE r \in DOMAIN journals
    BY <1>1, <2>1 DEF CommandInv, JournalsInv
  <2>2. CASE r \notin DOMAIN journals
    <3>1. r = run /\ journals'[r] = empty
      BY <1>1, <2>2
    <3> QED
      BY <1>2, <1>3, <1>4, <3>1
  <2> QED
    BY <2>1, <2>2
<1>7. proc' = [at |-> "execute", code |-> proc.code, cases |-> proc.cases,
               source |-> proc.source, baselines |-> proc.baselines,
               run |-> run, todo |-> proc.todo]
  BY <1>1 DEF CommandInv, CodeInv
<1>8. CodeInv'
  BY <1>1, <1>7 DEF CommandInv, CodeInv
<1>9. LoadInv'
  BY <1>1, <1>7 DEF CommandInv, LoadInv, QACommand
<1>10. RunInv'
  <2>1. proc.code = code
    BY <1>1 DEF CommandInv, CodeInv
  <2> QED
    BY <1>1, <1>2, <1>3, <1>7, <2>1 DEF RunInv, QACommand
<1>11. TodoInv'
  BY <1>7 DEF TodoInv
<1>12. ReportsInv'
  BY <1>1, <1>5, ReportsKept DEF CommandInv
<1> QED
  BY <1>6, <1>8, <1>9, <1>10, <1>11, <1>12 DEF CommandInv

LEMMA NextInPlan ==
  ASSUME CommandInv, Executing
  PROVE  /\ proc.run \in DOMAIN journals /\ Current \in DOMAIN proc.run.plan
         /\ Current \notin Finalized(proc.run)
<1> DEFINE rest == DOMAIN proc.run.plan \ Finalized(proc.run)
<1>1. proc.run \in DOMAIN journals
  BY DEF Executing, CommandInv, RunInv
<1>2. PICK n \in Nat : DOMAIN proc.run.plan = 1 .. n
  BY <1>1 DEF CommandInv, JournalsInv, IsPlan
<1>3. rest \subseteq Nat /\ rest # {}
  BY <1>2 DEF Executing, Finalized
<1>4. Current \in rest
  BY <1>3, LeastOf DEF Current
<1> QED
  BY <1>1, <1>4

(* One entry of the run is written on, which was not finalized.            *)
LEMMA WriteStep ==
  ASSUME CommandInv, Executing, UNCHANGED <<command, code, reports, proc>>,
         NEW new,
         journals' = [journals EXCEPT ![proc.run][Current] = new]
  PROVE  CommandInv'
<1> DEFINE run == proc.run
           c == Current
           old == journals[run]
<1>1. run \in DOMAIN journals /\ c \in DOMAIN run.plan /\ c \notin Finalized(run)
  BY NextInPlan
<1>2. DOMAIN old = DOMAIN run.plan
  BY <1>1 DEF CommandInv, JournalsInv
<1>3. journals' = [journals EXCEPT ![run] = [old EXCEPT ![c] = new]]
  BY <1>1
<1> HIDE DEF c, run
<1>4. /\ DOMAIN journals' = DOMAIN journals
      /\ DOMAIN journals'[run] = DOMAIN journals[run]
      /\ journals'[run][c] = new
      /\ \A k \in DOMAIN run.plan : k # c => journals'[run][k] = journals[run][k]
      /\ \A r \in DOMAIN journals : r # run => journals'[r] = journals[r]
  BY <1>1, <1>2, <1>3
<1>5. Grown
  BY <1>1, <1>4 DEF Grown, Finalized
<1>6. JournalsInv'
  <2> SUFFICES ASSUME NEW r \in DOMAIN journals
               PROVE  /\ r = [dataset |-> r.dataset, plan |-> r.plan, code |-> r.code]
                      /\ IsPlan(r.plan)
                      /\ DOMAIN journals'[r] = DOMAIN r.plan
    BY <1>4 DEF JournalsInv
  <2>1. /\ r = [dataset |-> r.dataset, plan |-> r.plan, code |-> r.code]
        /\ IsPlan(r.plan)
        /\ DOMAIN journals[r] = DOMAIN r.plan
    BY DEF CommandInv, JournalsInv
  <2>2. CASE r # run
    BY <1>4, <2>1, <2>2
  <2>3. CASE r = run
    BY <1>4, <2>1, <2>3
  <2> QED
    BY <2>1, <2>2, <2>3
<1>7. CodeInv'
  BY DEF CommandInv, CodeInv
<1>8. LoadInv'
  BY DEF CommandInv, LoadInv, QACommand, Selected
<1>9. proc.at = "execute"
  BY DEF Executing
<1>10. RunInv'
  BY <1>4, <1>9 DEF CommandInv, RunInv, QACommand
<1>11. TodoInv'
  BY <1>9 DEF TodoInv
<1>12. ReportsInv'
  BY <1>5, ReportsKept DEF CommandInv
<1> QED
  BY <1>6, <1>7, <1>8, <1>10, <1>11, <1>12 DEF CommandInv

LEMMA SendStep ==
  ASSUME CommandInv, NEW reply, Send(reply)
  PROVE  CommandInv'
  BY WriteStep DEF Send, world

LEMMA FinalizeStep ==
  ASSUME CommandInv, Finalize
  PROVE  CommandInv'
<1> DEFINE new == Append(journals[proc.run][Current], "final")
<1>1. /\ Executing /\ UNCHANGED <<command, code, reports, proc>>
      /\ journals' = [journals EXCEPT ![proc.run][Current] = new]
  BY DEF Finalize, world
<1> HIDE DEF new
<1> QED
  BY <1>1, WriteStep

LEMMA EvaluateStep ==
  ASSUME CommandInv, Evaluate
  PROVE  CommandInv'
<1> DEFINE run == proc.run
           rows == Rows(run, proc.code)
           controls == [cases |-> Ids(Controls(proc.cases)), by |-> proc.code]
           place == [controls |-> controls]
           a == [path |-> <<Place(run, rows), "automatic">>, content |-> rows]
           b == [path |-> <<Place(run, rows), "summary-automatic">>, content |-> rows]
           c == [path |-> <<place, "automatic">>, content |-> controls]
           d == [path |-> <<place, "summary-automatic">>, content |-> controls]
           todo == <<a, b>> \o (IF command = "candidate-suite" THEN <<c, d>> ELSE <<>>)
<1>1. /\ UNCHANGED <<command, code, journals, reports>> /\ proc.at = "execute" /\ ~Executing
      /\ proc' = [proc EXCEPT !.at = "publish", !.todo = todo]
  BY DEF Evaluate, disk, world
<1>2. Complete(run) /\ run \in DOMAIN journals /\ (QACommand => QAPlan(run.plan))
      /\ run.code = proc.code
  BY <1>1 DEF Executing, Complete, CommandInv, RunInv
<1>3. ControlPath(c.path) /\ ControlPath(d.path)
  <2> HIDE DEF controls
  <2> QED
    BY DEF ControlPath
<1>4. /\ a.path = <<Place(run, rows), "automatic">>
      /\ b.path = <<Place(run, rows), "summary-automatic">>
      /\ a.content = rows /\ b.content = rows
      /\ a = [path |-> a.path, content |-> rows] /\ b = [path |-> b.path, content |-> rows]
  OBVIOUS
<1> HIDE DEF a, b, c, d
<1>5. /\ \E S : todo \in Seq(S)
      /\ \A i \in DOMAIN todo : todo[i] \in {a, b, c, d}
      /\ 1 \in DOMAIN todo /\ 2 \in DOMAIN todo /\ todo[1] = a /\ todo[2] = b
  <2> DEFINE S == {a, b, c, d}
             head == <<a, b>>
             tail == IF command = "candidate-suite" THEN <<c, d>> ELSE <<>>
  <2>1. head \in Seq(S) /\ Len(head) = 2 /\ head[1] = a /\ head[2] = b /\ tail \in Seq(S)
    <3>1. head \in Seq(S) /\ Len(head) = 2 /\ head[1] = a /\ head[2] = b
      OBVIOUS
    <3>2. <<c, d>> \in Seq(S) /\ <<>> \in Seq(S)
      OBVIOUS
    <3> HIDE DEF S
    <3> QED
      BY <3>1, <3>2
  <2>2. todo = head \o tail
    OBVIOUS
  <2> HIDE DEF todo, head, tail, S
  <2>3. /\ todo \in Seq(S) /\ Len(todo) = 2 + Len(tail)
        /\ \A i \in 1 .. 2 + Len(tail) :
             todo[i] = IF i <= 2 THEN head[i] ELSE tail[i - 2]
    <3>1. /\ head \o tail \in Seq(S) /\ Len(head \o tail) = Len(head) + Len(tail)
          /\ \A i \in 1 .. Len(head) + Len(tail) :
               (head \o tail)[i] = IF i <= Len(head) THEN head[i] ELSE tail[i - Len(head)]
      BY <2>1, ConcatProperties
    <3> QED
      BY <2>1, <2>2, <3>1
  <2>4. Len(tail) \in Nat /\ DOMAIN todo = 1 .. Len(todo)
    BY <2>1, <2>3
  <2>5. todo[1] = a /\ todo[2] = b /\ 1 \in DOMAIN todo /\ 2 \in DOMAIN todo
    BY <2>1, <2>3, <2>4
  <2>6. \A i \in DOMAIN todo : todo[i] \in S
    BY <2>3
  <2> QED
    BY <2>3, <2>5, <2>6 DEF S
<1> HIDE DEF todo, rows
<1>6. proc' = [at |-> "publish", code |-> proc.code, cases |-> proc.cases,
               source |-> proc.source, baselines |-> proc.baselines,
               run |-> run, todo |-> todo]
  BY <1>1 DEF CommandInv, CodeInv
<1> HIDE DEF run
<1>7. CodeInv'
  BY <1>1, <1>6 DEF CommandInv, CodeInv
<1>8. LoadInv'
  BY <1>1, <1>6 DEF CommandInv, LoadInv, QACommand
<1>9. RunInv'
  <2>1. proc'.run = run /\ proc'.at = "publish" /\ Finalized(run)' = Finalized(run)
    BY <1>1, <1>6 DEF Finalized, run
  <2> QED
    BY <1>1, <1>2, <2>1 DEF RunInv, QACommand, Complete, Finalized
<1>10. Rows(proc.run, proc.code)' = rows
  BY <1>1, <1>6 DEF Rows, rows, run
<1>11. TodoInv'
  <2>1. proc'.at = "publish" /\ proc'.run = run /\ proc'.todo = todo
    BY <1>6
  <2>2. \A i \in DOMAIN todo :
          \/ todo[i].path \in RowPaths(run, rows) /\ todo[i].content = rows
          \/ ControlPath(todo[i].path)
    BY <1>3, <1>4, <1>5 DEF RowPaths
  <2>3. \A path \in RowPaths(run, rows) :
          \E i \in DOMAIN todo : todo[i] = [path |-> path, content |-> rows]
    BY <1>4, <1>5 DEF RowPaths
  <2> QED
    BY <1>5, <1>10, <2>1, <2>2, <2>3 DEF TodoInv, Due
<1> QED
  BY <1>1, <1>7, <1>8, <1>9, <1>11, ProcStep

LEMMA CompareStep ==
  ASSUME CommandInv, Compare
  PROVE  CommandInv'
<1> DEFINE run == proc.run
           todo == [k \in DOMAIN QAIds |->
                      [path |-> ComparisonPath(run, k),
                       content |-> ComparisonOf(run, k, proc.code)]]
<1>1. UNCHANGED <<command, code, journals, reports>> /\ QACommand
      /\ proc.at = "publish" /\ proc.todo = <<>>
      /\ proc.baselines = Baselines(Canonical.source)
      /\ Complete(run) /\ run \in DOMAIN journals /\ QAPlan(run.plan)
      /\ run.code = proc.code
  BY DEF Compare, disk, world, QACommand, CommandInv, LoadInv, RunInv
<1>2. proc' = [proc EXCEPT !.at = "compare", !.todo = todo]
  BY <1>1 DEF Compare, Complete, ComparisonPath, ComparisonOf
<1>3. /\ \E S : todo \in Seq(S)
      /\ DOMAIN todo = DOMAIN QAIds
      /\ \A k \in DOMAIN QAIds : /\ todo[k].path = ComparisonPath(run, k)
                                 /\ todo[k].content = ComparisonOf(run, k, proc.code)
                                 /\ todo[k] = [path |-> ComparisonPath(run, k),
                                               content |-> ComparisonOf(run, k, proc.code)]
  <2>1. PICK n \in Nat : DOMAIN QAIds = 1 .. n
    BY QAIdsAssumption
  <2>2. todo \in Seq({todo[k] : k \in DOMAIN QAIds})
    <3> DEFINE S == {todo[k] : k \in DOMAIN QAIds}
    <3>1. DOMAIN todo = 1 .. n /\ \A k \in 1 .. n : todo[k] \in S
      BY <2>1
    <3>2. todo = [k \in 1 .. n |-> todo[k]]
      BY <2>1
    <3> HIDE DEF S, todo
    <3>3. todo \in [1 .. n -> S]
      BY <3>1, <3>2
    <3>4. todo \in Seq(S)
      BY <2>1, <3>3
    <3> QED
      BY <3>4 DEF S
  <2> QED
    BY <2>2
<1> HIDE DEF todo
<1>4. proc' = [at |-> "compare", code |-> proc.code, cases |-> proc.cases,
               source |-> proc.source, baselines |-> proc.baselines,
               run |-> run, todo |-> todo]
  BY <1>2 DEF CommandInv, CodeInv
<1> HIDE DEF run
<1>5. CodeInv'
  BY <1>1, <1>4 DEF CommandInv, CodeInv
<1>6. LoadInv'
  BY <1>4 DEF LoadInv
<1>7. RunInv'
  BY <1>1, <1>4 DEF RunInv, QACommand, Complete, Finalized
<1>8. \A path \in RowPaths(run, Rows(run, proc.code)) : Published(path, Rows(run, proc.code))
  <2>1. \A path \in RowPaths(run, Rows(run, proc.code)) :
          Published(path, Rows(run, proc.code)) \/ Due(path, Rows(run, proc.code))
    BY <1>1 DEF CommandInv, TodoInv, run
  <2>2. \A path, content : ~Due(path, content)
    BY <1>1 DEF Due
  <2> QED
    BY <2>1, <2>2
<1>9. /\ proc'.at = "compare" /\ proc'.run = run /\ proc'.todo = todo /\ proc'.code = proc.code
  BY <1>4
<1>10. /\ Rows(proc.run, proc.code)' = Rows(run, proc.code)
       /\ \A k : ComparisonOf(proc.run, k, proc.code)' = ComparisonOf(run, k, proc.code)
  BY <1>1, <1>9 DEF Rows, ComparisonOf, Comparison
<1>11. TodoInv'
  <2>2. \A path \in RowPaths(run, Rows(run, proc.code)) :
          Published(path, Rows(proc.run, proc.code))'
    BY <1>1, <1>8, <1>10 DEF Published
  <2>3. \A k \in DOMAIN QAIds :
          Due(ComparisonPath(proc.run, k), ComparisonOf(proc.run, k, proc.code))'
    BY <1>3, <1>9, <1>10 DEF Due, ComparisonPath
  <2>4. \A i \in DOMAIN todo : \E k \in DOMAIN QAIds :
          /\ todo[i].path = ComparisonPath(run, k)
          /\ todo[i].content = ComparisonOf(run, k, proc.code)
    BY <1>3
  <2>5. QACommand'
    BY <1>1 DEF QACommand
  <2> QED
    BY <1>3, <1>9, <1>10, <2>2, <2>3, <2>4, <2>5 DEF TodoInv, ComparisonPath
<1> QED
  BY <1>1, <1>5, <1>6, <1>7, <1>11, ProcStep

(* A file is published: it is one of the stage's, so what is published     *)
(* stays what the journal says, and the others go on being due.            *)
LEMMA PublishStep ==
  ASSUME CommandInv, Publish
  PROVE  CommandInv'
<1> DEFINE file == Head(proc.todo)
           rest == Tail(proc.todo)
<1>1. UNCHANGED <<command, code, journals>> /\ proc.at \in {"publish", "compare"}
      /\ proc.todo # <<>> /\ PublishFile(file.path, file.content)
  BY DEF Publish, world
<1>2. proc.run \in DOMAIN journals /\ Complete(proc.run) /\ proc.run.code = proc.code
      /\ (QACommand => QAPlan(proc.run.plan))
  BY <1>1 DEF CommandInv, CodeInv, RunInv
<1>3. CASE Fail /\ UNCHANGED reports
  BY <1>1, <1>3, StoppedStep DEF Fail, CommandInv, CodeInv
<1>4. CASE ~(Fail /\ UNCHANGED reports)
  <2>1. /\ file.path \in DOMAIN reports => reports[file.path] = file.content
        /\ reports' = [p \in DOMAIN reports \cup {file.path} |->
                         IF p \in DOMAIN reports THEN reports[p] ELSE file.content]
        /\ proc' = [proc EXCEPT !.todo = rest]
    BY <1>1, <1>4 DEF PublishFile
  <2>2. /\ 1 \in DOMAIN proc.todo /\ file = proc.todo[1]
        /\ \E S : rest \in Seq(S)
        /\ \A i \in DOMAIN rest : i + 1 \in DOMAIN proc.todo /\ rest[i] = proc.todo[i + 1]
        /\ \A i \in DOMAIN proc.todo : i = 1 \/ (i - 1 \in DOMAIN rest
                                                 /\ rest[i - 1] = proc.todo[i])
    <3> DEFINE todo == proc.todo
    <3>1. PICK S : todo \in Seq(S)
      BY <1>1 DEF CommandInv, TodoInv
    <3> HIDE DEF todo
    <3>2. todo # <<>>
      BY <1>1 DEF todo
    <3>3. Len(todo) \in Nat /\ Len(todo) >= 1 /\ DOMAIN todo = 1 .. Len(todo)
          /\ Head(todo) = todo[1]
      BY <3>1, <3>2
    <3>4. Tail(todo) \in Seq(S) /\ Len(Tail(todo)) = Len(todo) - 1
          /\ \A i \in 1 .. Len(todo) - 1 : Tail(todo)[i] = todo[i + 1]
      BY <3>1, <3>2
    <3> DEFINE short == Tail(todo)
    <3> HIDE DEF short
    <3>5. short \in Seq(S) /\ Len(short) = Len(todo) - 1
          /\ \A i \in 1 .. Len(todo) - 1 : short[i] = todo[i + 1]
      BY <3>4 DEF short
    <3>6. DOMAIN short = 1 .. Len(todo) - 1
      BY <3>5
    <3>7. \A i \in DOMAIN short : i + 1 \in DOMAIN todo /\ short[i] = todo[i + 1]
      BY <3>3, <3>5, <3>6
    <3>8. \A i \in DOMAIN todo : i = 1 \/ (i - 1 \in DOMAIN short /\ short[i - 1] = todo[i])
      <4> SUFFICES ASSUME NEW i \in DOMAIN todo, i # 1
                   PROVE  i - 1 \in DOMAIN short /\ short[i - 1] = todo[i]
        OBVIOUS
      <4>1. i \in Nat /\ i - 1 \in 1 .. Len(todo) - 1 /\ (i - 1) + 1 = i
        BY <3>3
      <4> QED
        BY <3>5, <3>6, <4>1
    <3>9. 1 \in DOMAIN todo
      BY <3>3
    <3> QED
      BY <3>3, <3>5, <3>7, <3>8, <3>9 DEF short, todo
  <2> HIDE DEF file, rest
  <2>3. proc' = [at |-> proc.at, code |-> proc.code, cases |-> proc.cases,
                 source |-> proc.source, baselines |-> proc.baselines,
                 run |-> proc.run, todo |-> rest]
    BY <2>1 DEF CommandInv, CodeInv
  <2>4. /\ proc'.at = proc.at /\ proc'.code = proc.code /\ proc'.run = proc.run
        /\ proc'.todo = rest /\ proc'.baselines = proc.baselines /\ proc'.cases = proc.cases
        /\ proc'.source = proc.source
    BY <2>3
  <2>5. /\ \A path \in DOMAIN reports : path \in DOMAIN reports' /\ reports'[path] = reports[path]
        /\ DOMAIN reports' = DOMAIN reports \cup {file.path}
        /\ reports'[file.path] = file.content
    BY <2>1
  <2>6. \A run, by : /\ Complete(run)' = Complete(run)
                     /\ Rows(run, by)' = Rows(run, by)
    <3> SUFFICES ASSUME NEW run, NEW by
                 PROVE  Complete(run)' = Complete(run) /\ Rows(run, by)' = Rows(run, by)
      OBVIOUS
    <3>1. Complete(run)' = Complete(run)
      BY <1>1 DEF Complete, Finalized
    <3>2. Rows(run, by)' = Rows(run, by)
      BY <1>1 DEF Rows
    <3> QED
      BY <3>1, <3>2
  <2>7. \A run, k, by : ComparisonOf(run, k, by)' = ComparisonOf(run, k, by)
    BY <1>1 DEF ComparisonOf, Comparison
  <2>8. /\ Rows(proc.run, proc.code)' = Rows(proc.run, proc.code)
        /\ \A k : ComparisonOf(proc.run, k, proc.code)' = ComparisonOf(proc.run, k, proc.code)
    BY <1>1, <2>4 DEF Rows, ComparisonOf, Comparison
  <2>9. JournalsInv'
    BY <1>1 DEF CommandInv, JournalsInv
  <2>10. CodeInv'
    BY <1>1, <2>3 DEF CommandInv, CodeInv
  <2>11. LoadInv'
    <3>1. proc'.at \notin {"reread", "identify"}
      BY <1>1, <2>4
    <3>2. proc.at = "publish" /\ QACommand => proc.baselines = Baselines(Canonical.source)
      BY DEF CommandInv, LoadInv
    <3> QED
      BY <1>1, <2>4, <3>1, <3>2 DEF LoadInv, QACommand
  <2>12. RunInv'
    <3>1. Finalized(proc.run)' = Finalized(proc.run)
      BY <1>1, <2>4 DEF Finalized
    <3> QED
      BY <1>1, <1>2, <2>4, <3>1 DEF RunInv, QACommand, Complete
  <2>13. ASSUME NEW path, NEW content, Due(path, content)
         PROVE  \/ path \in DOMAIN reports' /\ reports'[path] = content
                \/ \E i \in DOMAIN rest : rest[i] = [path |-> path, content |-> content]
    <3>1. PICK i \in DOMAIN proc.todo :
            proc.todo[i] = [path |-> path, content |-> content]
      BY <2>13 DEF Due
    <3>2. i = 1 => file.path = path /\ file.content = content
      BY <2>2, <3>1
    <3>3. i # 1 => i - 1 \in DOMAIN rest
                   /\ rest[i - 1] = [path |-> path, content |-> content]
      BY <2>2, <3>1
    <3> QED
      BY <2>5, <3>2, <3>3
  <2>14. ASSUME proc.at = "publish"
         PROVE  /\ TodoInv'
                /\ \A path \in DOMAIN reports' : path \notin DOMAIN reports =>
                     RowsPublished(path)' \/ ControlPath(path)
    <3> DEFINE rows == Rows(proc.run, proc.code)
    <3>1. /\ \A i \in DOMAIN proc.todo :
               \/ proc.todo[i].path \in RowPaths(proc.run, rows) /\ proc.todo[i].content = rows
               \/ ControlPath(proc.todo[i].path)
          /\ \A path \in RowPaths(proc.run, rows) : Published(path, rows) \/ Due(path, rows)
      BY <2>14 DEF CommandInv, TodoInv
    <3> HIDE DEF rows
    <3>2. \A i \in DOMAIN rest :
            \/ rest[i].path \in RowPaths(proc.run, rows) /\ rest[i].content = rows
            \/ ControlPath(rest[i].path)
      BY <2>2, <3>1
    <3>3. \A path \in RowPaths(proc.run, rows) :
            \/ path \in DOMAIN reports' /\ reports'[path] = rows
            \/ \E i \in DOMAIN rest : rest[i] = [path |-> path, content |-> rows]
      BY <2>5, <2>13, <3>1 DEF Published
    <3>4. Rows(proc.run, proc.code)' = rows
      BY <2>8 DEF rows
    <3>5. TodoInv'
      BY <2>2, <2>4, <2>14, <3>2, <3>3, <3>4 DEF TodoInv, Published, Due
    <3>6. \/ file.path \in RowPaths(proc.run, rows) /\ file.content = rows
          \/ ControlPath(file.path)
      BY <2>2, <3>1
    <3>7. \A path \in DOMAIN reports' : path \notin DOMAIN reports =>
            RowsPublished(path)' \/ ControlPath(path)
      <4> SUFFICES ASSUME NEW path \in DOMAIN reports', path \notin DOMAIN reports,
                          ~ControlPath(path)
                   PROVE  RowsPublished(path)'
        OBVIOUS
      <4>1. path = file.path
        BY <2>5
      <4>2. path \in RowPaths(proc.run, rows) /\ reports'[path] = rows
        BY <2>5, <3>6, <4>1
      <4>3. PICK run \in DOMAIN journals :
              /\ Complete(run) /\ path \in RowPaths(run, Rows(run, run.code))
              /\ reports'[path] = Rows(run, run.code)
        BY <1>2, <4>2 DEF rows
      <4>4. /\ Complete(run)' /\ run \in DOMAIN journals'
            /\ Rows(run, run.code)' = Rows(run, run.code)
        BY <1>1, <2>6, <4>3
      <4> QED
        BY <4>3, <4>4 DEF RowsPublished
    <3> QED
      BY <3>5, <3>7
  <2>15. ASSUME proc.at = "compare"
         PROVE  /\ TodoInv'
                /\ \A path \in DOMAIN reports' : path \notin DOMAIN reports =>
                     ComparisonPublished(path)'
    <3> DEFINE rows == Rows(proc.run, proc.code)
               c(k) == ComparisonOf(proc.run, k, proc.code)
    <3>1. /\ \A path \in RowPaths(proc.run, rows) : Published(path, rows)
          /\ QACommand
          /\ \A i \in DOMAIN proc.todo : \E k \in DOMAIN QAIds :
               proc.todo[i].path = ComparisonPath(proc.run, k) /\ proc.todo[i].content = c(k)
          /\ \A k \in DOMAIN QAIds :
               \/ ComparisonPath(proc.run, k) \in DOMAIN reports
               \/ Due(ComparisonPath(proc.run, k), c(k))
      BY <2>15 DEF CommandInv, TodoInv
    <3>2. Rows(proc.run, proc.code)' = rows /\ \A k : ComparisonOf(proc.run, k, proc.code)' = c(k)
      BY <2>8
    <3> HIDE DEF rows, c
    <3>3. \A i \in DOMAIN rest : \E k \in DOMAIN QAIds :
            rest[i].path = ComparisonPath(proc.run, k) /\ rest[i].content = c(k)
      BY <2>2, <3>1
    <3>4. \A k \in DOMAIN QAIds :
            \/ ComparisonPath(proc.run, k) \in DOMAIN reports'
            \/ \E i \in DOMAIN rest :
                 rest[i] = [path |-> ComparisonPath(proc.run, k), content |-> c(k)]
      BY <2>5, <2>13, <3>1
    <3>5. \A path \in RowPaths(proc.run, rows) : path \in DOMAIN reports' /\ reports'[path] = rows
      BY <2>5, <3>1 DEF Published
    <3>6. QACommand'
      BY <1>1, <3>1 DEF QACommand
    <3>7. TodoInv'
      <4>1. \A path \in RowPaths(proc.run, Rows(proc.run, proc.code))' :
              Published(path, Rows(proc.run, proc.code))'
        BY <2>4, <3>2, <3>5 DEF Published, RowPaths
      <4>2. \A i \in DOMAIN proc'.todo : \E k \in DOMAIN QAIds :
              /\ proc'.todo[i].path = ComparisonPath(proc.run, k)'
              /\ proc'.todo[i].content = ComparisonOf(proc.run, k, proc.code)'
        BY <2>4, <3>2, <3>3 DEF ComparisonPath
      <4>3. \A k \in DOMAIN QAIds :
              \/ ComparisonPath(proc.run, k)' \in DOMAIN reports'
              \/ Due(ComparisonPath(proc.run, k), ComparisonOf(proc.run, k, proc.code))'
        BY <2>4, <3>2, <3>4 DEF ComparisonPath, Due
      <4>4. \E S : proc'.todo \in Seq(S)
        BY <2>2, <2>4
      <4> QED
        BY <2>4, <2>15, <3>6, <4>1, <4>2, <4>3, <4>4 DEF TodoInv
    <3>8. \A path \in DOMAIN reports' : path \notin DOMAIN reports => ComparisonPublished(path)'
      <4> SUFFICES ASSUME NEW path \in DOMAIN reports', path \notin DOMAIN reports
                   PROVE  ComparisonPublished(path)'
        OBVIOUS
      <4>1. path = file.path
        BY <2>5
      <4>2. PICK k \in DOMAIN QAIds :
              path = ComparisonPath(proc.run, k) /\ reports'[path] = c(k)
        BY <2>2, <2>5, <3>1, <4>1
      <4>3. <<Place(proc.run, rows), "automatic">> \in RowPaths(proc.run, rows)
        BY DEF RowPaths
      <4>4. PICK run \in DOMAIN journals :
              /\ run = proc.run /\ Complete(run) /\ QAPlan(run.plan)
              /\ path = ComparisonPath(run, k)
              /\ reports'[path] = ComparisonOf(run, k, run.code)
              /\ <<Place(run, Rows(run, run.code)), "automatic">> \in DOMAIN reports'
        BY <1>2, <3>1, <3>5, <4>2, <4>3 DEF rows, c
      <4>5. /\ Complete(run)' /\ run \in DOMAIN journals'
            /\ reports'[path] = ComparisonOf(run, k, run.code)'
            /\ Rows(run, run.code)' = Rows(run, run.code)
        BY <1>1, <2>6, <2>7, <4>4
      <4> QED
        BY <4>4, <4>5 DEF ComparisonPublished
    <3> QED
      BY <3>7, <3>8
  <2>16. ASSUME NEW path \in DOMAIN reports
         PROVE  RowsPublished(path)' \/ ControlPath(path) \/ ComparisonPublished(path)'
    <3>1. path \in DOMAIN reports' /\ reports'[path] = reports[path]
      BY <2>5
    <3>2. ASSUME RowsPublished(path) PROVE RowsPublished(path)'
      <4>1. PICK run \in DOMAIN journals :
              /\ Complete(run) /\ path \in RowPaths(run, Rows(run, run.code))
              /\ reports[path] = Rows(run, run.code)
        BY <3>2 DEF RowsPublished
      <4>2. /\ Complete(run)' /\ run \in DOMAIN journals'
            /\ Rows(run, run.code)' = Rows(run, run.code) /\ reports'[path] = reports[path]
        BY <1>1, <2>6, <3>1, <4>1
      <4> QED
        BY <4>1, <4>2 DEF RowsPublished
    <3>3. ASSUME ComparisonPublished(path) PROVE ComparisonPublished(path)'
      <4>1. PICK run \in DOMAIN journals, k \in DOMAIN QAIds :
              /\ Complete(run) /\ QAPlan(run.plan)
              /\ path = ComparisonPath(run, k)
              /\ reports[path] = ComparisonOf(run, k, run.code)
              /\ <<Place(run, Rows(run, run.code)), "automatic">> \in DOMAIN reports
        BY <3>3 DEF ComparisonPublished
      <4>2. /\ Complete(run)' /\ run \in DOMAIN journals'
            /\ reports'[path] = ComparisonOf(run, k, run.code)'
        BY <1>1, <2>6, <2>7, <3>1, <4>1
      <4>3. /\ <<Place(run, Rows(run, run.code)), "automatic">> \in DOMAIN reports'
            /\ Rows(run, run.code)' = Rows(run, run.code)
        BY <2>5, <2>6, <4>1
      <4> QED
        BY <4>1, <4>2, <4>3 DEF ComparisonPublished
    <3> QED
      BY <3>2, <3>3 DEF CommandInv, ReportsInv
  <2>17. TodoInv'
    BY <1>1, <2>14, <2>15
  <2>18. ReportsInv'
    BY <1>1, <2>14, <2>15, <2>16 DEF ReportsInv
  <2> QED
    BY <2>9, <2>10, <2>11, <2>12, <2>17, <2>18 DEF CommandInv
<1> QED
  BY <1>3, <1>4

LEMMA DoneStep ==
  ASSUME CommandInv, Done
  PROVE  CommandInv'
<1>1. /\ UNCHANGED <<command, code, journals, reports>> /\ proc.todo = <<>>
      /\ proc.at = "compare" \/ (proc.at = "publish" /\ ~QACommand)
      /\ proc' = [proc EXCEPT !.at = "done"]
  BY DEF Done, disk, world, Goto, QACommand
<1>2. proc' = [at |-> "done", code |-> proc.code, cases |-> proc.cases,
               source |-> proc.source, baselines |-> proc.baselines,
               run |-> proc.run, todo |-> proc.todo]
  BY <1>1 DEF CommandInv, CodeInv
<1>3. proc'.at = "done" /\ proc'.run = proc.run /\ proc'.code = proc.code
  BY <1>2
<1>4. CodeInv'
  BY <1>1, <1>2 DEF CommandInv, CodeInv
<1>5. LoadInv'
  BY <1>3 DEF LoadInv
<1>6. RunInv'
  <2>1. Finalized(proc.run)' = Finalized(proc.run)
    BY <1>1, <1>3 DEF Finalized
  <2> QED
    BY <1>1, <1>3, <2>1 DEF CommandInv, RunInv, QACommand, Complete
<1>7. \A path, content : ~Due(path, content)
  BY <1>1 DEF Due
<1>8. /\ \A path \in RowPaths(proc.run, Rows(proc.run, proc.code)) :
           Published(path, Rows(proc.run, proc.code))
      /\ QACommand => \A k \in DOMAIN QAIds : ComparisonPath(proc.run, k) \in DOMAIN reports
  BY <1>1, <1>7 DEF CommandInv, TodoInv
<1>9. TodoInv'
  <2>1. Rows(proc.run, proc.code)' = Rows(proc.run, proc.code)
    BY <1>1, <1>3 DEF Rows
  <2> QED
    BY <1>1, <1>3, <1>8, <2>1 DEF TodoInv, Published, RowPaths, QACommand, ComparisonPath
<1> QED
  BY <1>1, <1>4, <1>5, <1>6, <1>9, ProcStep

LEMMA CommandStep ==
  ASSUME CommandInv, [Next]_commandVars
  PROVE  CommandInv'
<1>1. CASE Invoke
  BY <1>1, StoppedStep DEF Invoke, disk, world, CommandInv, CodeInv
<1>2. CASE Step
  BY <1>2, LoadReplayStep, RereadStep, LoadCuratedStep, IdentifyStep, FinalizeStep, SendStep,
     EvaluateStep, PublishStep, CompareStep, DoneStep DEF Step
<1>3. CASE Kill
  BY <1>3, StoppedStep DEF Kill, disk
<1>4. CASE EditInputs
  BY <1>4, EditStep DEF EditInputs, disk, CommandInv, CodeInv
<1>5. CASE EditCode
  <2>1. code' \in Codes /\ Stopped
    BY <1>5 DEF EditCode
  <2> QED
    BY <1>5, <2>1, EditStep DEF EditCode, disk
<1>6. CASE UNCHANGED commandVars
  BY <1>6, EditStep DEF commandVars, CommandInv, CodeInv
<1> QED
  BY <1>1, <1>2, <1>3, <1>4, <1>5, <1>6 DEF Next

(* At every stage of every invocation the plan is the validated inputs',   *)
(* nothing finalized is touched, and what is published is the journal's.   *)
THEOREM CommandInvariant == CommandSpec => []CommandInv
<1>1. CommandInv /\ [Next]_commandVars => CommandInv'
  BY CommandStep
<1> QED
  BY <1>1, CommandInit, PTL DEF CommandSpec

-----------------------------------------------------------------------------
(* The rows of a run are published when all of it is finalized, and are    *)
(* what its journal says and its implementation measured.                  *)
LEMMA PublishedRows ==
  ASSUME CommandInv, NEW path \in DOMAIN reports, IsReport(path)
  PROVE  Complete(path[1].run) /\ reports[path] = Rows(path[1].run, path[1].run.code)
<1>1. ~ControlPath(path)
  BY DEF ControlPath, IsReport
<1>2. \A a, b, c : Len(<<a, b, c>>) # 2
  OBVIOUS
<1>3. ~ComparisonPublished(path)
  BY <1>2 DEF ComparisonPublished, ComparisonPath, IsReport
<1>4. PICK run \in DOMAIN journals :
        /\ Complete(run) /\ path \in RowPaths(run, Rows(run, run.code))
        /\ reports[path] = Rows(run, run.code)
  BY <1>1, <1>3 DEF CommandInv, ReportsInv, RowsPublished
<1>5. path[1].run = run
  BY <1>4 DEF RowPaths, Place
<1> QED
  BY <1>4, <1>5

LEMMA PublishedComparison ==
  ASSUME CommandInv, NEW path \in DOMAIN reports, IsComparison(path)
  PROVE  ComparisonPublished(path)
<1>1. \A a, b : Len(<<a, b>>) # 3
  OBVIOUS
<1>2. ~ControlPath(path)
  BY <1>1 DEF ControlPath, IsComparison
<1>3. ~RowsPublished(path)
  BY <1>1 DEF RowsPublished, RowPaths, IsComparison
<1> QED
  BY <1>2, <1>3 DEF CommandInv, ReportsInv

(* A comparison sets the answer beside the output that the same            *)
(* observation had in the validated file: BaselineFromValidatedBytes, of   *)
(* load_qa_comparison_inputs and write_qa_comparisons.                     *)
THEOREM BaselineAlwaysValidated == CommandSpec => []BaselineFromValidatedBytes
<1>1. CommandInv => BaselineFromValidatedBytes
  <2> SUFFICES ASSUME CommandInv, NEW path \in DOMAIN reports, IsComparison(path)
               PROVE  LET line == LineOf(Canonical.source, path[3])
                          report == reports[path]
                      IN report.request.messages = line.messages
                         /\ report.baseline = line.output
    BY DEF BaselineFromValidatedBytes
  <2>1. PICK run \in DOMAIN journals, k \in DOMAIN QAIds :
          /\ QAPlan(run.plan)
          /\ path = ComparisonPath(run, k) /\ reports[path] = ComparisonOf(run, k, run.code)
    BY PublishedComparison DEF ComparisonPublished
  <2>2. path[3] = QAIds[k]
    BY <2>1 DEF ComparisonPath
  <2>3. Baselines(Canonical.source)[QAIds[k]] = LineOf(Canonical.source, QAIds[k]).output
    BY DEF Baselines, Range
  <2>4. /\ reports[path].request = run.plan[k]
        /\ reports[path].baseline = LineOf(Canonical.source, QAIds[k]).output
    BY <2>1, <2>3 DEF ComparisonOf, Comparison
  <2>5. run.plan[k].messages = LineOf(Canonical.source, QAIds[k]).messages
    BY <2>1 DEF QAPlan
  <2> QED
    BY <2>2, <2>4, <2>5
<1> QED
  BY <1>1, CommandInvariant, PTL

(* However many invocations it took, the published reports rest on the     *)
(* answers of a finalized journal, were measured by the implementation its *)
(* manifest names, and all are there after a success: ReportsAgree, of     *)
(* _curated_candidate, qa_replay_compare and write_qa_comparisons.         *)
THEOREM ReportsAlwaysAgree == CommandSpec => []ReportsAgree
<1>1. CommandInv => ReportsAgree
  <2> SUFFICES ASSUME CommandInv PROVE ReportsAgree
    OBVIOUS
  <2>1. ASSUME NEW path \in DOMAIN reports, IsReport(path)
        PROVE  LET run == path[1].run
               IN Finalized(run) = DOMAIN run.plan /\ reports[path] = Rows(run, run.code)
    BY <2>1, PublishedRows DEF Complete
  <2>2. ASSUME NEW path \in DOMAIN reports, IsComparison(path)
        PROVE  LET run == path[1]
                   report == reports[path]
               IN /\ \E k \in DOMAIN run.plan : /\ run.plan[k].case = report.case
                                               /\ path[3] = report.case
                                               /\ journals[run][k] = report.reply
                  /\ report.by = run.code
                  /\ <<Place(run, Rows(run, run.code)), "automatic">> \in DOMAIN reports
    <3>1. PICK run \in DOMAIN journals, k \in DOMAIN QAIds :
            /\ QAPlan(run.plan)
            /\ path = ComparisonPath(run, k) /\ reports[path] = ComparisonOf(run, k, run.code)
            /\ <<Place(run, Rows(run, run.code)), "automatic">> \in DOMAIN reports
      BY <2>2, PublishedComparison DEF ComparisonPublished
    <3>2. path[1] = run /\ path[3] = QAIds[k]
      BY <3>1 DEF ComparisonPath
    <3>3. k \in DOMAIN run.plan /\ run.plan[k].case = QAIds[k]
      BY <3>1 DEF QAPlan
    <3>4. /\ reports[path].case = QAIds[k] /\ reports[path].reply = journals[run][k]
          /\ reports[path].by = run.code
      BY <3>1, <3>3 DEF ComparisonOf, Comparison
    <3> QED
      BY <3>1, <3>2, <3>3, <3>4
  <2>3. ASSUME proc.at = "done"
        PROVE  /\ <<Place(proc.run, Rows(proc.run, proc.code)), "summary-automatic">>
                     \in DOMAIN reports
               /\ command = "qa-replay-compare" =>
                    \A id \in Range(QAIds) : <<proc.run, "qa-comparison", id>> \in DOMAIN reports
    <3>1. \A path \in RowPaths(proc.run, Rows(proc.run, proc.code)) : path \in DOMAIN reports
      BY <2>3 DEF CommandInv, TodoInv, Published
    <3>2. command = "qa-replay-compare" =>
            \A k \in DOMAIN QAIds : ComparisonPath(proc.run, k) \in DOMAIN reports
      BY <2>3 DEF CommandInv, TodoInv, QACommand
    <3> QED
      BY <3>1, <3>2 DEF RowPaths, ComparisonPath, Range
  <2> QED
    BY <2>1, <2>2, <2>3 DEF ReportsAgree
<1> QED
  BY <1>1, CommandInvariant, PTL
=============================================================================
