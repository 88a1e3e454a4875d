------------------------------ MODULE Command ------------------------------
(***************************************************************************)
(* __main__.py: one command of the package, invoked by an operator until   *)
(* it succeeds and perhaps again after that.  Each invocation reads its    *)
(* inputs, names the run, resumes the run's journal, evaluates it and      *)
(* publishes create-only reports below one results root; it may be killed  *)
(* between any two steps.  Whoever owns the input files may edit them at   *)
(* any moment; the implementation changes only between invocations ("no    *)
(* files should change during a run").  The journal is durable here and    *)
(* has one writer; ResultJournal and Runner are about what is left out.    *)
(***************************************************************************)
EXTENDS Replay, Curated

CONSTANTS
  Commands,       \* among "candidate-smoke", "candidate-suite", "qa-replay-compare"
  Settings(_),    \* per command, what the configuration says besides the model
  Versions,       \* contents the input files may have: [source, selection, curated]
  Canonical,      \* the contents the frozen hashes are of
  Codes,          \* implementations: package files, prompts and lock
  Replies,        \* what send_once may return; failures are replies too
  MaxEdits,       \* bound: edits of inputs or implementation
  MaxKills        \* bound: invocations killed

\* The selection is a file of rows.
ASSUME CanonicalAssumption == Canonical.selection \in Seq(Range(Canonical.selection))

VARIABLES
  command,        \* the command the operator runs
  files,          \* the input files
  code,           \* the implementation on disk
  proc,           \* the invocation in progress
  journals,       \* per run, per place in the plan: <<>>, <<reply>> or finalized
  reports,        \* contents of the published files, by path
  edits, kills    \* bounds' counters

commandVars == <<command, files, code, proc, journals, reports, edits, kills>>
disk == <<journals, reports>>
world == <<command, files, code, edits, kills>>

-----------------------------------------------------------------------------
(* What an invocation makes of its inputs.                                  *)

\* The last of the checks of _local_config; the first ones refuse alike.
ConfigOK(settings) ==
  /\ settings.loopback /\ settings.repetitions = 1 /\ settings.concurrency = 1
  /\ settings.exploratory /\ settings.smoke_label

\* A request is a case's messages; the model and the generation are fixed.
Request(case) == [case |-> case.id, messages |-> case.messages]
Plan(cases) == [k \in DOMAIN cases |-> Request(cases[k])]
Selected(cases) ==
  CASE command = "candidate-smoke" -> SmokeCases(cases)
    [] command = "candidate-suite" -> ModelCases(cases)
    [] OTHER -> QACases(cases)
DatasetHash(cases) == IF command = "qa-replay-compare" THEN cases ELSE hash_dataset(cases)

\* Faulty variant: the run does not depend on the implementation.
RunOfInputs(cases, implementation) ==
  [dataset |-> DatasetHash(cases), plan |-> Plan(Selected(cases)), code |-> "any"]

\* build_manifest and make_run_id: the manifest is named by all it holds.
Run(cases, implementation) ==
  [dataset |-> DatasetHash(cases), plan |-> Plan(Selected(cases)), code |-> implementation]

\* evaluate_run joins the plan to the journal; measuring is the code's.
Rows(run, implementation) ==
  [k \in DOMAIN run.plan |->
     [case |-> run.plan[k].case, reply |-> journals[run][k], by |-> implementation]]

\* The directory of a batch of evaluations is named by what identifies them: plan
\* and dataset, the attempts they are of, the implementation that measured.
Place(run, rows) == [run |-> run, batch |-> rows]

\* compare_qa
Comparison(run, k, baseline, implementation) ==
  [case |-> run.plan[k].case, request |-> run.plan[k], baseline |-> baseline,
   reply |-> journals[run][k], by |-> implementation]

Finalized(run) == {k \in DOMAIN run.plan : Len(journals[run][k]) = 2}

-----------------------------------------------------------------------------
Idle == [at |-> "idle", code |-> "none", cases |-> <<>>, source |-> <<>>,
         baselines |-> <<>>, run |-> [plan |-> <<>>], todo |-> <<>>]
Goto(step) == proc' = [proc EXCEPT !.at = step]
Fail == proc' = [Idle EXCEPT !.at = "failed"]

Init ==
  /\ command \in Commands
  /\ files \in Versions /\ code \in Codes
  /\ proc = Idle /\ journals = <<>> /\ reports = <<>>
  /\ edits = 0 /\ kills = 0

Stopped == proc.at \in {"idle", "failed", "done"}

\* The package is imported: the code that runs is the one on disk by now.
Invoke ==
  /\ Stopped /\ ConfigOK(Settings(command))
  /\ proc' = [Idle EXCEPT !.at = "load", !.code = code]
  /\ UNCHANGED <<disk, world>>

\* load_ovp34_replay, the canonical hashes and the selection of the ten.
LoadReplay ==
  /\ proc.at = "load" /\ command = "qa-replay-compare"
  /\ LET cases == ReplayCases(files.source, files.selection)
     IN IF /\ SelectionOK(files.selection) /\ SourceOK(files.source, files.selection)
           /\ files.source = Canonical.source /\ files.selection = Canonical.selection
           /\ QASelectionOK(cases)
        THEN proc' = [proc EXCEPT !.at = "reread", !.cases = cases, !.source = files.source]
        ELSE Fail
  /\ UNCHANGED <<disk, world>>

\* Faulty variant: the second read is taken for the first.
RereadUnchecked ==
  /\ proc.at = "reread"
  /\ IF BaselinesOK(files.source)
     THEN proc' = [proc EXCEPT !.at = "identify", !.baselines = Baselines(files.source)]
     ELSE Fail
  /\ UNCHANGED <<disk, world>>

\* The raw-file pass: it must find the bytes the loader validated.
Reread ==
  /\ proc.at = "reread"
  /\ IF files.source = proc.source /\ BaselinesOK(files.source)
     THEN proc' = [proc EXCEPT !.at = "identify", !.baselines = Baselines(files.source)]
     ELSE Fail
  /\ UNCHANGED <<disk, world>>

LoadCurated ==
  /\ proc.at = "load" /\ command # "qa-replay-compare"
  /\ LET cases == load_curated_cases(files.curated)
         selected == Selected(cases)
     IN IF /\ CuratedOK(files.curated) /\ hash_dataset(cases) = FrozenCases
           /\ command = "candidate-smoke" =>
                /\ Ids(selected) = SmokeIds
                /\ \A k \in DOMAIN selected : IsModel(selected[k])
        THEN proc' = [proc EXCEPT !.at = "identify", !.cases = cases]
        ELSE Fail
  /\ UNCHANGED <<disk, world>>

\* _implementation_fingerprints reads the disk again; then the manifest, and
\* the journal of its run is opened or made.
Identify ==
  /\ proc.at = "identify"
  /\ LET run == Run(proc.cases, code)
     IN /\ proc' = [proc EXCEPT !.at = "execute", !.run = run]
        /\ journals' = [r \in DOMAIN journals \cup {run} |->
                          IF r \in DOMAIN journals THEN journals[r]
                          ELSE [k \in DOMAIN run.plan |-> <<>>]]
  /\ UNCHANGED <<reports, world>>

\* run_plan, at the first entry of the plan that is not finalized.
Current == Min(DOMAIN proc.run.plan \ Finalized(proc.run))

\* Faulty variant: the run ends at the first failure.
UntilFailure ==
  /\ proc.at = "execute" /\ Finalized(proc.run) # DOMAIN proc.run.plan
  /\ \A k \in Finalized(proc.run) : journals[proc.run][k][1] # "timeout"

Executing == proc.at = "execute" /\ Finalized(proc.run) # DOMAIN proc.run.plan

Send(reply) ==
  /\ Executing /\ journals[proc.run][Current] = <<>>
  /\ journals' = [journals EXCEPT ![proc.run][Current] = <<reply>>]
  /\ UNCHANGED <<reports, proc, world>>

Finalize ==
  /\ Executing /\ journals[proc.run][Current] # <<>>
  /\ journals' = [journals EXCEPT ![proc.run][Current] = Append(@, "final")]
  /\ UNCHANGED <<reports, proc, world>>

\* evaluate_run; the controls' evaluations, which need no run, were made before.
Evaluate ==
  /\ proc.at = "execute" /\ ~Executing
  /\ LET rows == Rows(proc.run, proc.code)
         controls == [cases |-> Ids(Controls(proc.cases)), by |-> proc.code]
         both(place, content) ==
           <<[path |-> <<place, "automatic">>, content |-> content],
             [path |-> <<place, "summary-automatic">>, content |-> content]>>
     IN proc' = [proc EXCEPT !.at = "publish",
                   !.todo = both(Place(proc.run, rows), rows)
                            \o IF command = "candidate-suite"
                               THEN both([controls |-> controls], controls) ELSE <<>>]
  /\ UNCHANGED <<disk, world>>

\* _publish: the same bytes may be there already, other bytes may not.
PublishFile(path, content) ==
  IF path \in DOMAIN reports /\ reports[path] # content
  THEN Fail /\ UNCHANGED reports
  ELSE /\ reports' = [p \in DOMAIN reports \cup {path} |->
                        IF p \in DOMAIN reports THEN reports[p] ELSE content]
       /\ proc' = [proc EXCEPT !.todo = Tail(@)]

Publish ==
  /\ proc.at \in {"publish", "compare"} /\ proc.todo # <<>>
  /\ PublishFile(Head(proc.todo).path, Head(proc.todo).content)
  /\ UNCHANGED <<journals, world>>

\* write_qa_comparisons reads manifest and journal once more.
Compare ==
  /\ proc.at = "publish" /\ proc.todo = <<>> /\ command = "qa-replay-compare"
  /\ IF Finalized(proc.run) = DOMAIN proc.run.plan
     THEN proc' = [proc EXCEPT !.at = "compare",
            !.todo = [k \in DOMAIN QAIds |->
              [path |-> <<proc.run, "qa-comparison", QAIds[k]>>,
               content |-> Comparison(proc.run, k, proc.baselines[QAIds[k]], proc.code)]]]
     ELSE Fail
  /\ UNCHANGED <<disk, world>>

Done ==
  /\ proc.todo = <<>>
  /\ \/ proc.at = "publish" /\ command # "qa-replay-compare"
     \/ proc.at = "compare"
  /\ Goto("done")
  /\ UNCHANGED <<disk, world>>

Step ==
  \/ LoadReplay \/ Reread \/ LoadCurated \/ Identify \/ Finalize
  \/ \E reply \in Replies : Send(reply)
  \/ Evaluate \/ Publish \/ Compare \/ Done

Kill ==
  /\ ~Stopped /\ kills < MaxKills
  /\ proc' = Idle /\ kills' = kills + 1
  /\ UNCHANGED <<command, files, code, edits, disk>>

EditInputs ==
  /\ edits < MaxEdits /\ edits' = edits + 1
  /\ files' \in Versions \ {files}
  /\ UNCHANGED <<command, code, proc, kills, disk>>

EditCode ==
  /\ Stopped /\ edits < MaxEdits /\ edits' = edits + 1
  /\ code' \in Codes \ {code}
  /\ UNCHANGED <<command, files, proc, kills, disk>>

Next == Invoke \/ Step \/ Kill \/ EditInputs \/ EditCode

CommandSpec == Init /\ [][Next]_commandVars

\* An invocation runs on, and the operator goes on repeating the command.
FairCommandSpec == CommandSpec /\ WF_commandVars(Step) /\ WF_commandVars(Invoke)

-----------------------------------------------------------------------------
IsComparison(path) == Len(path) = 3

\* A file of a run's evaluations, as opposed to the controls'.
IsReport(path) == Len(path) = 2 /\ "run" \in DOMAIN path[1]

\* A comparison sets the answer to a captured request beside the output the
\* same historical observation had in the very file that was validated, even
\* when that file is edited between the two reads and put back later
\* (load_qa_comparison_inputs, "baseline_source_changed").
BaselineFromValidatedBytes ==
  \A path \in DOMAIN reports : IsComparison(path) =>
    LET line == LineOf(Canonical.source, path[3])
        report == reports[path]
    IN report.request.messages = line.messages /\ report.baseline = line.output

\* However many invocations it took, with edits in between: nothing of a run is
\* published before all of it is finalized; its rows and its comparisons rest on
\* the answers in its journal and were measured by the one implementation its
\* manifest names; a comparison never lies there without the rows; and they are
\* all there once the command has reported success
\* (_curated_candidate, qa_replay_compare, write_qa_comparisons).
ReportsAgree ==
  /\ \A path \in DOMAIN reports : IsReport(path) =>
       LET run == path[1].run
       IN Finalized(run) = DOMAIN run.plan /\ reports[path] = Rows(run, run.code)
  /\ \A path \in DOMAIN reports : IsComparison(path) =>
       LET run == path[1]
           report == reports[path]
       IN /\ \E k \in DOMAIN run.plan : /\ run.plan[k].case = report.case
                                       /\ path[3] = report.case
                                       /\ journals[run][k] = report.reply
          /\ report.by = run.code
          /\ <<Place(run, Rows(run, run.code)), "automatic">> \in DOMAIN reports
  /\ proc.at = "done" =>
       /\ <<Place(proc.run, Rows(proc.run, proc.code)), "summary-automatic">>
             \in DOMAIN reports
       /\ command = "qa-replay-compare" =>
            \A id \in Range(QAIds) : <<proc.run, "qa-comparison", id>> \in DOMAIN reports

\* An operator who repeats the command gets its success time and again, once
\* the inputs stay what they should be: nothing that an earlier invocation
\* published or left half done makes the create-only publication refuse the
\* later ones for ever.  (An append is atomic here; one cut off within its record
\* leaves a journal that every later invocation refuses: ResultJournal, RunSettles.)
CommandSettles ==
  <>[](files = Canonical) => []<>(proc.at = "done")
=============================================================================
