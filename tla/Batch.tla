------------------------------- MODULE Batch -------------------------------
(***************************************************************************)
(* batch_run (scripts/compare_candidates.py): every candidate model in     *)
(* turn gets a server process on one fixed port and three phase processes, *)
(* with the progress in a snapshot that is replaced after every step.  The *)
(* batch may be killed at any point, leaving its children alone, and run   *)
(* again; servers load, answer and die in their own time.                  *)
(***************************************************************************)
EXTENDS Integers, Sequences, FiniteSets

CONSTANTS
  Rows,        \* the keys of models.json, in order
  Baseline,    \* the row whose suite is the frozen baseline's ("m11")
  MaxServers,  \* bound: server processes ever started
  MaxHalts     \* bound: interrupts and kills of the batch, failed cleanups too

Models == {Rows[i] : i \in DOMAIN Rows}

ASSUME RowsAssumption ==
  Rows \in Seq(Models) /\ \A i, j \in DOMAIN Rows : Rows[i] = Rows[j] => i = j

VARIABLES
  disk,        \* progress.json: each row's status and phases
  results,     \* the <phase>.json files
  config,      \* each row's candidate.local.toml, which phases run with
  progress,    \* the batch's own copy
  pc, pos, ph, \* where the batch is: its row and its phase
  process,     \* the server it owns, or 0
  servers,     \* every server process started: its model and its state
  operation,   \* the phase process it waits for
  orphans,     \* phase processes nobody waits for any more
  kills,       \* times the batch was killed, or its cleanup was cut off
  interrupts   \* times it was interrupted and cleaned up

halts == <<kills, interrupts>>

batchVars == <<progress, pc, pos, ph, process>>
savedVars == <<disk, results, config>>
vars == <<savedVars, batchVars, servers, operation, orphans, halts>>

Names == <<"smoke", "suite", "replay">>
AllPhases == {Names[i] : i \in DOMAIN Names}
Statuses == {"pending", "running", "complete", "blocked"}
Settled == {"complete", "blocked"}

Row == Rows[pos]
Name == Names[ph]
Live == {s \in DOMAIN servers : servers[s].state \in {"loading", "listening"}}
Listening == {s \in DOMAIN servers : servers[s].state = "listening"}

-----------------------------------------------------------------------------
(* The batch.                                                              *)

Save(p) == progress' = p /\ disk' = p

Start ==
  /\ pc = "off"
  /\ progress' = disk /\ pc' = "row" /\ pos' = 1 /\ ph' = 1 /\ process' = 0
  /\ UNCHANGED <<savedVars, servers, operation, orphans, halts>>

Stop ==
  /\ pc = "row" /\ pos > Len(Rows) /\ pc' = "off"
  /\ UNCHANGED <<savedVars, progress, pos, ph, process, servers, operation,
                 orphans, halts>>

SkipSettled ==
  /\ pc = "row" /\ pos <= Len(Rows) /\ progress[Row].status \in Settled
  /\ pos' = pos + 1
  /\ UNCHANGED <<savedVars, progress, pc, ph, process, servers, operation,
                 orphans, halts>>

\* Faulty variant: a blocked row gets another chance.
BeginUnlessComplete ==
  /\ pc = "row" /\ pos <= Len(Rows) /\ progress[Row].status # "complete"
  /\ Save([progress EXCEPT ![Row].status = "running"])
  /\ pc' = "artifact" /\ ph' = 1
  /\ UNCHANGED <<results, config, pos, process, servers, operation, orphans,
                 halts>>

BeginRow ==
  /\ pc = "row" /\ pos <= Len(Rows) /\ progress[Row].status \notin Settled
  /\ Save([progress EXCEPT ![Row].status = "running"])
  /\ pc' = "artifact" /\ ph' = 1
  /\ UNCHANGED <<results, config, pos, process, servers, operation, orphans,
                 halts>>

Goto(where) ==
  /\ pc' = where
  /\ UNCHANGED <<savedVars, progress, pos, ph, process, servers, operation,
                 orphans, halts>>

Die(s) == servers' = [servers EXCEPT ![s].state = "dead"]

\* Nothing stops a phase process but its own end.
LeftBehind ==
  orphans \cup (IF operation = "running" THEN {<<Row, Name>>} ELSE {})

\* An exception in the row's try block.
Block ==
  /\ progress' = [progress EXCEPT ![Row].status = "blocked"]
  /\ pc' = "cleanup" /\ operation' = "none" /\ orphans' = LeftBehind
  /\ UNCHANGED <<savedVars, pos, ph, process, servers, halts>>

ArtifactReady == pc = "artifact" /\ Goto("config")
ArtifactFails == pc = "artifact" /\ Block

Configs == {"none", "partial", "whole"}

\* Faulty variant: a file that is there will do.
ConfigFoundAnyhow == pc = "config" /\ config[Row] # "none" /\ Goto("port")

\* write_config: a file that is there must have the same text.
ConfigFound == pc = "config" /\ config[Row] = "whole" /\ Goto("port")

SetConfig(c, where) ==
  /\ config' = [config EXCEPT ![Row] = c] /\ pc' = where
  /\ UNCHANGED <<disk, results, progress, pos, ph, process, servers, operation,
                 orphans, halts>>

\* The file has its name before it has its text.
ConfigCreated ==
  pc = "config" /\ config[Row] = "none" /\ SetConfig("partial", "writing")

ConfigWritten == pc = "writing" /\ SetConfig("whole", "port")

\* The text differs, cut off or made from other inputs; or reading or writing
\* fails.
ConfigFails == pc \in {"config", "writing"} /\ Block

\* Faulty variant: the batch waits for the port.
WaitForPort == pc = "port" /\ Listening # {} /\ UNCHANGED vars

PortTaken == pc = "port" /\ Listening # {} /\ Block

SpawnServer ==
  /\ pc = "port" /\ Listening = {} /\ Len(servers) < MaxServers
  /\ servers' = Append(servers, [model |-> Row, state |-> "loading"])
  /\ process' = Len(servers) + 1
  /\ pc' = "startup"
  /\ UNCHANGED <<savedVars, progress, pos, ph, operation, orphans, halts>>

ServerExited == pc = "startup" /\ process \notin Live /\ Block

\* GET /models tells which model the server on the port is pinned to.
ServerAnswers ==
  /\ pc = "startup" /\ \E s \in Listening : servers[s].model = Row
  /\ Goto("probe")

WrongModel ==
  /\ pc = "startup" /\ \E s \in Listening : servers[s].model # Row
  /\ Block

\* Nobody answers for five minutes, or what answers makes no sense.
StartupFails == pc = "startup" /\ Block

\* One completion; the answer names the model again.
ProbeAnswered ==
  /\ pc = "probe" /\ \E s \in Listening : servers[s].model = Row
  /\ Goto("phases")

ProbeFails == pc = "probe" /\ Block

AtPhase == pc = "phases" /\ ph <= Len(Names)

PhaseKnown ==
  /\ AtPhase /\ Name \in progress[Row].phases
  /\ ph' = ph + 1
  /\ UNCHANGED <<savedVars, progress, pc, pos, process, servers, operation,
                 orphans, halts>>

NotePhase == Save([progress EXCEPT ![Row].phases = @ \cup {Name}])

\* A phase that was finished but not noted when the batch was cut off.
PhaseFound ==
  /\ AtPhase /\ Name \notin progress[Row].phases /\ <<Row, Name>> \in results
  /\ NotePhase
  /\ UNCHANGED <<results, config, pc, pos, ph, process, servers, operation,
                 orphans, halts>>

IsBaselineSuite == Row = Baseline /\ Name = "suite"

StartPhase ==
  /\ AtPhase /\ Name \notin progress[Row].phases
  /\ <<Row, Name>> \notin results /\ ~IsBaselineSuite
  /\ operation' = "running" /\ pc' = "operation"
  /\ UNCHANGED <<savedVars, progress, pos, ph, process, servers, orphans,
                 halts>>

\* freeze.json, read by every invocation, says whether the baseline still fits.
ReuseBaseline ==
  /\ AtPhase /\ Name \notin progress[Row].phases
  /\ <<Row, Name>> \notin results /\ IsBaselineSuite
  /\ NotePhase
  /\ UNCHANGED <<results, config, pc, pos, ph, process, servers, operation,
                 orphans, halts>>

BaselineIncompatible ==
  /\ AtPhase /\ Name \notin progress[Row].phases
  /\ <<Row, Name>> \notin results /\ IsBaselineSuite
  /\ Block

\* Faulty variant: the process's return code is not looked at.
PhaseEndsAnyhow ==
  /\ pc = "operation" /\ operation \in {"ok", "failed"}
  /\ NotePhase
  /\ operation' = "none" /\ pc' = "phases"
  /\ UNCHANGED <<results, config, pos, ph, process, servers, orphans, halts>>

PhaseEnds ==
  /\ pc = "operation" /\ operation = "ok"
  /\ NotePhase
  /\ operation' = "none" /\ pc' = "phases"
  /\ UNCHANGED <<results, config, pos, ph, process, servers, orphans, halts>>

PhaseFailed == pc = "operation" /\ operation = "failed" /\ Block

\* ps cannot be run, or prints no number: the row is blocked under its phase.
SamplingFails == pc = "operation" /\ operation # "failed" /\ Block

Complete ==
  /\ pc = "phases" /\ ph > Len(Names)
  /\ progress' = [progress EXCEPT ![Row].status = "complete"]
  /\ pc' = "cleanup"
  /\ UNCHANGED <<savedVars, pos, ph, process, servers, operation, orphans,
                 halts>>

\* Faulty variant: the outcome is saved, the server goes on.
CleanupKeepsServer ==
  /\ pc = "cleanup"
  /\ Save(progress)
  /\ pc' = "row" /\ pos' = pos + 1 /\ process' = 0
  /\ UNCHANGED <<results, config, ph, servers, operation, orphans, halts>>

\* finally: the row's own server is stopped, and only then is its outcome saved.
Cleanup ==
  /\ pc = "cleanup"
  /\ IF process \in Live THEN Die(process) ELSE UNCHANGED servers
  /\ Save(progress)
  /\ pc' = "row" /\ pos' = pos + 1 /\ process' = 0
  /\ UNCHANGED <<results, config, ph, operation, orphans, halts>>

\* KeyboardInterrupt is no Exception: the row is not blocked, its server is
\* stopped and the progress saved, what was written of the configuration
\* reaches its file, and the batch ends.  A phase process that was
\* not interrupted along with it goes on.
Interrupt ==
  /\ pc \in {"artifact", "config", "writing", "port", "startup", "probe",
             "phases", "operation"}
  /\ kills + interrupts < MaxHalts
  /\ interrupts' = interrupts + 1
  /\ IF process \in Live THEN Die(process) ELSE UNCHANGED servers
  /\ disk' = progress
  /\ pc' = "off" /\ process' = 0 /\ pos' = 1 /\ ph' = 1
  /\ operation' = "none"
  /\ orphans' \in {orphans, LeftBehind}
  /\ config' \in IF pc = "writing" THEN {config, [config EXCEPT ![Row] = "whole"]}
                                    ELSE {config}
  /\ UNCHANGED <<results, progress, kills>>

\* The batch ends where it stands: its children go on without it, and what it
\* had not saved is lost.
Abandon ==
  /\ kills + interrupts < MaxHalts /\ kills' = kills + 1
  /\ pc' = "off" /\ process' = 0 /\ progress' = disk /\ pos' = 1 /\ ph' = 1
  /\ operation' = "none" /\ orphans' = LeftBehind
  /\ UNCHANGED <<savedVars, servers, interrupts>>

Kill == pc # "off" /\ Abandon

\* The server survives SIGINT and SIGTERM for thirty seconds each: the second
\* TimeoutExpired leaves batch_run before anything is saved.
CleanupRaises == pc = "cleanup" /\ process \in Live /\ Abandon

-----------------------------------------------------------------------------
(* The other processes.                                                    *)

\* A loaded server takes the port, or exits if another one holds it.
ServerLoaded(s) ==
  /\ servers[s].state = "loading"
  /\ servers' = [servers EXCEPT ![s].state =
                   IF Listening = {} THEN "listening" ELSE "dead"]
  /\ UNCHANGED <<savedVars, batchVars, operation, orphans, halts>>

ServerDies(s) ==
  /\ s \in Live /\ Die(s)
  /\ UNCHANGED <<savedVars, batchVars, operation, orphans, halts>>

\* save() of the phase's result: an artifact that differs is never replaced.
OperationEnds ==
  /\ operation = "running"
  /\ IF <<Row, Name>> \in results
     THEN operation' \in {"ok", "failed"} /\ UNCHANGED results
     ELSE \/ operation' = "ok" /\ results' = results \cup {<<Row, Name>>}
          \/ operation' = "failed" /\ UNCHANGED results
  /\ UNCHANGED <<disk, config, batchVars, servers, orphans, halts>>

OrphanEnds(o) ==
  /\ o \in orphans /\ orphans' = orphans \ {o}
  /\ results' \in {results, results \cup {o}}
  /\ UNCHANGED <<disk, config, batchVars, servers, operation, halts>>

-----------------------------------------------------------------------------
BatchInit ==
  /\ disk = [m \in Models |-> [status |-> "pending", phases |-> {}]]
  /\ results = {} /\ progress = disk /\ config = [m \in Models |-> "none"]
  /\ pc = "off" /\ pos = 1 /\ ph = 1 /\ process = 0
  /\ servers = <<>> /\ operation = "none" /\ orphans = {}
  /\ kills = 0 /\ interrupts = 0

BatchStep ==
  \/ Stop \/ SkipSettled \/ BeginRow
  \/ ArtifactReady \/ ArtifactFails \/ ConfigFound \/ ConfigCreated
  \/ ConfigWritten \/ ConfigFails \/ PortTaken \/ SpawnServer
  \/ ServerExited \/ ServerAnswers \/ WrongModel \/ StartupFails
  \/ ProbeAnswered \/ ProbeFails
  \/ PhaseKnown \/ PhaseFound \/ StartPhase \/ ReuseBaseline
  \/ BaselineIncompatible \/ PhaseEnds \/ PhaseFailed \/ Complete \/ Cleanup

BatchNext ==
  \/ Start \/ BatchStep \/ SamplingFails \/ Interrupt \/ Kill \/ CleanupRaises
  \/ \E s \in DOMAIN servers : ServerLoaded(s) \/ ServerDies(s)
  \/ OperationEnds
  \/ \E o \in orphans : OrphanEnds(o)

\* The batch runs on and its phases end (every request in them has a deadline);
\* the operator starts it again until every row is settled.
Unfinished == \E m \in Models : disk[m].status \notin Settled
BatchSpec ==
  /\ BatchInit /\ [][BatchNext]_vars
  /\ WF_vars(BatchStep) /\ WF_vars(OperationEnds)
  /\ WF_vars(Unfinished /\ Start)

-----------------------------------------------------------------------------
(* Properties                                                              *)

(* A row that the progress calls complete has all its phases there, and for
   each a result file (the frozen baseline's suite apart), however often the
   batch was cut off between a result, its note and the status. *)
CompleteHasResults ==
  \A m \in Models :
    /\ disk[m].status = "complete" => disk[m].phases = AllPhases
    /\ \A n \in disk[m].phases :
         <<m, n>> \in results \/ (m = Baseline /\ n = "suite")

(* A settled row is never taken up again by a later invocation, and no phase
   that was noted is forgotten ("Completed phases are reused",
   README.md:1075). *)
SettledStays ==
  [][\A m \in Models : /\ disk[m].status \in Settled =>
                            disk'[m].status = disk[m].status
                       /\ disk[m].phases \subseteq disk'[m].phases]_vars

(* No phase ever runs with a configuration that was cut off while it was
   written, and none that was noted did, whatever invocation wrote it and which
   one ran the phase (write_config). *)
PhasesAreConfigured ==
  \A m \in Models :
    \/ operation = "running" /\ m = Row
    \/ \E n \in AllPhases : <<m, n>> \in orphans \cup results
    \/ disk[m].phases # {}
    => config[m] = "whole"

(* "Only one owned loopback server is loaded at a time" (README.md:1074): however
   rows are blocked and the batch interrupted and run again, as long as it is not
   killed and its cleanups succeed (lines 391-398). *)
OneServerAtATime == kills = 0 => Cardinality(Live) <= 1

(* Started again after each of finitely many kills, the batch settles every
   row: nothing it finds on disk or on the port keeps it from going on. *)
BatchSettles == <>[](\A m \in Models : disk[m].status \in Settled)

(* What every journal takes for granted ("one sequential writer object per run
   in one process", README.md:527-528): two processes never run the same phase,
   and so write the same run's journal, at the same time. *)
OneWriterPerRun ==
  operation = "running" => <<Row, Name>> \notin orphans
=============================================================================
