---------------------------- MODULE Batch_proofs ----------------------------
(***************************************************************************)
(* Proofs about Batch: settled rows stay, complete rows have results, and  *)
(* one server is live at a time.                                           *)
(***************************************************************************)
EXTENDS Batch, FiniteSetTheorems, TLAPS

-----------------------------------------------------------------------------
(* The invariant.                                                           *)

InRow == pc \notin {"off", "row"}
RowStates == [status : Statuses, phases : SUBSET AllPhases]
ServerStates == [model : Models, state : {"loading", "listening", "dead"}]

BatchTyped ==
  /\ progress \in [Models -> RowStates] /\ disk \in [Models -> RowStates]
  /\ pc \in {"off", "row", "artifact", "config", "writing", "port", "startup",
             "probe", "phases", "operation", "cleanup"}
  /\ pos \in Nat \ {0} /\ ph \in 1 .. 4
  /\ InRow => pos \in DOMAIN Rows
  /\ operation \in {"none", "running", "ok", "failed"}
  /\ operation # "none" => pc = "operation"
  /\ pc = "operation" => ph <= 3
  /\ servers \in Seq(ServerStates) /\ process \in Nat
  /\ kills \in Nat

\* The file says what the batch thinks, except for the outcome of a row
\* whose server is not stopped yet.
Saved ==
  /\ InRow => disk[Row].status = "running"
  /\ pc # "cleanup" => progress = disk
  /\ pc = "cleanup" =>
       \E outcome \in Settled : progress = [disk EXCEPT ![Row].status = outcome]

\* Whatever is noted has its result, and phases are noted in their order.
Noted ==
  /\ \A m \in Models :
       /\ disk[m].status = "complete" => disk[m].phases = AllPhases
       /\ \A n \in disk[m].phases :
            <<m, n>> \in results \/ (m = Baseline /\ n = "suite")
  /\ pc = "cleanup" /\ progress[Row].status = "complete" =>
       disk[Row].phases = AllPhases
  /\ InRow => \A j \in 1 .. ph - 1 : Names[j] \in disk[Row].phases
  /\ operation = "ok" => <<Row, Name>> \in results

\* Until the batch is killed, the only live server is the row's own.
Owned ==
  kills = 0 => /\ Live \subseteq {process}
               /\ pc \in {"off", "row", "artifact", "config", "writing", "port"}
                    => Live = {}

BatchInv == BatchTyped /\ Saved /\ Noted /\ Owned

-----------------------------------------------------------------------------
(* Every step keeps the invariant.                                          *)

\* The row and the phase at work.
LEMMA RowAndPhase ==
  ASSUME BatchTyped
  PROVE  /\ pos \in DOMAIN Rows => Row \in Models
         /\ DOMAIN Names = 1 .. 3 /\ AllPhases = {"smoke", "suite", "replay"}
         /\ Names[1] = "smoke" /\ Names[2] = "suite" /\ Names[3] = "replay"
         /\ ph <= 3 => Name \in AllPhases
         /\ DOMAIN Rows = 1 .. Len(Rows) /\ Len(Rows) \in Nat
PROOF
  <1>1. /\ DOMAIN Names = 1 .. 3
        /\ Names[1] = "smoke" /\ Names[2] = "suite" /\ Names[3] = "replay"
    BY DEF Names
  <1>2. \A i \in 1 .. 3 : i = 1 \/ i = 2 \/ i = 3
    OBVIOUS
  <1>3. AllPhases = {"smoke", "suite", "replay"}
    BY <1>1, <1>2 DEF AllPhases
  <1>4. ph <= 3 => Name \in AllPhases
    BY <1>1 DEF BatchTyped, AllPhases, Name
  <1>5. pos \in DOMAIN Rows => Row \in Models
    BY DEF Models, Row
  <1>6. QED
    BY <1>1, <1>3, <1>4, <1>5, RowsAssumption

\* A step between rows.
LEMMA BetweenRowsKept ==
  ASSUME BatchInv, Start \/ Stop \/ SkipSettled
  PROVE  BatchInv'
PROOF
  <1>1. /\ pc \in {"off", "row"} /\ pc' \in {"off", "row"}
        /\ disk' = disk /\ results' = results /\ servers' = servers
        /\ operation' = operation /\ kills' = kills
        /\ progress' \in {progress, disk}
        /\ pos' \in {1, pos, pos + 1} /\ ph' \in {1, ph} /\ process' \in {0, process}
    BY DEF Start, Stop, SkipSettled, savedVars, halts
  <1>2. progress' = disk
    BY <1>1 DEF BatchInv, Saved
  <1>3. BatchTyped'
    BY <1>1, <1>2 DEF BatchInv, BatchTyped, InRow
  <1>4. Saved' /\ Noted'
    BY <1>1, <1>2 DEF BatchInv, BatchTyped, Saved, Noted, InRow
  <1>5. Owned'
    BY <1>1 DEF BatchInv, Owned, Live
  <1>6. QED
    BY <1>3, <1>4, <1>5 DEF BatchInv

\* A row is taken up.
LEMMA BeginKept ==
  ASSUME BatchInv, BeginRow
  PROVE  BatchInv'
PROOF
  <1>1. /\ pc = "row" /\ pc' = "artifact" /\ pos \in DOMAIN Rows /\ Row \in Models
        /\ pos' = pos /\ ph' = 1
        /\ results' = results /\ servers' = servers /\ process' = process
        /\ operation' = operation /\ kills' = kills /\ progress = disk
        /\ progress' = [disk EXCEPT ![Row].status = "running"]
        /\ disk' = progress' /\ Row' = Row
    BY RowAndPhase
    DEF BeginRow, Save, BatchInv, BatchTyped, Saved, Row, halts
  <1>2. /\ disk' \in [Models -> RowStates]
        /\ disk'[Row].status = "running" /\ disk'[Row].phases = disk[Row].phases
        /\ \A m \in Models : m # Row => disk'[m] = disk[m]
    BY <1>1 DEF BatchInv, BatchTyped, RowStates, Statuses
  <1>3. BatchTyped'
    BY <1>1, <1>2 DEF BatchInv, BatchTyped, InRow
  <1>4. Saved'
    BY <1>1, <1>2 DEF Saved
  <1>5. Noted'
    BY <1>1, <1>2 DEF BatchInv, BatchTyped, Noted
  <1>6. Owned'
    BY <1>1 DEF BatchInv, Owned, Live
  <1>7. QED
    BY <1>3, <1>4, <1>5, <1>6 DEF BatchInv

\* The row's next step is at hand, and nothing else changes.
LEMMA GotoKept ==
  ASSUME BatchInv,
         \/ ArtifactReady \/ ConfigFound \/ ConfigCreated \/ ConfigWritten
         \/ ServerAnswers \/ ProbeAnswered
  PROVE  BatchInv'
PROOF
  <1>1. /\ pc \in {"artifact", "config", "writing", "startup", "probe"}
        /\ pc' \in {"config", "writing", "port", "probe", "phases"}
        /\ pc' \in {"config", "writing", "port"} =>
             pc \in {"artifact", "config", "writing"}
        /\ disk' = disk /\ results' = results /\ progress' = progress
        /\ pos' = pos /\ ph' = ph /\ process' = process /\ servers' = servers
        /\ operation' = operation /\ kills' = kills
    BY DEF ArtifactReady, ConfigFound, ConfigCreated, ConfigWritten, SetConfig,
           ServerAnswers, ProbeAnswered, Goto, savedVars, halts
  <1>2. BatchTyped'
    BY <1>1 DEF BatchInv, BatchTyped, InRow
  <1>3. Saved' /\ Noted'
    BY <1>1 DEF BatchInv, BatchTyped, Saved, Noted, InRow, Row, Name
  <1>4. Owned'
    BY <1>1 DEF BatchInv, Owned, Live
  <1>5. QED
    BY <1>2, <1>3, <1>4 DEF BatchInv

\* The row's outcome is known.
LEMMA OutcomeKept ==
  ASSUME BatchInv, pc \in {"artifact", "config", "writing", "port", "startup",
                           "probe", "phases", "operation"},
         Block \/ Complete
  PROVE  BatchInv'
PROOF
  <1>1. /\ InRow /\ pos \in DOMAIN Rows /\ Row \in Models /\ progress = disk
        /\ disk[Row].status = "running"
    BY RowAndPhase DEF BatchInv, BatchTyped, Saved, InRow
  <1>2. /\ disk' = disk /\ results' = results /\ servers' = servers
        /\ pos' = pos /\ ph' = ph /\ process' = process /\ kills' = kills
        /\ pc' = "cleanup" /\ Row' = Row
    BY DEF Block, Complete, savedVars, halts, Row
  <1>3. operation' = "none"
    BY DEF Block, Complete, BatchInv, BatchTyped
  <1>4. PICK outcome \in Settled :
          /\ progress' = [disk EXCEPT ![Row].status = outcome]
          /\ outcome = "complete" => Complete
    BY <1>1 DEF Block, Complete, Settled
  <1>5. /\ progress' \in [Models -> RowStates]
        /\ progress'[Row].status = outcome
    BY <1>1, <1>4 DEF BatchInv, BatchTyped, RowStates, Statuses, Settled
  <1>6. BatchTyped'
    BY <1>1, <1>2, <1>3, <1>5 DEF BatchInv, BatchTyped, InRow
  <1>7. Saved'
    BY <1>1, <1>2, <1>4 DEF Saved
  <1>8. outcome = "complete" => disk[Row].phases = AllPhases
    <2>1. SUFFICES ASSUME Complete
                   PROVE  disk[Row].phases = AllPhases
      BY <1>4
    <2>2. ph = 4
      <3>1. ph \in 1 .. 4 /\ ph > Len(Names) /\ Len(Names) = 3
        BY <2>1 DEF Complete, BatchInv, BatchTyped, Names
      <3>2. QED
        BY <3>1
    <2>3. 1 \in 1 .. ph - 1 /\ 2 \in 1 .. ph - 1 /\ 3 \in 1 .. ph - 1
      BY <2>2
    <2>4. AllPhases \subseteq disk[Row].phases
      BY <1>1, <2>3, RowAndPhase DEF BatchInv, Noted
    <2>5. disk[Row].phases \subseteq AllPhases
      BY <1>1 DEF BatchInv, BatchTyped, RowStates
    <2>6. QED
      BY <2>4, <2>5
  <1>9. Noted'
    BY <1>1, <1>2, <1>3, <1>5, <1>8 DEF BatchInv, Noted
  <1>10. Owned'
    BY <1>2 DEF BatchInv, Owned, Live
  <1>11. QED
    BY <1>6, <1>7, <1>9, <1>10 DEF BatchInv

\* A phase is noted that has its result, or is the baseline's suite.
LEMMA NotingKept ==
  ASSUME BatchInv, PhaseFound \/ ReuseBaseline \/ PhaseEnds
  PROVE  BatchInv'
PROOF
  <1>1. /\ pc \in {"phases", "operation"} /\ pc' = "phases"
        /\ results' = results /\ servers' = servers
        /\ pos' = pos /\ ph' = ph /\ process' = process /\ kills' = kills
        /\ operation' = "none" /\ NotePhase
    BY DEF PhaseFound, ReuseBaseline, PhaseEnds, AtPhase, BatchInv, BatchTyped, halts
  <1>2. /\ InRow /\ pos \in DOMAIN Rows /\ Row \in Models /\ progress = disk
        /\ disk[Row].status = "running"
    BY <1>1, RowAndPhase DEF BatchInv, BatchTyped, Saved, InRow
  <1>3. ph <= 3
    <2>1. Len(Names) = 3
      BY DEF Names
    <2>2. QED
      BY <2>1 DEF PhaseFound, ReuseBaseline, PhaseEnds, AtPhase, BatchInv, BatchTyped
  <1>4. Name \in AllPhases
    BY <1>3, RowAndPhase DEF BatchInv
  <1>5. <<Row, Name>> \in results \/ (Row = Baseline /\ Name = "suite")
    BY DEF PhaseFound, ReuseBaseline, PhaseEnds, IsBaselineSuite, BatchInv, Noted
  <1>6. /\ disk' = [disk EXCEPT ![Row].phases = disk[Row].phases \cup {Name}]
        /\ progress' = disk'
    BY <1>1, <1>2 DEF NotePhase, Save
  <1>7. /\ disk' \in [Models -> RowStates] /\ disk'[Row].status = "running"
        /\ disk'[Row].phases = disk[Row].phases \cup {Name}
        /\ \A m \in Models : m # Row => disk'[m] = disk[m]
    BY <1>2, <1>4, <1>6 DEF BatchInv, BatchTyped, RowStates
  <1>8. Row' = Row
    BY <1>1 DEF Row
  <1>9. BatchTyped'
    BY <1>1, <1>2, <1>6, <1>7 DEF BatchInv, BatchTyped, InRow
  <1>10. Saved'
    BY <1>1, <1>6, <1>7, <1>8 DEF Saved
  <1>11. Noted'
    BY <1>1, <1>2, <1>5, <1>7, <1>8 DEF BatchInv, Noted
  <1>12. Owned'
    BY <1>1 DEF BatchInv, Owned, Live
  <1>13. QED
    BY <1>9, <1>10, <1>11, <1>12 DEF BatchInv

\* The phase at work is passed by or started.
LEMMA PhasingKept ==
  ASSUME BatchInv, PhaseKnown \/ StartPhase
  PROVE  BatchInv'
PROOF
  <1>1. /\ pc = "phases" /\ ph <= 3
        /\ disk' = disk /\ progress' = progress /\ results' = results
        /\ servers' = servers /\ pos' = pos /\ process' = process /\ kills' = kills
    <2>1. Len(Names) = 3
      BY DEF Names
    <2>2. QED
      BY <2>1 DEF PhaseKnown, StartPhase, AtPhase, savedVars, halts
  <1>2. InRow /\ pos \in DOMAIN Rows /\ progress = disk /\ Row' = Row
    BY <1>1 DEF BatchInv, BatchTyped, Saved, InRow, Row
  <1>3. \/ ph' = ph /\ pc' = "operation" /\ operation' = "running"
        \/ /\ ph' = ph + 1 /\ pc' = "phases" /\ operation' = operation
           /\ operation = "none" /\ Name \in disk[Row].phases
    BY <1>1, <1>2 DEF PhaseKnown, StartPhase, BatchInv, BatchTyped
  <1>4. BatchTyped'
    BY <1>1, <1>2, <1>3 DEF BatchInv, BatchTyped, InRow
  <1>5. Saved'
    BY <1>1, <1>2, <1>3 DEF BatchInv, Saved
  <1>6. \A j \in 1 .. ph' - 1 : Names[j] \in disk[Row].phases
    <2>1. \A j \in 1 .. ph - 1 : Names[j] \in disk[Row].phases
      BY <1>2 DEF BatchInv, Noted
    <2>2. ph' # ph => ph' = ph + 1 /\ Names[ph] \in disk[Row].phases
      BY <1>3 DEF Name
    <2>3. ph \in Nat /\ \A j \in 1 .. ph : j = ph \/ j \in 1 .. ph - 1
      BY DEF BatchInv, BatchTyped
    <2>4. QED
      BY <2>1, <2>2, <2>3
  <1>7. Noted'
    BY <1>1, <1>2, <1>3, <1>6 DEF BatchInv, Noted
  <1>8. Owned'
    BY <1>1, <1>3 DEF BatchInv, Owned, Live
  <1>9. QED
    BY <1>4, <1>5, <1>7, <1>8 DEF BatchInv

-----------------------------------------------------------------------------
(* Servers.                                                                 *)

\* A server that dies is no longer live, and no other changes.
LEMMA DyingIs ==
  ASSUME BatchTyped, NEW s \in DOMAIN servers, Die(s)
  PROVE  servers' \in Seq(ServerStates) /\ Live' = Live \ {s}
PROOF
  <1>1. /\ servers' = [servers EXCEPT ![s].state = "dead"]
        /\ servers \in Seq(ServerStates) /\ servers[s] \in ServerStates
    BY DEF Die, BatchTyped
  <1>2. servers' \in Seq(ServerStates)
    BY <1>1 DEF ServerStates
  <1>3. /\ DOMAIN servers' = DOMAIN servers
        /\ servers'[s].state = "dead"
        /\ \A t \in DOMAIN servers : t # s => servers'[t] = servers[t]
    BY <1>1 DEF ServerStates
  <1>4. QED
    BY <1>2, <1>3 DEF Live

\* The row's server is stopped.
LEMMA StoppingIs ==
  ASSUME BatchTyped,
         IF process \in Live THEN Die(process) ELSE UNCHANGED servers
  PROVE  servers' \in Seq(ServerStates) /\ Live' = Live \ {process}
PROOF
  <1>1. CASE process \in Live
    BY <1>1, DyingIs DEF Live
  <1>2. CASE process \notin Live
    BY <1>2 DEF BatchTyped, Live
  <1>3. QED
    BY <1>1, <1>2

\* A server is started for the row.
LEMMA SpawnKept ==
  ASSUME BatchInv, SpawnServer
  PROVE  BatchInv'
PROOF
  <1>1. /\ pc = "port" /\ pc' = "startup" /\ disk' = disk /\ progress' = progress
        /\ results' = results /\ pos' = pos /\ ph' = ph
        /\ operation' = operation /\ kills' = kills
        /\ servers' = Append(servers, [model |-> Row, state |-> "loading"])
        /\ process' = Len(servers) + 1
    BY DEF SpawnServer, savedVars, halts
  <1>2. /\ servers \in Seq(ServerStates) /\ Row \in Models /\ Len(servers) \in Nat
    BY <1>1, RowAndPhase DEF BatchInv, BatchTyped, InRow
  <1>3. [model |-> Row, state |-> "loading"] \in ServerStates
    BY <1>2 DEF ServerStates
  <1>4. /\ servers' \in Seq(ServerStates) /\ process' \in Nat
        /\ \A s \in DOMAIN servers' :
             s = process' \/ (s \in DOMAIN servers /\ servers'[s] = servers[s])
    BY <1>1, <1>2, <1>3
  <1>5. BatchTyped'
    BY <1>1, <1>4 DEF BatchInv, BatchTyped, InRow
  <1>6. Saved' /\ Noted'
    BY <1>1 DEF BatchInv, BatchTyped, Saved, Noted, InRow, Row, Name
  <1>7. Owned'
    <2>1. Live' \subseteq Live \cup {process'}
      BY <1>4 DEF Live
    <2>2. QED
      BY <1>1, <2>1 DEF BatchInv, Owned
  <1>8. QED
    BY <1>5, <1>6, <1>7 DEF BatchInv

\* The row is over.
LEMMA CleanupKept ==
  ASSUME BatchInv, Cleanup
  PROVE  BatchInv'
PROOF
  <1>1. /\ pc = "cleanup" /\ pc' = "row" /\ pos' = pos + 1 /\ process' = 0
        /\ disk' = progress /\ progress' = progress /\ results' = results
        /\ ph' = ph /\ operation' = operation /\ kills' = kills
        /\ IF process \in Live THEN Die(process) ELSE UNCHANGED servers
    BY DEF Cleanup, Save, halts
  <1>2. servers' \in Seq(ServerStates) /\ Live' = Live \ {process}
    BY <1>1, StoppingIs DEF BatchInv
  <1>3. InRow /\ Row \in Models /\ operation = "none"
    BY <1>1, RowAndPhase DEF BatchInv, BatchTyped, InRow
  <1>4. PICK outcome \in Settled : progress = [disk EXCEPT ![Row].status = outcome]
    BY <1>1 DEF BatchInv, Saved
  <1>5. /\ progress[Row].phases = disk[Row].phases
        /\ \A m \in Models : m # Row => progress[m] = disk[m]
    BY <1>3, <1>4 DEF BatchInv, BatchTyped, RowStates
  <1>6. BatchTyped'
    BY <1>1, <1>2, <1>3 DEF BatchInv, BatchTyped, InRow
  <1>7. Saved'
    BY <1>1 DEF Saved, InRow
  <1>8. Noted'
    BY <1>1, <1>3, <1>5 DEF BatchInv, Noted, InRow
  <1>9. Owned'
    BY <1>1, <1>2 DEF BatchInv, Owned
  <1>10. QED
    BY <1>6, <1>7, <1>8, <1>9 DEF BatchInv

\* The batch is interrupted or killed.
LEMMA CutOffKept ==
  ASSUME BatchInv, Interrupt \/ Kill \/ CleanupRaises
  PROVE  BatchInv'
PROOF
  <1>1. /\ pc' = "off" /\ process' = 0 /\ pos' = 1 /\ ph' = 1
        /\ operation' = "none" /\ results' = results
    BY DEF Interrupt, Kill, CleanupRaises, Abandon, savedVars
  <1>2. progress' = disk /\ disk' = disk
    BY DEF Interrupt, Kill, CleanupRaises, Abandon, savedVars, BatchInv, Saved
  <1>3. servers' \in Seq(ServerStates)
    <2>1. CASE Interrupt
      BY <2>1, StoppingIs DEF Interrupt, BatchInv
    <2>2. CASE Kill \/ CleanupRaises
      BY <2>2 DEF Kill, CleanupRaises, Abandon, BatchInv, BatchTyped
    <2>3. QED
      BY <2>1, <2>2
  <1>4. \/ kills' \in Nat /\ kills' # 0
        \/ kills' = kills /\ Live' = Live \ {process}
    <2>1. CASE Interrupt
      BY <2>1, StoppingIs DEF Interrupt, BatchInv
    <2>2. CASE Kill \/ CleanupRaises
      <3>1. kills' = kills + 1
        BY <2>2 DEF Kill, CleanupRaises, Abandon
      <3>2. QED
        BY <3>1 DEF BatchInv, BatchTyped
    <2>3. QED
      BY <2>1, <2>2
  <1>5. BatchTyped'
    BY <1>1, <1>2, <1>3, <1>4 DEF BatchInv, BatchTyped, InRow
  <1>6. Saved' /\ Noted'
    BY <1>1, <1>2 DEF BatchInv, Saved, Noted, InRow
  <1>7. Owned'
    BY <1>4 DEF BatchInv, Owned
  <1>8. QED
    BY <1>5, <1>6, <1>7 DEF BatchInv

\* What servers and phases do in their own time.
LEMMA OthersKept ==
  ASSUME BatchInv,
         \/ \E s \in DOMAIN servers : ServerLoaded(s) \/ ServerDies(s)
         \/ OperationEnds
         \/ \E o \in orphans : OrphanEnds(o)
  PROVE  BatchInv'
PROOF
  <1>1. /\ disk' = disk /\ progress' = progress /\ pc' = pc /\ pos' = pos
        /\ ph' = ph /\ process' = process /\ kills' = kills
        /\ Row' = Row /\ Name' = Name
    BY DEF ServerLoaded, ServerDies, OperationEnds, OrphanEnds, batchVars,
           savedVars, halts, Row, Name
  <1>2. ASSUME NEW s \in DOMAIN servers, ServerLoaded(s) \/ ServerDies(s)
        PROVE  BatchInv'
    <2>1. results' = results /\ operation' = operation
      BY <1>2 DEF ServerLoaded, ServerDies, savedVars
    <2>2. servers' \in Seq(ServerStates) /\ Live' \subseteq Live
      <3>1. CASE ServerDies(s)
        BY <3>1, DyingIs DEF ServerDies, BatchInv
      <3>2. CASE ServerLoaded(s)
        <4>1. PICK now \in {"listening", "dead"} :
                servers' = [servers EXCEPT ![s].state = now]
          BY <3>2 DEF ServerLoaded
        <4>2. /\ servers \in Seq(ServerStates) /\ servers[s] \in ServerStates
              /\ s \in Live
          BY <3>2 DEF ServerLoaded, BatchInv, BatchTyped, Live
        <4>3. servers' \in Seq(ServerStates)
          BY <4>1, <4>2 DEF ServerStates
        <4>4. /\ DOMAIN servers' = DOMAIN servers
              /\ \A t \in DOMAIN servers : t # s => servers'[t] = servers[t]
          BY <4>1, <4>2
        <4>5. QED
          BY <4>2, <4>3, <4>4 DEF Live
      <3>3. QED
        BY <1>2, <3>1, <3>2
    <2>3. BatchTyped'
      BY <1>1, <2>1, <2>2 DEF BatchInv, BatchTyped, InRow
    <2>4. Saved' /\ Noted' /\ Owned'
      BY <1>1, <2>1, <2>2 DEF BatchInv, Saved, Noted, Owned, InRow
    <2>5. QED
      BY <2>3, <2>4 DEF BatchInv
  <1>3. CASE OperationEnds
    <2>1. /\ servers' = servers /\ results \subseteq results'
          /\ operation = "running" /\ operation' \in {"ok", "failed"}
          /\ operation' = "ok" => <<Row, Name>> \in results'
      BY <1>3 DEF OperationEnds
    <2>2. BatchTyped'
      BY <1>1, <2>1 DEF BatchInv, BatchTyped, InRow
    <2>3. Saved' /\ Noted' /\ Owned'
      BY <1>1, <2>1 DEF BatchInv, Saved, Noted, Owned, InRow, Live
    <2>4. QED
      BY <2>2, <2>3 DEF BatchInv
  <1>4. ASSUME NEW o \in orphans, OrphanEnds(o)
        PROVE  BatchInv'
    <2>1. /\ servers' = servers /\ results \subseteq results'
          /\ operation' = operation
      BY <1>4 DEF OrphanEnds
    <2>2. BatchTyped'
      BY <1>1, <2>1 DEF BatchInv, BatchTyped, InRow
    <2>3. Saved' /\ Noted' /\ Owned'
      BY <1>1, <2>1 DEF BatchInv, Saved, Noted, Owned, InRow, Live
    <2>4. QED
      BY <2>2, <2>3 DEF BatchInv
  <1>5. QED
    BY <1>2, <1>3, <1>4

\* Every step of the batch and of the processes around it.
LEMMA BatchInvKept ==
  ASSUME BatchInv, [BatchNext]_vars
  PROVE  BatchInv'
PROOF
  <1>1. CASE BatchStep
    <2>1. CASE ArtifactFails \/ ConfigFails \/ PortTaken \/ ServerExited \/ WrongModel
                \/ StartupFails \/ ProbeFails \/ BaselineIncompatible
                \/ PhaseFailed \/ Complete
      BY <2>1, OutcomeKept
      DEF ArtifactFails, ConfigFails, PortTaken, ServerExited, WrongModel, StartupFails,
          ProbeFails, BaselineIncompatible, PhaseFailed, Complete, AtPhase
    <2>2. QED
      BY <1>1, <2>1, BetweenRowsKept, BeginKept, GotoKept, NotingKept,
         PhasingKept, SpawnKept, CleanupKept
      DEF BatchStep
  <1>2. CASE UNCHANGED vars
    BY <1>2
    DEF vars, savedVars, batchVars, halts, BatchInv, BatchTyped, Saved, Noted, Owned,
        InRow, Row, Name, Live
  <1>3. QED
    BY <1>1, <1>2, BetweenRowsKept, OutcomeKept, CutOffKept, OthersKept
    DEF BatchNext, SamplingFails

\* The invariant holds of every behaviour.
THEOREM BatchCorrect == BatchSpec => []BatchInv
PROOF
  <1>1. BatchInit => BatchInv
    BY DEF BatchInit, BatchInv, BatchTyped, Saved, Noted, Owned, InRow, Live,
           RowStates, Statuses, AllPhases
  <1>2. QED
    BY <1>1, BatchInvKept, PTL DEF BatchSpec

(* A complete row has all its phases, and each of them its result.          *)
THEOREM CompleteRowsHaveResults == BatchSpec => []CompleteHasResults
PROOF
  <1>1. BatchInv => CompleteHasResults
    BY DEF BatchInv, Noted, CompleteHasResults
  <1>2. QED
    BY <1>1, BatchCorrect, PTL

(* The batch that is not killed has one server at a time.                   *)
THEOREM OneServer == BatchSpec => []OneServerAtATime
PROOF
  <1>1. BatchInv => OneServerAtATime
    <2>1. SUFFICES ASSUME BatchInv, kills = 0
                   PROVE  Cardinality(Live) <= 1
      BY DEF OneServerAtATime
    <2>2. Live = {} \/ Live = {process}
      BY <2>1 DEF BatchInv, Owned
    <2>3. QED
      BY <2>2, FS_EmptySet, FS_Singleton
  <1>2. QED
    BY <1>1, BatchCorrect, PTL

(* No step takes back a settled row or a noted phase.                       *)
THEOREM SettledRowsStay == BatchSpec => SettledStays
PROOF
  <1>1. ASSUME BatchInv, [BatchNext]_vars
        PROVE  \A m \in Models :
                 /\ disk[m].status \in Settled => disk'[m].status = disk[m].status
                 /\ disk[m].phases \subseteq disk'[m].phases
    <2>1. disk' = disk \/ disk' = progress
          \/ BeginRow \/ (pc \in {"phases", "operation"} /\ NotePhase)
      BY <1>1
      DEF BatchNext, BatchStep, Start, Stop, SkipSettled, ArtifactReady,
          ArtifactFails, ConfigFound, ConfigCreated, ConfigWritten, ConfigFails,
          SetConfig, PortTaken, SpawnServer, ServerExited, ServerAnswers,
          WrongModel, StartupFails, ProbeAnswered, ProbeFails, PhaseKnown,
          PhaseFound, StartPhase, ReuseBaseline, BaselineIncompatible, PhaseEnds,
          PhaseFailed, SamplingFails, Complete, Cleanup, Interrupt, Kill, CleanupRaises, Abandon,
          ServerLoaded, ServerDies, OperationEnds, OrphanEnds, Block, Goto, Save,
          AtPhase, vars, savedVars
    <2>2. CASE disk' = progress
      <3>1. pc # "cleanup" => disk' = disk
        BY <1>1, <2>2 DEF BatchInv, Saved
      <3>2. pc = "cleanup" =>
              /\ Row \in Models /\ disk[Row].status = "running"
              /\ \E outcome \in Settled :
                   disk' = [disk EXCEPT ![Row].status = outcome]
        BY <1>1, <2>2, RowAndPhase DEF BatchInv, BatchTyped, Saved, InRow
      <3>3. QED
        BY <1>1, <3>1, <3>2 DEF BatchInv, BatchTyped, RowStates, Settled
    <2>3. CASE BeginRow
      <3>1. /\ disk[Row].status \notin Settled
            /\ disk' = [disk EXCEPT ![Row].status = "running"]
        BY <1>1, <2>3 DEF BeginRow, Save, BatchInv, Saved
      <3>2. QED
        BY <1>1, <3>1 DEF BatchInv, BatchTyped, RowStates
    <2>4. CASE pc \in {"phases", "operation"} /\ NotePhase
      <3>1. disk' = [disk EXCEPT ![Row].phases = disk[Row].phases \cup {Name}]
        BY <1>1, <2>4 DEF NotePhase, Save, BatchInv, Saved
      <3>2. QED
        BY <1>1, <3>1 DEF BatchInv, BatchTyped, RowStates
    <2>5. QED
      BY <2>1, <2>2, <2>3, <2>4
  <1>2. QED
    BY <1>1, BatchCorrect, PTL DEF BatchSpec, SettledStays

-----------------------------------------------------------------------------
(* Configurations.                                                          *)

\* A row past its configuration has one, and so has every phase that was
\* started, in this invocation or another.
Configured ==
  /\ config \in [Models -> Configs]
  /\ results \subseteq Models \X AllPhases /\ orphans \subseteq Models \X AllPhases
  /\ pc \in {"port", "startup", "probe", "phases", "operation"} =>
       config[Row] = "whole"
  /\ pc = "writing" => config[Row] = "partial"
  /\ \A m \in Models : disk[m].phases # {} => config[m] = "whole"
  /\ \A p \in results \cup orphans : config[p[1]] = "whole"

\* The steps that write the configuration: a whole one is never replaced.
LEMMA WritingConfigured ==
  ASSUME BatchInv, Configured, ConfigCreated \/ ConfigWritten
  PROVE  Configured'
PROOF
  <1>1. PICK c \in {"partial", "whole"} :
          /\ config' = [config EXCEPT ![Row] = c]
          /\ c = "partial" => pc' = "writing"
          /\ c = "whole" => pc' = "port"
    BY DEF ConfigCreated, ConfigWritten, SetConfig
  <1>2. /\ pc \in {"config", "writing"} /\ Row \in Models /\ Row' = Row
        /\ disk' = disk /\ results' = results /\ orphans' = orphans
        /\ config[Row] # "whole"
    BY RowAndPhase
    DEF ConfigCreated, ConfigWritten, SetConfig, BatchInv, BatchTyped, InRow,
        Configured, Row
  <1>3. /\ config' \in [Models -> Configs] /\ config'[Row] = c
        /\ \A m \in Models : m # Row => config'[m] = config[m]
    BY <1>1, <1>2 DEF Configured, Configs
  <1>4. \A p \in results \cup orphans : p[1] \in Models
    BY DEF Configured
  <1>5. QED
    BY <1>1, <1>2, <1>3, <1>4 DEF Configured

\* An interrupt may complete what was being written; a phase that is at work,
\* also when its row is blocked, goes on with the row's configuration.
LEMMA CutOffConfigured ==
  ASSUME BatchInv, Configured,
         Interrupt \/ Kill \/ CleanupRaises \/ SamplingFails
  PROVE  Configured'
PROOF
  <1>1. /\ pc' \in {"off", "cleanup"} /\ results' = results /\ disk' = disk
        /\ \/ config' = config
           \/ pc = "writing" /\ config' = [config EXCEPT ![Row] = "whole"]
        /\ orphans' = orphans
             \/ (operation = "running" /\ orphans' = orphans \cup {<<Row, Name>>})
    BY DEF Interrupt, Kill, CleanupRaises, SamplingFails, Block, Abandon, LeftBehind,
           savedVars, BatchInv, Saved
  <1>2. operation = "running" =>
          /\ pc = "operation" /\ Row \in Models /\ Name \in AllPhases
          /\ config[Row] = "whole"
    BY RowAndPhase DEF BatchInv, BatchTyped, InRow, Configured
  <1>3. pc = "writing" => Row \in Models
    BY RowAndPhase DEF BatchInv, BatchTyped, InRow
  <1>4. /\ config' \in [Models -> Configs]
        /\ \A m \in Models : config[m] = "whole" => config'[m] = "whole"
    BY <1>1, <1>3 DEF Configured, Configs
  <1>5. /\ orphans' \subseteq Models \X AllPhases
        /\ \A p \in orphans' : p[1] \in Models /\ config[p[1]] = "whole"
    BY <1>1, <1>2 DEF Configured
  <1>6. \A p \in results : p[1] \in Models /\ config[p[1]] = "whole"
    BY DEF Configured
  <1>7. QED
    BY <1>1, <1>4, <1>5, <1>6 DEF Configured

\* A phase's result is that of a row with a configuration.
LEMMA EndingConfigured ==
  ASSUME BatchInv, Configured, OperationEnds \/ \E o \in orphans : OrphanEnds(o)
  PROVE  Configured'
PROOF
  <1>1. /\ pc' = pc /\ disk' = disk /\ config' = config /\ Row' = Row
        /\ orphans' \subseteq orphans
        /\ \A p \in results' :
             p \in results \cup orphans
               \/ (p = <<Row, Name>> /\ operation = "running")
    BY DEF OperationEnds, OrphanEnds, batchVars, Row
  <1>2. operation = "running" =>
          Row \in Models /\ Name \in AllPhases /\ config[Row] = "whole"
    BY RowAndPhase DEF BatchInv, BatchTyped, InRow, Configured
  <1>3. QED
    BY <1>1, <1>2 DEF Configured

\* A phase is noted of a row with a configuration.
LEMMA SavingConfigured ==
  ASSUME BatchInv, BatchInv', Configured,
         config' = config, results' = results, orphans' = orphans,
         \/ BeginRow \/ PhaseFound \/ ReuseBaseline \/ PhaseEnds \/ Cleanup
  PROVE  Configured'
PROOF
  <1>1. \A m \in Models : disk'[m].phases # {} => config[m] = "whole"
    <2>1. Row \in Models
      BY RowAndPhase
      DEF BeginRow, PhaseFound, ReuseBaseline, PhaseEnds, Cleanup, AtPhase,
          BatchInv, BatchTyped, InRow
    <2>2. CASE BeginRow
      <3>1. disk' = [disk EXCEPT ![Row].status = "running"]
        BY <2>2 DEF BeginRow, Save, BatchInv, Saved
      <3>2. QED
        BY <2>1, <3>1 DEF BatchInv, BatchTyped, RowStates, Configured
    <2>3. CASE Cleanup
      <3>1. PICK outcome \in Settled :
              disk' = [disk EXCEPT ![Row].status = outcome]
        BY <2>3 DEF Cleanup, Save, BatchInv, Saved
      <3>2. QED
        BY <2>1, <3>1 DEF BatchInv, BatchTyped, RowStates, Configured
    <2>4. CASE PhaseFound \/ ReuseBaseline \/ PhaseEnds
      <3>1. /\ disk' = [disk EXCEPT ![Row].phases = disk[Row].phases \cup {Name}]
            /\ config[Row] = "whole"
        BY <2>4
        DEF PhaseFound, ReuseBaseline, PhaseEnds, AtPhase, NotePhase, Save,
            BatchInv, Saved, Configured
      <3>2. QED
        BY <2>1, <3>1 DEF BatchInv, BatchTyped, RowStates, Configured
    <2>5. QED
      BY <2>2, <2>3, <2>4
  <1>2. /\ pc' \in {"artifact", "phases", "row"}
        /\ pc' = "phases" => pc \in {"phases", "operation"} /\ Row' = Row
    BY DEF BeginRow, PhaseFound, ReuseBaseline, PhaseEnds, Cleanup, AtPhase, Row
  <1>3. QED
    BY <1>1, <1>2 DEF Configured

\* The steps that save nothing but perhaps move the row on.
LEMMA MovingConfigured ==
  ASSUME BatchInv, Configured,
         UNCHANGED <<savedVars, orphans>>,
         \/ pc' \in {"off", "row", "artifact", "config", "cleanup"}
         \/ /\ pos' = pos
            /\ \/ pc' = pc
               \/ /\ pc' \in {"port", "startup", "probe", "phases", "operation"}
                  /\ config[Row] = "whole"
  PROVE  Configured'
PROOF
  BY DEF savedVars, Configured, Row

\* Every step.
LEMMA ConfiguredKept ==
  ASSUME BatchInv, BatchInv', Configured, [BatchNext]_vars
  PROVE  Configured'
PROOF
  <1>1. CASE Start \/ Stop \/ SkipSettled \/ ArtifactReady \/ ArtifactFails
             \/ ConfigFails \/ PortTaken \/ ServerExited \/ WrongModel
             \/ StartupFails \/ ProbeFails \/ BaselineIncompatible
             \/ PhaseFailed \/ Complete
    <2>1. /\ UNCHANGED <<savedVars, orphans>>
          /\ pc' \in {"off", "row", "artifact", "config", "cleanup"}
      BY <1>1
      DEF Start, Stop, SkipSettled, ArtifactReady, ArtifactFails, ConfigFails,
          PortTaken, ServerExited, WrongModel, StartupFails, ProbeFails,
          BaselineIncompatible, PhaseFailed, Complete, Block, Goto, AtPhase,
          LeftBehind, BatchInv, BatchTyped
    <2>2. QED
      BY <2>1, MovingConfigured
  <1>2. CASE ConfigFound \/ SpawnServer \/ ServerAnswers \/ ProbeAnswered
             \/ PhaseKnown \/ StartPhase
    <2>1. /\ UNCHANGED <<savedVars, orphans>> /\ pos' = pos
          /\ pc' \in {"port", "startup", "probe", "phases", "operation"}
          /\ config[Row] = "whole"
      BY <1>2
      DEF ConfigFound, SpawnServer, ServerAnswers, ProbeAnswered, PhaseKnown,
          StartPhase, AtPhase, Goto, Configured
    <2>2. QED
      BY <2>1, MovingConfigured
  <1>3. CASE UNCHANGED vars \/ \E s \in DOMAIN servers :
                                 ServerLoaded(s) \/ ServerDies(s)
    <2>1. UNCHANGED <<savedVars, orphans>> /\ pos' = pos /\ pc' = pc
      BY <1>3 DEF vars, batchVars, ServerLoaded, ServerDies
    <2>2. QED
      BY <2>1, MovingConfigured
  <1>4. CASE BeginRow \/ PhaseFound \/ ReuseBaseline \/ PhaseEnds \/ Cleanup
    <2>1. config' = config /\ results' = results /\ orphans' = orphans
      BY <1>4 DEF BeginRow, PhaseFound, ReuseBaseline, PhaseEnds, Cleanup
    <2>2. QED
      BY <1>4, <2>1, SavingConfigured
  <1>5. QED
    BY <1>1, <1>2, <1>3, <1>4, WritingConfigured, CutOffConfigured,
       EndingConfigured
    DEF BatchNext, BatchStep

(* Whatever interrupted the writing of a configuration, no phase runs with a
   part of one (write_config).                                              *)
THEOREM PhasesHaveConfigurations == BatchSpec => []PhasesAreConfigured
PROOF
  <1>1. BatchInit => Configured
    BY DEF BatchInit, Configured, Configs
  <1>2. BatchInv /\ BatchInv' /\ Configured /\ [BatchNext]_vars => Configured'
    BY ConfiguredKept
  <1>3. BatchInv /\ Configured => PhasesAreConfigured
    <2>1. SUFFICES ASSUME BatchInv, Configured, NEW m \in Models,
                          \/ operation = "running" /\ m = Row
                          \/ \E n \in AllPhases : <<m, n>> \in orphans \cup results
                          \/ disk[m].phases # {}
                   PROVE  config[m] = "whole"
      BY DEF PhasesAreConfigured
    <2>2. CASE operation = "running" /\ m = Row
      BY <2>1, <2>2 DEF BatchInv, BatchTyped, Configured
    <2>3. CASE \E n \in AllPhases : <<m, n>> \in orphans \cup results
      <3>1. PICK n \in AllPhases : <<m, n>> \in orphans \cup results
        BY <2>3
      <3>2. <<m, n>>[1] = m
        OBVIOUS
      <3>3. QED
        BY <2>1, <3>1, <3>2 DEF Configured
    <2>4. CASE disk[m].phases # {}
      BY <2>1, <2>4 DEF Configured
    <2>5. QED
      BY <2>1, <2>2, <2>3, <2>4
  <1>4. QED
    BY <1>1, <1>2, <1>3, BatchCorrect, PTL DEF BatchSpec
=============================================================================
