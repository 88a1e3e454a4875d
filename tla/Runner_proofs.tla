---------------------------- MODULE Runner_proofs -----------------------------
(***************************************************************************)
(* Proofs about run_plan over the evidence store, for any plans and any    *)
(* manifests, other callers, kills, errors, cancellations and power losses.*)
(***************************************************************************)
EXTENDS Runner, ResultJournal_proofs, FiniteSetTheorems

-----------------------------------------------------------------------------
(* Each step of a run is a step of the store, or leaves the store alone.   *)

(* The indices the runner finalizes at are among those the store serves. *)
LEMMA FinalizeInRange ==
  ASSUME TypeInv, NEW k, NEW i, Finalize(k, i)
  PROVE  Next
<1> DEFINE e == [kind |-> "finalized", key |-> k, index |-> i,
                 result |-> NoResult, by |-> want]
<1>1. e.index = i /\ e.key = k /\ e.kind = "finalized"
  OBVIOUS
<1>2. i <= MaxIndex /\ k \in Keys /\ latest[k] >= 0 /\ i = latest[k]
  BY <1>1 DEF Finalize, AppendBegin, Transition
<1>3. latest[k] \in Int
  BY <1>2 DEF TypeInv, TypeOK
<1>4. i \in 0 .. MaxIndex
  BY <1>2, <1>3, JournalAssumption
<1> QED
  BY <1>2, <1>4 DEF Next, Call

LEMMA AttemptInRange ==
  ASSUME NEW k, NEW i \in 0 .. MaxIndex, NEW r \in Results, AppendAttempt(k, i, r)
  PROVE  Next
<1> DEFINE e == [kind |-> "attempt", key |-> k, index |-> i, result |-> r,
                 by |-> want]
<1>1. e.key = k
  OBVIOUS
<1>2. k \in Keys
  BY <1>1 DEF AppendAttempt, AppendBegin, Transition
<1> QED
  BY <1>2 DEF Next, Call

LEMMA StepIsStoreStep == TypeInv /\ [RunNext]_allVars => [Next]_vars
<1> SUFFICES ASSUME TypeInv, [RunNext]_allVars PROVE [Next]_vars
  OBVIOUS
<1>1. CASE Invoke
  BY <1>1 DEF Invoke, StartRun, Next, Call
<1>2. CASE Opened \/ OpenRaised \/ SkipCompleted \/ SendOnce \/ CountTerminal
  BY <1>2 DEF Opened, OpenRaised, SkipCompleted, SendOnce, CountTerminal
<1>3. CASE RefuseHistory \/ Return \/ AppendRaised \/ Cancel
  BY <1>3 DEF RefuseHistory, Return, AppendRaised, Cancel, Next, Call
<1>4. CASE ResumeUnfinished
  BY <1>4, FinalizeInRange DEF ResumeUnfinished
<1>5. ASSUME NEW r \in Results, Answer(r) PROVE Next
  <2>1. 0 \in 0 .. MaxIndex
    BY JournalAssumption
  <2> QED
    BY <1>5, <2>1, AttemptInRange DEF Answer
<1>6. CASE RecordedThenFinalize
  BY <1>6, FinalizeInRange DEF RecordedThenFinalize
<1>7. CASE OtherSession
  BY <1>7, FinalizeInRange, AttemptInRange DEF OtherSession, Next, Call
<1>8. CASE StoreStep
  BY <1>8 DEF StoreStep, Next, Fault
<1>9. CASE Crash
  BY <1>9 DEF Crash, Next, Fault
<1>10. CASE UNCHANGED allVars
  BY <1>10 DEF allVars
<1> QED
  BY <1>1, <1>2, <1>3, <1>4, <1>5, <1>6, <1>7, <1>8, <1>9, <1>10
  DEF RunNext, Proceed

LEMMA StoreInvariant == RunSpec => [](TypeInv /\ HistoryInv)
<1>1. RunInit => TypeInv /\ HistoryInv
  BY TypeInit, HistoryInit DEF RunInit
<1>2. TypeInv /\ HistoryInv /\ [RunNext]_allVars => (TypeInv /\ HistoryInv)'
  BY StepIsStoreStep, TypeStep, HistoryStep
<1> QED
  BY <1>1, <1>2, PTL DEF RunSpec

-----------------------------------------------------------------------------
(* Nothing recorded is sent again.  While run_plan is in its loop, every   *)
(* attempt on disk was there when it opened the journal, or is of an item  *)
(* it has been to; and the plan names no execution twice.                  *)

Looping == {"loop", "sending", "recording", "finalizing"}

\* The position up to which the run itself may have recorded attempts.
Visited == IF phase \in {"recording", "finalizing"} THEN pos ELSE pos - 1

Accounted(k) ==
  \/ PriorAttempts(prior, k) # {}
  \/ \E j \in 1 .. Len(plan) : j <= Visited /\ plan[j].key = k

RunInv ==
  /\ pos \in Nat \ {0}
  /\ phase \in Looping \cup {"opening"} =>
       /\ plan \in Plans
       /\ \A i, j \in DOMAIN plan : plan[i].key = plan[j].key => i = j
  /\ phase \in {"loop", "sending"} => pc = "open"
  /\ phase \in Looping \ {"loop"} => pos \in DOMAIN plan
  /\ phase \in {"recording", "finalizing"} =>
       /\ pc \in AppendSteps \cup {"open", "poisoned"}
       /\ pc \in AppendSteps => pending.key = Current
  /\ phase \in Looping =>
       \A i \in 1 .. Len(lines) :
         lines[i].kind = "attempt" => Accounted(lines[i].key)

LEMMA RunInvInit == RunInit => RunInv
  BY DEF RunInit, RunInv, Looping

(* Outside of an invocation there is nothing to know. *)
LEMMA RunInvOutside ==
  ASSUME phase' \in {"idle", "finished", "other"}, pos' \in Nat \ {0}
  PROVE  RunInv'
  BY DEF RunInv, Looping

\* Once the append under way has put its record into the journal.
Unwritten == {"create", "write"}
Written == {"fsync", "fsyncDir", "close", "open"}

(* Under a call of the runner the store only adds the record it was given, in
   one step of the append. *)
LEMMA StoreUnderRun ==
  ASSUME TypeInv, RunInv, Work \/ OpenFails \/ PublishFails \/ AppendFails,
         phase \in Looping
  PROVE  /\ phase \in {"recording", "finalizing"}
         /\ pc' \in AppendSteps \cup {"open", "poisoned"}
         /\ pc' \in AppendSteps => pending' = pending /\ pc \in AppendSteps
         /\ \/ /\ lines' = lines
               /\ pc' \in Written => pc \in Written
               /\ pc' \in Unwritten => pc \in Unwritten
            \/ /\ lines' = Append(lines, pending)
               /\ pending \in Event /\ pending.key = Current
               /\ pc = "write" /\ pc' = "fsync"
<1>1. pc \in AppendSteps \cup {"open", "poisoned"}
  BY DEF RunInv, Looping
<1>2. CASE OpenJournalFile \/ WriteSome \/ WriteRest \/ SyncJournalFile
           \/ SyncJournalEntry \/ AppendReturns
  <2>1. pc \in AppendSteps
    BY <1>2 DEF OpenJournalFile, WriteSome, WriteRest, SyncJournalFile,
       SyncJournalEntry, SyncDirectory, AppendReturns, AppendSteps
  <2>2. phase \in {"recording", "finalizing"} /\ pending.key = Current
        /\ pending \in Event
    BY <2>1 DEF RunInv, Looping, AppendSteps, TypeInv
  <2> QED
    BY <1>2, <2>1, <2>2 DEF OpenJournalFile, WriteSome, WriteRest,
       SyncJournalFile, SyncJournalEntry, SyncDirectory, AppendReturns,
       AppendSteps, journalVars, callVars, Written, Unwritten
<1>3. CASE AppendFails
  BY <1>3 DEF AppendFails, RunInv, Looping, AppendSteps, journalVars, Written,
     Unwritten
<1>4. OpenJournalFile \/ WriteSome \/ WriteRest \/ SyncJournalFile
      \/ SyncJournalEntry \/ AppendReturns \/ AppendFails
  BY <1>1 DEF Work, EnsureRoot, EnsureRun, EnsureDirectory, SyncRoot, SyncRun,
     SyncLink, SyncDirectory, FindManifest, RefuseOrphan, WriteTemp, SyncTemp,
     LinkManifest, UnlinkTemp, AbandonTemp, LoadManifest, RefuseManifest,
     ScanLine, ScanDone, RefuseJournal, OpenFails, PublishFails, AppendSteps,
     OpenSteps, PublishSteps
<1> QED
  BY <1>2, <1>3, <1>4

LEMMA RunInvStep ==
  TypeInv /\ HistoryInv /\ RunInv /\ [RunNext]_allVars => RunInv'
<1> SUFFICES ASSUME TypeInv, HistoryInv, RunInv, [RunNext]_allVars
             PROVE  RunInv'
  OBVIOUS
<1>1. ASSUME NEW p \in Plans, NEW m \in Manifests, StartRun(p, m) PROVE RunInv'
  BY <1>1 DEF StartRun, Preflight, ResetLoop, RunInv, Looping
<1>2. CASE Opened
  <2>1. /\ phase' = "loop" /\ pc' = "open" /\ prior' = events /\ lines' = lines
        /\ UNCHANGED <<plan, pos>> /\ events = lines
    BY <1>2 DEF Opened, vars, journalVars, HistoryInv
  <2>2. ASSUME NEW i \in 1 .. Len(lines), lines[i].kind = "attempt"
        PROVE  i \in PriorAttempts(prior', lines[i].key)
    BY <2>1, <2>2 DEF PriorAttempts, IsAttempt
  <2>3. \A i \in 1 .. Len(lines) :
          lines[i].kind = "attempt" => Accounted(lines[i].key)'
    BY <2>1, <2>2 DEF Accounted
  <2> QED
    BY <1>2, <2>1, <2>3 DEF Opened, RunInv, Looping
<1>3. CASE SkipCompleted
  <2>1. /\ phase = "loop" /\ phase' = "loop" /\ pos' = pos + 1
        /\ UNCHANGED <<pc, lines, plan, prior>>
    BY <1>3 DEF SkipCompleted, AtItem, vars, journalVars
  <2>2. \A k : Accounted(k) => Accounted(k)'
    BY <2>1 DEF Accounted, Visited, RunInv
  <2> QED
    BY <2>1, <2>2 DEF RunInv, Looping
<1>4. CASE SendOnce
  <2>1. /\ phase = "loop" /\ phase' = "sending" /\ pos <= Len(plan)
        /\ UNCHANGED <<pc, lines, plan, prior, pos>>
    BY <1>4 DEF SendOnce, AtItem, vars, journalVars, loopVars
  <2>2. \A k : Accounted(k) => Accounted(k)'
    BY <2>1 DEF Accounted, Visited
  <2> QED
    BY <2>1, <2>2, PlansAssumption DEF RunInv, Looping
<1>5. CASE ResumeUnfinished \/ (\E r \in Results : Answer(r)) \/ RecordedThenFinalize
  <2>1. /\ phase' \in {"recording", "finalizing"} /\ pc' = "create"
        /\ pending'.key = Current /\ UNCHANGED <<lines, plan, prior, pos>>
    <3>1. CASE ResumeUnfinished
      BY <3>1 DEF ResumeUnfinished, Finalize, AppendBegin, journalVars
    <3>2. ASSUME NEW r \in Results, Answer(r)
          PROVE  /\ phase' = "recording" /\ pc' = "create"
                 /\ pending'.key = Current /\ UNCHANGED <<lines, plan, prior, pos>>
      BY <3>2 DEF Answer, AppendAttempt, AppendBegin, journalVars
    <3>3. CASE RecordedThenFinalize
      BY <3>3 DEF RecordedThenFinalize, Finalize, AppendBegin, journalVars,
         loopVars
    <3> QED
      BY <1>5, <3>1, <3>2, <3>3
  <2>2. /\ phase \in Looping /\ phase' \in Looping /\ pos \in DOMAIN plan
        /\ phase = "loop" \/ phase = "sending" \/ phase = "recording"
    BY <1>5, PlansAssumption DEF ResumeUnfinished, Answer, RecordedThenFinalize,
       AtItem, Looping, RunInv
  <2>3. \A k : Accounted(k) => Accounted(k)'
    BY <2>1, <2>2 DEF Accounted, Visited, RunInv
  <2> QED
    BY <2>1, <2>2, <2>3 DEF RunInv, Looping, Current, AppendSteps
<1>6. CASE CountTerminal
  <2>1. /\ phase = "finalizing" /\ phase' = "loop" /\ pos' = pos + 1
        /\ pc' = "open" /\ UNCHANGED <<lines, plan, prior>>
    BY <1>6 DEF CountTerminal, vars, journalVars
  <2>2. \A k : Accounted(k) => Accounted(k)'
    BY <2>1 DEF Accounted, Visited, RunInv
  <2> QED
    BY <2>1, <2>2 DEF RunInv, Looping
<1>7. CASE RefuseHistory \/ OpenRaised \/ Cancel \/ AppendRaised \/ Crash
  BY <1>7, RunInvOutside DEF RefuseHistory, OpenRaised, Cancel, AppendRaised,
     Crash, GiveUp, ResetLoop
<1>8. CASE Return
  BY <1>8, RunInvOutside DEF Return, loopVars, RunInv
<1>9. CASE OtherSession
  BY <1>9, RunInvOutside DEF OtherSession, ResetLoop, loopVars, RunInv
<1>10. CASE StoreStep
  <2>1. UNCHANGED <<phase, plan, prior, pos>>
    BY <1>10 DEF StoreStep, runVars, loopVars
  <2>2. CASE phase \in Looping
    <3>1. /\ phase \in {"recording", "finalizing"}
          /\ pc' \in AppendSteps \cup {"open", "poisoned"}
          /\ pc' \in AppendSteps => pending' = pending /\ pc \in AppendSteps
          /\ \/ lines' = lines
             \/ lines' = Append(lines, pending) /\ pending.key = Current
      BY <1>10, <2>2, StoreUnderRun DEF StoreStep
    <3>2. pos \in 1 .. Len(plan)
      BY <2>2, <3>1, PlansAssumption DEF RunInv, Looping
    <3>3. Accounted(Current)
      BY <3>1, <3>2 DEF Accounted, Visited, Current
    <3>4. lines \in Seq(Event)
      BY DEF TypeInv, TypeOK
    <3>5. \A i \in 1 .. Len(lines') :
            lines'[i].kind = "attempt" => Accounted(lines'[i].key)
      <4>1. CASE lines' = lines
        BY <4>1, <2>2 DEF RunInv
      <4>2. CASE lines' = Append(lines, pending) /\ pending.key = Current
        <5>1. /\ Len(lines') = Len(lines) + 1
              /\ lines'[Len(lines) + 1] = pending
              /\ \A i \in 1 .. Len(lines) : lines'[i] = lines[i]
          BY <4>2, <3>4
        <5>2. \A i \in 1 .. Len(lines') : i \in 1 .. Len(lines) \/ i = Len(lines) + 1
          BY <5>1, <3>4
        <5> QED
          BY <4>2, <5>1, <5>2, <3>3, <2>2 DEF RunInv
      <4> QED
        BY <3>1, <4>1, <4>2
    <3>6. (\A i \in 1 .. Len(lines) :
             lines[i].kind = "attempt" => Accounted(lines[i].key))'
      BY <2>1, <3>1, <3>5 DEF Accounted, Visited
    <3> QED
      BY <2>1, <2>2, <3>1, <3>6 DEF RunInv, Looping, Current
  <2>3. CASE phase \notin Looping
    BY <2>1, <2>3 DEF RunInv, Looping
  <2> QED
    BY <2>2, <2>3
<1>11. CASE UNCHANGED allVars
  BY <1>11 DEF allVars, runVars, loopVars, vars, journalVars, callVars, RunInv,
     Looping, Accounted, Visited, Current
<1> QED
  BY <1>1, <1>2, <1>3, <1>4, <1>5, <1>6, <1>7, <1>8, <1>9, <1>10, <1>11
  DEF RunNext, Invoke, Proceed

(* Only SendOnce sends, and only what neither the journal it opened nor the
   run since has an attempt of. *)
LEMMA SendStep ==
  ASSUME TypeInv, RunInv, [RunNext]_allVars, NEW k \in Keys, sends'[k] # sends[k]
  PROVE  PriorAttempts(lines, k) = {}
<1>1. CASE SendOnce
  <2>1. /\ phase = "loop" /\ pos <= Len(plan) /\ PriorAttempts(prior, Current) = {}
        /\ sends' = [sends EXCEPT ![Current] = @ + 1]
    BY <1>1 DEF SendOnce, AtItem
  <2>2. k = Current
    BY <2>1
  <2>3. pos \in 1 .. Len(plan) /\ DOMAIN plan = 1 .. Len(plan)
    BY <2>1, PlansAssumption DEF RunInv, Looping
  <2>4. ~Accounted(k)
    BY <2>1, <2>2, <2>3 DEF Accounted, Visited, Current, RunInv, Looping
  <2>5. \A i \in 1 .. Len(lines) : ~IsAttempt(lines[i], k)
    BY <2>1, <2>4 DEF RunInv, Looping, IsAttempt
  <2> QED
    BY <2>5 DEF PriorAttempts
<1>2. SendOnce \/ sends' = sends
  BY DEF RunNext, Invoke, Proceed, StartRun, Opened, RefuseHistory, OpenRaised,
     SkipCompleted, ResumeUnfinished, Answer, RecordedThenFinalize,
     CountTerminal, Return, Cancel, AppendRaised, OtherSession, StoreStep, Crash,
     ghostVars, runVars, allVars
<1> QED
  BY <1>1, <1>2

(* No run ever sends a request for an execution that has an attempt on disk:
   not after any kill, error, power loss or cancellation, not on a journal
   that somebody else wrote to, for any plan. *)
THEOREM NeverResent == RunSpec => NoResendOfRecorded
<1>1. TypeInv /\ RunInv /\ [RunNext]_allVars =>
        [\A k \in Keys : sends'[k] # sends[k] => PriorAttempts(lines, k) = {}]_allVars
  BY SendStep
<1>2. RunSpec => [](TypeInv /\ HistoryInv /\ RunInv)
  BY StoreInvariant, RunInvInit, RunInvStep, PTL DEF RunSpec
<1> QED
  BY <1>1, <1>2, PTL DEF RunSpec, NoResendOfRecorded

-----------------------------------------------------------------------------
(* A result is on disk before its execution is finalized, and a request is *)
(* sent again only once no result of it is left.                           *)

RecordInv ==
  phase = "recording" =>
    /\ pc \in AppendSteps => /\ IsAttempt(pending, Current)
                             /\ pending.index = 0 /\ pending.result = terminal
    /\ pc \in Written =>
         \E i \in 1 .. Len(lines) : /\ IsAttempt(lines[i], Current)
                                    /\ lines[i].index = 0
                                    /\ lines[i].result = terminal

LEMMA AppendKeeps ==
  ASSUME NEW s \in Seq(Event), NEW e \in Event
  PROVE  /\ Len(Append(s, e)) = Len(s) + 1 /\ Len(s) \in Nat
         /\ Append(s, e)[Len(s) + 1] = e
         /\ \A i \in 1 .. Len(s) : Append(s, e)[i] = s[i]
         /\ \A i \in 1 .. Len(s) + 1 : i \in 1 .. Len(s) \/ i = Len(s) + 1
  OBVIOUS

LEMMA RecordInvStep ==
  TypeInv /\ RunInv /\ RecordInv /\ [RunNext]_allVars => RecordInv'
<1> SUFFICES ASSUME TypeInv, RunInv, RecordInv, [RunNext]_allVars,
                    phase' = "recording"
             PROVE  RecordInv'
  BY DEF RecordInv
<1>1. ASSUME NEW r \in Results, Answer(r) PROVE RecordInv'
  <2>1. /\ pc' = "create" /\ terminal' = r /\ UNCHANGED <<plan, pos>>
        /\ pending' = [kind |-> "attempt", key |-> Current, index |-> 0,
                       result |-> r, by |-> want]
    BY <1>1 DEF Answer, AppendAttempt, AppendBegin
  <2> QED
    BY <2>1 DEF RecordInv, IsAttempt, Current, Written
<1>2. CASE StoreStep
  <2>1. UNCHANGED <<phase, plan, pos, terminal>>
    BY <1>2 DEF StoreStep, runVars, loopVars
  <2>2. lines \in Seq(Event) /\ phase \in Looping
    BY <2>1 DEF TypeInv, TypeOK, Looping
  <2>3. /\ pc' \in AppendSteps \cup {"open", "poisoned"}
        /\ pc' \in AppendSteps => pending' = pending /\ pc \in AppendSteps
        /\ \/ lines' = lines /\ (pc' \in Written => pc \in Written)
           \/ /\ lines' = Append(lines, pending) /\ pending \in Event
              /\ pc = "write"
    BY <1>2, <2>2, StoreUnderRun DEF StoreStep
  <2>4. CASE lines' = lines
    BY <2>1, <2>3, <2>4 DEF RecordInv, IsAttempt, Current
  <2>5. CASE lines' = Append(lines, pending) /\ pending \in Event /\ pc = "write"
    <3>1. /\ IsAttempt(pending, Current) /\ pending.index = 0
          /\ pending.result = terminal
      BY <2>1, <2>5 DEF RecordInv, AppendSteps
    <3>2. /\ Len(lines') \in 1 .. Len(lines') /\ lines'[Len(lines')] = pending
      BY <2>2, <2>5, AppendKeeps
    <3> QED
      BY <2>1, <2>3, <3>1, <3>2 DEF RecordInv, IsAttempt, Current
  <2> QED
    BY <2>3, <2>4, <2>5
<1>3. CASE UNCHANGED allVars
  BY <1>3 DEF allVars, runVars, loopVars, vars, journalVars, callVars, RecordInv,
     IsAttempt, Current
<1>4. \/ \E r \in Results : Answer(r)
      \/ StoreStep \/ UNCHANGED allVars
  BY DEF RunNext, Invoke, Proceed, StartRun, Opened, RefuseHistory, OpenRaised,
     SkipCompleted, ResumeUnfinished, SendOnce, RecordedThenFinalize,
     CountTerminal, Return, Cancel, AppendRaised, OtherSession, Crash, GiveUp,
     AtItem
<1> QED
  BY <1>1, <1>2, <1>3, <1>4

LEMMA RecordInvInit == RunInit => RecordInv
  BY DEF RunInit, RecordInv

(* An execution that was sent is on its way or on disk, or it has been lost
   once more often than it was sent again. *)
Kept(k) == InFlight(k) \/ PriorAttempts(lines, k) # {}

SendsInv ==
  /\ sends \in [Keys -> Nat] /\ lostWork \in [Keys -> Nat]
  /\ \A k \in Keys : sends[k] <= lostWork[k] + IF Kept(k) THEN 1 ELSE 0

LEMMA SendsInvInit == RunInit => SendsInv
  BY DEF RunInit, SendsInv

LEMMA AttemptsStay ==
  ASSUME NEW s \in Seq(Event), NEW e \in Event, NEW k, PriorAttempts(s, k) # {}
  PROVE  PriorAttempts(Append(s, e), k) # {}
<1>1. PICK i \in 1 .. Len(s) : IsAttempt(s[i], k)
  BY DEF PriorAttempts
<1>2. i \in 1 .. Len(Append(s, e)) /\ Append(s, e)[i] = s[i]
  BY AppendKeeps
<1>3. IsAttempt(Append(s, e)[i], k)
  BY <1>1, <1>2
<1> QED
  BY <1>2, <1>3 DEF PriorAttempts

LEMMA SendsUnchanged ==
  ASSUME SendsInv, UNCHANGED <<sends, lostWork>>, \A k \in Keys : Kept(k) => Kept(k)'
  PROVE  SendsInv'
<1> SUFFICES ASSUME NEW k \in Keys
             PROVE  sends[k] <= lostWork[k] + IF Kept(k)' THEN 1 ELSE 0
  BY DEF SendsInv
<1>1. sends[k] \in Nat /\ lostWork[k] \in Nat
  BY DEF SendsInv
<1>2. sends[k] <= lostWork[k] + IF Kept(k) THEN 1 ELSE 0
  BY DEF SendsInv
<1> QED
  BY <1>1, <1>2

(* Whoever ends an invocation notes what it lost. *)
LEMMA SendsNoted ==
  ASSUME SendsInv, NoteLostWork(lines'), sends' = sends, phase' = "idle"
  PROVE  SendsInv'
<1>1. \A k \in Keys : /\ sends[k] \in Nat /\ lostWork[k] \in Nat
                      /\ sends[k] <= lostWork[k] + IF Kept(k) THEN 1 ELSE 0
  BY DEF SendsInv
<1>2. lostWork' = [k \in Keys |->
                     IF Kept(k) /\ PriorAttempts(lines', k) = {}
                     THEN lostWork[k] + 1 ELSE lostWork[k]]
  BY DEF NoteLostWork, Kept
<1>3. \A k \in Keys : Kept(k)' <=> PriorAttempts(lines', k) # {}
  BY DEF Kept, InFlight
<1>4. lostWork' \in [Keys -> Nat]
  BY <1>1, <1>2
<1>5. \A k \in Keys : sends[k] <= lostWork'[k] + IF Kept(k)' THEN 1 ELSE 0
  <2> SUFFICES ASSUME NEW k \in Keys
               PROVE  sends[k] <= lostWork'[k] + IF Kept(k)' THEN 1 ELSE 0
    OBVIOUS
  <2>1. CASE Kept(k) /\ PriorAttempts(lines', k) = {}
    BY <1>1, <1>2, <2>1
  <2>2. CASE ~(Kept(k) /\ PriorAttempts(lines', k) = {})
    BY <1>1, <1>2, <1>3, <2>2
  <2> QED
    BY <2>1, <2>2
<1> QED
  BY <1>4, <1>5 DEF SendsInv

LEMMA SendsInvStep ==
  TypeInv /\ RunInv /\ RecordInv /\ SendsInv /\ [RunNext]_allVars => SendsInv'
<1> SUFFICES ASSUME TypeInv, RunInv, RecordInv, SendsInv, [RunNext]_allVars
             PROVE  SendsInv'
  OBVIOUS
<1>0. lines \in Seq(Event)
  BY DEF TypeInv, TypeOK
<1>1. CASE SendOnce
  <2>1. /\ phase = "loop" /\ phase' = "sending"
        /\ sends' = [sends EXCEPT ![Current] = @ + 1]
        /\ UNCHANGED <<lines, plan, pos, lostWork>>
    BY <1>1 DEF SendOnce, AtItem, vars, journalVars, loopVars
  <2>2. sends' \in [Keys -> Nat]
    <3>1. sends' = [k \in Keys |-> IF k = Current THEN sends[k] + 1 ELSE sends[k]]
      BY <2>1 DEF SendsInv
    <3> QED
      BY <3>1 DEF SendsInv
  <2>3. ASSUME NEW k \in Keys
        PROVE  sends'[k] <= lostWork'[k] + IF Kept(k)' THEN 1 ELSE 0
    <3>1. /\ sends[k] \in Nat /\ lostWork[k] \in Nat
          /\ sends[k] <= lostWork[k] + IF Kept(k) THEN 1 ELSE 0
      BY DEF SendsInv
    <3>2. CASE k = Current
      <4>1. sends'[k] = sends[k] + 1
        BY <2>1, <3>2 DEF SendsInv
      <4>2. PriorAttempts(lines, k) = {}
        BY <3>1, <4>1, SendStep
      <4>3. ~Kept(k) /\ Kept(k)'
        BY <2>1, <3>2, <4>2 DEF Kept, InFlight, Current
      <4> QED
        BY <2>1, <3>1, <4>1, <4>3
    <3>3. CASE k # Current
      <4>1. sends'[k] = sends[k]
        BY <2>1, <3>3 DEF SendsInv
      <4>2. Kept(k) => Kept(k)'
        BY <2>1 DEF Kept, InFlight
      <4> QED
        BY <2>1, <3>1, <4>1, <4>2
    <3> QED
      BY <3>2, <3>3
  <2> QED
    BY <2>1, <2>2, <2>3 DEF SendsInv
<1>2. CASE Cancel \/ AppendRaised \/ Crash
  <2>1. NoteLostWork(lines') /\ sends' = sends /\ phase' = "idle"
    <3>1. CASE Cancel \/ AppendRaised
      <4>1. NoteLostWork(lines) /\ lines' = lines
        BY <3>1 DEF Cancel, AppendRaised, Close, journalVars
      <4>2. NoteLostWork(lines')
        BY <4>1 DEF NoteLostWork
      <4> QED
        BY <3>1, <4>2 DEF Cancel, AppendRaised, GiveUp
    <3>2. CASE Crash
      BY <3>2 DEF Crash, GiveUp
    <3> QED
      BY <1>2, <3>1, <3>2
  <2> QED
    BY <2>1, SendsNoted
<1>3. CASE RecordedThenFinalize
  <2>1. /\ phase = "recording" /\ pc = "open" /\ phase' = "finalizing"
        /\ UNCHANGED <<lines, sends, lostWork>>
    BY <1>3 DEF RecordedThenFinalize, Finalize, AppendBegin, journalVars, ghostVars
  <2>2. \A k \in Keys : Kept(k) => Kept(k)'
    BY <2>1 DEF Kept, InFlight, RecordInv, Written, PriorAttempts
  <2> QED
    BY <2>1, <2>2, SendsUnchanged
<1>4. ASSUME NEW r \in Results, Answer(r) PROVE SendsInv'
  <2>1. /\ phase' = "recording"
        /\ UNCHANGED <<lines, plan, pos, sends, lostWork>>
    BY <1>4 DEF Answer, AppendAttempt, AppendBegin, journalVars, ghostVars
  <2>2. \A k \in Keys : Kept(k) => Kept(k)'
    BY <2>1 DEF Kept, InFlight, Current
  <2> QED
    BY <2>1, <2>2, SendsUnchanged
<1>5. CASE StoreStep
  <2>1. UNCHANGED <<phase, plan, pos, sends, lostWork>>
    BY <1>5 DEF StoreStep, runVars, loopVars, ghostVars
  <2>2. \/ lines' = lines
        \/ lines' = Append(lines, pending) /\ pending \in Event
    BY <1>5 DEF StoreStep, Work, EnsureRoot, EnsureRun, EnsureDirectory,
       SyncRoot, SyncRun, SyncLink, SyncDirectory, FindManifest, RefuseOrphan,
       WriteTemp, SyncTemp, LinkManifest, UnlinkTemp, AbandonTemp, LoadManifest,
       RefuseManifest, ScanLine, ScanDone, RefuseJournal, OpenJournalFile,
       WriteSome, WriteRest, SyncJournalFile, SyncJournalEntry, AppendReturns,
       OpenFails, PublishFails, AppendFails, journalVars, TypeInv, AppendSteps
  <2>3. \A k \in Keys : Kept(k) => Kept(k)'
    BY <1>0, <2>1, <2>2, AttemptsStay DEF Kept, InFlight, Current
  <2> QED
    BY <2>1, <2>3, SendsUnchanged
<1>6. CASE /\ phase \notin {"sending", "recording"}
           /\ UNCHANGED <<lines, sends, lostWork>>
  BY <1>6, SendsUnchanged DEF Kept, InFlight
<1>7. CASE UNCHANGED allVars
  BY <1>7, SendsUnchanged DEF allVars, runVars, loopVars, vars, journalVars,
     ghostVars, Kept, InFlight, Current
<1>8. CASE \/ Invoke \/ Opened \/ RefuseHistory \/ OpenRaised \/ SkipCompleted
           \/ ResumeUnfinished \/ CountTerminal \/ Return \/ OtherSession
  <2>1. /\ phase \notin {"sending", "recording"}
        /\ UNCHANGED <<lines, sends, lostWork>>
    BY <1>8 DEF Invoke, StartRun, OpenBegin, Opened, RefuseHistory, OpenRaised,
       SkipCompleted, AtItem, ResumeUnfinished, Finalize, AppendAttempt,
       AppendBegin, CountTerminal, Return, OtherSession, Close, vars,
       journalVars, ghostVars
  <2> QED
    BY <1>6, <2>1
<1> QED
  BY <1>1, <1>2, <1>3, <1>4, <1>5, <1>7, <1>8 DEF RunNext, Proceed

(* However a run is cut off, cancelled and started again, and whatever a power
   loss takes: an execution is sent once more than its result was lost. *)
THEOREM SentOncePerLostResult == RunSpec => []OneSendPerLostResult
<1>1. SendsInv => OneSendPerLostResult
  <2> SUFFICES ASSUME SendsInv, NEW k \in Keys PROVE sends[k] <= lostWork[k] + 1
    BY DEF OneSendPerLostResult
  <2>1. /\ sends[k] \in Nat /\ lostWork[k] \in Nat
        /\ sends[k] <= lostWork[k] + IF Kept(k) THEN 1 ELSE 0
    BY DEF SendsInv
  <2> QED
    BY <2>1
<1>2. RunSpec => [](TypeInv /\ HistoryInv /\ RunInv)
  BY StoreInvariant, RunInvInit, RunInvStep, PTL DEF RunSpec
<1>3. RunSpec => [](RecordInv /\ SendsInv)
  BY <1>2, RecordInvInit, RecordInvStep, SendsInvInit, SendsInvStep, PTL
  DEF RunSpec
<1> QED
  BY <1>1, <1>3, PTL

-----------------------------------------------------------------------------
(* What the loop knows from opening the journal: what it read is still the *)
(* head of the file, and done is what was finalized there.                 *)

OpenedInv ==
  phase \in Looping =>
    /\ Len(prior) \in Nat /\ Len(prior) <= Len(lines)
    /\ \A i \in 1 .. Len(prior) : prior[i] = lines[i]
    /\ done \subseteq Keys
    /\ \A k \in Keys : k \in done <=>
         \E i \in 1 .. Len(prior) : prior[i].kind = "finalized" /\ prior[i].key = k
    /\ phase # "loop" => Current \notin done

LEMMA OpenedInvInit == RunInit => OpenedInv
  BY DEF RunInit, OpenedInv, Looping

LEMMA OpenedKept ==
  ASSUME TypeInv, OpenedInv, phase \in Looping, UNCHANGED <<prior, done>>,
         \/ lines' = lines
         \/ lines' = Append(lines, pending) /\ pending \in Event,
         phase' \in Looping \ {"loop"} => Current' \notin done
  PROVE  OpenedInv'
<1>1. lines \in Seq(Event)
  BY DEF TypeInv, TypeOK
<1>2. /\ Len(lines) <= Len(lines') /\ Len(lines) \in Nat /\ Len(lines') \in Nat
      /\ \A i \in 1 .. Len(lines) : lines'[i] = lines[i]
  BY <1>1, AppendKeeps
<1>3. /\ Len(prior) \in Nat /\ Len(prior) <= Len(lines)
      /\ \A i \in 1 .. Len(prior) : prior[i] = lines[i]
      /\ done \subseteq Keys
      /\ \A k \in Keys : k \in done <=>
           \E i \in 1 .. Len(prior) : prior[i].kind = "finalized" /\ prior[i].key = k
  BY DEF OpenedInv
<1>4. Len(prior) <= Len(lines') /\ \A i \in 1 .. Len(prior) : prior[i] = lines'[i]
  BY <1>2, <1>3
<1>5. UNCHANGED <<prior, done>>
  OBVIOUS
<1> QED
  BY <1>3, <1>4, <1>5 DEF OpenedInv

LEMMA OpenedInvStep ==
  TypeInv /\ HistoryInv /\ RunInv /\ OpenedInv /\ [RunNext]_allVars => OpenedInv'
<1> SUFFICES ASSUME TypeInv, HistoryInv, RunInv, OpenedInv, [RunNext]_allVars,
                    phase' \in Looping
             PROVE  OpenedInv'
  BY DEF OpenedInv
<1>1. CASE Opened
  <2>1. /\ pc = "open" /\ prior' = events /\ done' = completed /\ lines' = lines
        /\ phase' = "loop"
    BY <1>1 DEF Opened, vars, journalVars
  <2>2. /\ events = lines /\ Summarises(latest, completed, events)
        /\ completed \subseteq Keys /\ Len(events) \in Nat
    BY <2>1 DEF HistoryInv, TypeInv, TypeOK
  <2> QED
    BY <2>1, <2>2 DEF OpenedInv, Summarises
<1>2. CASE SkipCompleted \/ CountTerminal
  BY <1>2, OpenedKept DEF SkipCompleted, CountTerminal, AtItem, Looping, vars,
     journalVars
<1>3. CASE SendOnce
  BY <1>3, OpenedKept DEF SendOnce, AtItem, Looping, vars, journalVars, loopVars,
     Current
<1>4. CASE ResumeUnfinished
  BY <1>4, OpenedKept DEF ResumeUnfinished, Finalize, AppendBegin, AtItem,
     Looping, journalVars, Current
<1>5. ASSUME NEW r \in Results, Answer(r) PROVE OpenedInv'
  BY <1>5, OpenedKept DEF Answer, AppendAttempt, AppendBegin, Looping,
     journalVars, Current, OpenedInv
<1>6. CASE RecordedThenFinalize
  BY <1>6, OpenedKept DEF RecordedThenFinalize, Finalize, AppendBegin, Looping,
     journalVars, loopVars, Current, OpenedInv
<1>7. CASE StoreStep
  <2>1. UNCHANGED <<phase, plan, pos, prior, done>> /\ phase \in Looping
    BY <1>7 DEF StoreStep, runVars, loopVars
  <2>2. \/ lines' = lines
        \/ lines' = Append(lines, pending) /\ pending \in Event
    BY <1>7, <2>1, StoreUnderRun DEF StoreStep
  <2>3. phase' \in Looping \ {"loop"} => Current' \notin done
    BY <2>1 DEF OpenedInv, Current
  <2> QED
    BY <2>1, <2>2, <2>3, OpenedKept
<1>8. CASE UNCHANGED allVars
  BY <1>8, OpenedKept DEF allVars, runVars, loopVars, vars, journalVars, Current,
     OpenedInv
<1>9. \/ Opened \/ SkipCompleted \/ CountTerminal \/ SendOnce \/ ResumeUnfinished
      \/ RecordedThenFinalize \/ StoreStep \/ UNCHANGED allVars
      \/ \E r \in Results : Answer(r)
  BY DEF RunNext, Invoke, Proceed, StartRun, RefuseHistory, OpenRaised, Return,
     Cancel, AppendRaised, OtherSession, Crash, GiveUp, Looping
<1> QED
  BY <1>1, <1>2, <1>3, <1>4, <1>5, <1>6, <1>7, <1>8, <1>9

-----------------------------------------------------------------------------
(* Plan order.  The plan is the one the writer's manifest names, and as    *)
(* long as nobody else adds records every append is one of a run.          *)

CommitInv ==
  /\ foreign \in Nat
  /\ phase = "opening" => pos = 1
  /\ phase \in Looping \cup {"opening"} /\ pc # "absent" => KeysOf(plan) = want.plan
  /\ pc \in AppendSteps => phase \in {"recording", "finalizing"} \/ foreign > 0

LEMMA CommitInvInit == RunInit => CommitInv
  BY PCSteps DEF RunInit, Init, CommitInv, Looping

(* What the store does under its caller: it goes on under the same manifest or
   gives the object up, and starts no append of its own. *)
LEMMA StoreGoesOn ==
  ASSUME StoreStep
  PROVE  /\ want' = want \/ pc' = "absent"
         /\ pc' \in AppendSteps => pc \in AppendSteps
         /\ pc # "absent"
BY DEF StoreStep, Work, EnsureRoot, EnsureRun, EnsureDirectory, SyncRoot, SyncRun,
  SyncLink, SyncDirectory, FindManifest, RefuseOrphan, WriteTemp, SyncTemp,
  LinkManifest, UnlinkTemp, AbandonTemp, LoadManifest, RefuseManifest, ScanLine,
  ScanDone, RefuseJournal, OpenJournalFile, WriteSome, WriteRest,
  SyncJournalFile, SyncJournalEntry, AppendReturns, OpenFails, PublishFails,
  AppendFails, Forget, callVars, AppendSteps, OpenSteps, PublishSteps

LEMMA CommitInvStep ==
  RunInv /\ CommitInv /\ [RunNext]_allVars => CommitInv'
<1> SUFFICES ASSUME RunInv, CommitInv, [RunNext]_allVars PROVE CommitInv'
  OBVIOUS
<1>1. ASSUME NEW p \in Plans, NEW m \in Manifests, StartRun(p, m) PROVE CommitInv'
  <2>1. /\ pc' = "root" /\ want' = m /\ plan' = p /\ KeysOf(p) = m.plan
        /\ foreign' = foreign /\ pos' = 1
    BY <1>1 DEF StartRun, OpenBegin, Preflight, ResetLoop, ghostVars
  <2> QED
    BY <2>1 DEF CommitInv, KeysOf, AppendSteps
<1>2. CASE StoreStep
  <2>1. UNCHANGED <<phase, plan, pos, foreign>>
    BY <1>2 DEF StoreStep, runVars, loopVars, ghostVars
  <2> QED
    BY <1>2, <2>1, StoreGoesOn DEF CommitInv, KeysOf
<1>3. CASE ResumeUnfinished \/ (\E r \in Results : Answer(r)) \/ RecordedThenFinalize
  <2>1. /\ pc = "open" /\ phase \in Looping /\ phase' \in {"recording", "finalizing"}
        /\ UNCHANGED <<plan, want, foreign>>
    BY <1>3 DEF ResumeUnfinished, Answer, RecordedThenFinalize, AtItem, Looping,
       AppendAttempt, Finalize, AppendBegin, loopVars, ghostVars
  <2> QED
    BY <2>1 DEF CommitInv, KeysOf
<1>4. CASE Opened \/ SkipCompleted \/ SendOnce \/ CountTerminal \/ UNCHANGED allVars
  <2>1. /\ UNCHANGED <<plan, want, pc, foreign>>
        /\ phase' = phase \/ pc = "open"
        /\ phase' \in Looping => phase \in Looping \cup {"opening"}
        /\ phase' = "opening" => phase = "opening" /\ pos' = pos
    BY <1>4 DEF Opened, SkipCompleted, SendOnce, CountTerminal, AtItem, allVars,
       runVars, loopVars, ghostVars, vars, callVars, Looping, RunInv
  <2> QED
    BY <2>1 DEF CommitInv, KeysOf, AppendSteps
<1>5. CASE \/ RefuseHistory \/ OpenRaised \/ Cancel \/ AppendRaised \/ Crash
           \/ Return
  <2>1. pc' = "absent" /\ foreign' = foreign /\ phase' \in {"idle", "finished"}
    BY <1>5 DEF RefuseHistory, OpenRaised, Cancel, AppendRaised, Crash, Return,
       GiveUp, Close, Kill, PowerLoss, Forget, vars, ghostVars
  <2> QED
    BY <2>1 DEF CommitInv, Looping, AppendSteps
<1>6. CASE OtherSession
  <2>1. /\ phase' \in {"idle", "other"}
        /\ \/ pc' \in {"root", "absent"} /\ foreign' = foreign
           \/ foreign' = foreign + 1
    BY <1>6 DEF OtherSession, OpenBegin, Close, Forget, vars, ghostVars
  <2> QED
    BY <2>1 DEF CommitInv, Looping, AppendSteps
<1> QED
  BY <1>1, <1>2, <1>3, <1>4, <1>5, <1>6 DEF RunNext, Invoke, Proceed

\* How many records there are when the execution at pos has n of them.
Reached(n) == Len(lines) = 2 * (pos - 1) + n

OrderInv ==
  /\ EvidenceInPlanOrder
  /\ foreign = 0 =>
       /\ phase = "loop" => \/ Len(prior) > 2 * (pos - 1) /\ Len(lines) = Len(prior)
                            \/ Len(prior) <= 2 * (pos - 1) /\ Reached(0)
       /\ phase = "sending" => Reached(0)
       /\ phase = "recording" => /\ pc \in Unwritten => Reached(0)
                                 /\ pc \in Written => Reached(1)
       /\ phase = "finalizing" => /\ pc \in Unwritten => Reached(1)
                                  /\ pc \in Written => Reached(2)
                                  /\ pc \in AppendSteps =>
                                       /\ pending.index = 0
                                       /\ pending.kind = "finalized"
       /\ phase \in {"sending", "recording"} => Len(prior) <= 2 * (pos - 1)
       /\ phase = "finalizing" => Len(prior) <= 2 * pos - 1

LEMMA OrderInvInit == RunInit => OrderInv
  BY DEF RunInit, Init, OrderInv, EvidenceInPlanOrder

(* Every second record closes an execution. *)
LEMMA Halves ==
  ASSUME NEW i \in Nat \ {0}
  PROVE  /\ (2 * (i - 1) + 1 + 1) \div 2 = i /\ (2 * (i - 1) + 1) % 2 = 1
         /\ (2 * (i - 1) + 2 + 1) \div 2 = i /\ (2 * (i - 1) + 2) % 2 = 0
         /\ \/ i % 2 = 1 /\ i = 2 * ((i + 1) \div 2 - 1) + 1
            \/ i % 2 = 0 /\ i = 2 * ((i + 1) \div 2 - 1) + 2
  OBVIOUS

(* In a run that reads and writes the journal alone, the place of a record
   tells which execution of the plan it is of. *)
LEMMA PlaceTells ==
  ASSUME FilesInv, CommitInv, OrderInv, foreign = 0, phase \in Looping,
         pc \in Loaded, NEW i \in 1 .. Len(lines)
  PROVE  /\ (i + 1) \div 2 \in DOMAIN plan
         /\ lines[i].key = plan[(i + 1) \div 2].key
         /\ lines[i].index = 0
         /\ lines[i].kind = IF i % 2 = 1 THEN "attempt" ELSE "finalized"
<1>1. lines[i].by = want
  BY Places DEF FilesInv, OneManifestPerJournal
<1>2. want.plan = KeysOf(plan)
  BY Places DEF CommitInv, Loaded, AppendSteps
<1>3. /\ (i + 1) \div 2 \in DOMAIN want.plan
      /\ lines[i].key = want.plan[(i + 1) \div 2]
      /\ lines[i].index = 0
      /\ lines[i].kind = IF i % 2 = 1 THEN "attempt" ELSE "finalized"
  BY <1>1 DEF OrderInv, EvidenceInPlanOrder
<1> QED
  BY <1>2, <1>3 DEF KeysOf

(* So the loop finds the records of the execution it is at in their place. *)
LEMMA RecordsInPlace ==
  ASSUME TypeInv, HistoryInv, FilesInv, RunInv, OpenedInv, CommitInv, OrderInv,
         foreign = 0, phase = "loop", pos \in DOMAIN plan
  PROVE  /\ Current \in done <=> Len(prior) >= 2 * (pos - 1) + 2
         /\ \A i \in PriorAttempts(prior, Current) :
              i = 2 * (pos - 1) + 1 /\ prior[i].index = 0
         /\ PriorAttempts(prior, Current) = {} => Len(prior) <= 2 * (pos - 1)
<1>1. /\ Len(prior) \in Nat /\ Len(prior) <= Len(lines) /\ Len(lines) \in Nat
      /\ \A i \in 1 .. Len(prior) : prior[i] = lines[i] /\ i \in 1 .. Len(lines)
      /\ pos \in Nat \ {0} /\ pc \in Loaded
      /\ \A i, j \in DOMAIN plan : plan[i].key = plan[j].key => i = j
  BY DEF OpenedInv, Looping, RunInv, TypeInv, TypeOK, Loaded
<1>2. \A i \in 1 .. Len(prior) :
        /\ (i + 1) \div 2 \in DOMAIN plan
        /\ prior[i].key = plan[(i + 1) \div 2].key
        /\ prior[i].index = 0
        /\ prior[i].kind = IF i % 2 = 1 THEN "attempt" ELSE "finalized"
  BY <1>1, PlaceTells DEF Looping
<1>3. \A i \in 1 .. Len(prior) : prior[i].key = Current => (i + 1) \div 2 = pos
  BY <1>1, <1>2 DEF Current
<1>4. ASSUME NEW i \in 1 .. Len(prior), prior[i].key = Current
      PROVE  \/ i % 2 = 1 /\ i = 2 * (pos - 1) + 1 /\ prior[i].kind = "attempt"
             \/ i % 2 = 0 /\ i = 2 * (pos - 1) + 2 /\ prior[i].kind = "finalized"
  BY <1>2, <1>3, <1>4, Halves
<1>5. Current \in done => Len(prior) >= 2 * (pos - 1) + 2
  <2> SUFFICES ASSUME Current \in done PROVE Len(prior) >= 2 * (pos - 1) + 2
    OBVIOUS
  <2>1. PICK i \in 1 .. Len(prior) : prior[i].kind = "finalized" /\ prior[i].key = Current
    BY DEF OpenedInv, Looping
  <2>2. i = 2 * (pos - 1) + 2
    BY <1>4, <2>1
  <2> QED
    BY <1>1, <2>2
<1>6. Len(prior) >= 2 * (pos - 1) + 2 => Current \in done
  <2> SUFFICES ASSUME Len(prior) >= 2 * (pos - 1) + 2 PROVE Current \in done
    OBVIOUS
  <2> DEFINE i == 2 * (pos - 1) + 2
  <2>1. i \in 1 .. Len(prior) /\ (i + 1) \div 2 = pos /\ i % 2 = 0
    <3>1. (i + 1) \div 2 = pos /\ i % 2 = 0
      BY <1>1, Halves
    <3>2. i \in 1 .. Len(prior)
      BY <1>1
    <3> QED
      BY <3>1, <3>2
  <2> HIDE DEF i
  <2>2. prior[i].kind = "finalized" /\ prior[i].key = Current
    BY <1>2, <2>1 DEF Current
  <2>3. Current \in Keys
    <3>1. i \in 1 .. Len(lines) /\ lines[i].key = Current
      BY <1>1, <2>1, <2>2
    <3> QED
      BY <3>1 DEF HistoryInv, LegalHistory
  <2> QED
    BY <2>1, <2>2, <2>3 DEF OpenedInv, Looping
<1>7. \A i \in PriorAttempts(prior, Current) :
        i = 2 * (pos - 1) + 1 /\ prior[i].index = 0
  BY <1>2, <1>4 DEF PriorAttempts, IsAttempt
<1>8. PriorAttempts(prior, Current) = {} => Len(prior) <= 2 * (pos - 1)
  <2> SUFFICES ASSUME Len(prior) > 2 * (pos - 1)
               PROVE  PriorAttempts(prior, Current) # {}
    BY <1>1
  <2> DEFINE i == 2 * (pos - 1) + 1
  <2>1. i \in 1 .. Len(prior) /\ (i + 1) \div 2 = pos /\ i % 2 = 1
    BY <1>1, Halves
  <2> HIDE DEF i
  <2>2. IsAttempt(prior[i], Current)
    BY <1>2, <2>1 DEF Current, IsAttempt
  <2> QED
    BY <2>1, <2>2 DEF PriorAttempts
<1> QED
  BY <1>5, <1>6, <1>7, <1>8

InOrder(s) ==
  \A i \in 1 .. Len(s) :
    /\ (i + 1) \div 2 \in DOMAIN s[i].by.plan
    /\ s[i].key = s[i].by.plan[(i + 1) \div 2]
    /\ s[i].index = 0
    /\ s[i].kind = IF i % 2 = 1 THEN "attempt" ELSE "finalized"

(* The record an append of the run adds is the next one of the plan. *)
LEMMA NextInOrder ==
  ASSUME TypeInv, FilesInv, RunInv, RecordInv, CommitInv, OrderInv, foreign = 0,
         phase \in {"recording", "finalizing"}, pc = "write", pending.key = Current
  PROVE  InOrder(Append(lines, pending))
<1> DEFINE n == Len(lines) + 1
           t == Append(lines, pending)
<1>1. /\ lines \in Seq(Event) /\ pending \in Event /\ pos \in Nat \ {0}
      /\ pos \in DOMAIN plan
  BY DEF TypeInv, TypeOK, RunInv, AppendSteps, Looping
<1>2. /\ Len(t) = n /\ t[n] = pending /\ \A i \in 1 .. Len(lines) : t[i] = lines[i]
      /\ \A i \in 1 .. n : i \in 1 .. Len(lines) \/ i = n
  BY <1>1, AppendKeeps
<1>3. pending.by.plan = KeysOf(plan) /\ pending.index = 0
  <2>1. pending.by = want /\ want.plan = KeysOf(plan)
    BY DEF FilesInv, AppendSteps, CommitInv, Looping
  <2>2. pending.index = 0
    BY DEF RecordInv, OrderInv, AppendSteps
  <2> QED
    BY <2>1, <2>2
<1>4. /\ (n + 1) \div 2 = pos
      /\ pending.kind = IF n % 2 = 1 THEN "attempt" ELSE "finalized"
  <2>1. CASE phase = "recording"
    <3>1. n = 2 * (pos - 1) + 1 /\ pending.kind = "attempt"
      BY <1>1, <2>1 DEF OrderInv, Reached, Unwritten, RecordInv, IsAttempt,
         AppendSteps
    <3>2. (n + 1) \div 2 = pos /\ n % 2 = 1
      BY <1>1, <3>1, Halves
    <3> HIDE DEF n
    <3> QED
      BY <3>1, <3>2
  <2>2. CASE phase = "finalizing"
    <3>1. n = 2 * (pos - 1) + 2 /\ pending.kind = "finalized"
      BY <1>1, <2>2 DEF OrderInv, Reached, Unwritten, AppendSteps
    <3>2. (n + 1) \div 2 = pos /\ n % 2 = 0
      BY <1>1, <3>1, Halves
    <3> HIDE DEF n
    <3> QED
      BY <3>1, <3>2
  <2> QED
    BY <2>1, <2>2
<1>5. InOrder(lines)
  BY DEF OrderInv, EvidenceInPlanOrder, InOrder
<1>6. /\ pos \in DOMAIN pending.by.plan
      /\ pending.key = pending.by.plan[pos]
  BY <1>1, <1>3 DEF KeysOf, Current
<1> HIDE DEF n, t
<1>7. InOrder(t)
  BY <1>2, <1>3, <1>4, <1>5, <1>6 DEF InOrder
<1> QED
  BY <1>7 DEF t

LEMMA OrderInvStep ==
  TypeInv /\ HistoryInv /\ FilesInv /\ RunInv /\ RecordInv /\ OpenedInv
    /\ CommitInv /\ OrderInv /\ [RunNext]_allVars => OrderInv'
<1> SUFFICES ASSUME TypeInv, HistoryInv, FilesInv, RunInv, RecordInv, OpenedInv,
                    CommitInv, OrderInv, [RunNext]_allVars
             PROVE  OrderInv'
  OBVIOUS
<1>0. foreign' # 0 => OrderInv'
  BY DEF OrderInv, EvidenceInPlanOrder
<1> SUFFICES ASSUME foreign' = 0 PROVE OrderInv'
  BY <1>0
<1>1. foreign = 0
  <2>1. CASE OtherSession
    BY <2>1 DEF CommitInv, OtherSession, ghostVars
  <2>2. OtherSession \/ foreign' = foreign
    BY DEF RunNext, Invoke, Proceed, StartRun, Opened, RefuseHistory,
       OpenRaised, SkipCompleted, ResumeUnfinished, SendOnce, Answer,
       RecordedThenFinalize, CountTerminal, Return, Cancel, AppendRaised,
       StoreStep, Crash, ghostVars, runVars, allVars
  <2> QED
    BY <2>1, <2>2
<1>2. /\ InOrder(lines) /\ lines \in Seq(Event) /\ Len(lines) \in Nat
      /\ pos \in Nat \ {0}
  BY <1>1 DEF OrderInv, EvidenceInPlanOrder, InOrder, TypeInv, TypeOK, RunInv
<1>3. ASSUME InOrder(lines') PROVE EvidenceInPlanOrder'
  BY <1>3 DEF EvidenceInPlanOrder, InOrder
<1>4. ASSUME phase' \notin Looping, InOrder(lines') PROVE OrderInv'
  BY <1>3, <1>4 DEF OrderInv, Looping
<1>5. CASE Opened
  <2>1. /\ phase' = "loop" /\ pos' = pos /\ lines' = lines /\ prior' = events
        /\ pc = "open"
    BY <1>5 DEF Opened, vars, journalVars
  <2>2. events = lines /\ EvidenceInPlanOrder'
    BY <1>2, <1>3, <2>1 DEF HistoryInv
  <2>3. pos = 1
    BY <1>5 DEF Opened, CommitInv
  <2>4. Len(lines) > 0 \/ Len(lines) = 2 * (pos - 1)
    BY <1>2, <2>3
  <2> QED
    BY <1>2, <2>1, <2>2, <2>3, <2>4 DEF OrderInv, Reached
<1>6. CASE SkipCompleted
  <2>1. /\ phase = "loop" /\ phase' = "loop" /\ pos' = pos + 1 /\ pos <= Len(plan)
        /\ Current \in done /\ UNCHANGED <<lines, prior, plan>>
    BY <1>6 DEF SkipCompleted, AtItem, vars, journalVars
  <2>2. pos \in DOMAIN plan /\ Len(prior) \in Nat
    BY <1>2, <2>1, PlansAssumption DEF RunInv, OpenedInv, Looping
  <2>3. Len(prior) >= 2 * (pos - 1) + 2
    BY <1>1, <2>1, <2>2, RecordsInPlace
  <2>4. Len(lines) = Len(prior)
    BY <1>1, <1>2, <2>1, <2>3 DEF OrderInv, Reached
  <2>5. \/ Len(prior) > 2 * (pos' - 1)
        \/ Len(prior) <= 2 * (pos' - 1) /\ Len(prior) = 2 * (pos' - 1)
    BY <1>2, <2>1, <2>2, <2>3
  <2> QED
    BY <1>2, <1>3, <2>1, <2>4, <2>5 DEF OrderInv, Reached
<1>7. CASE SendOnce
  <2>1. /\ phase = "loop" /\ phase' = "sending" /\ pos' = pos /\ pos <= Len(plan)
        /\ PriorAttempts(prior, Current) = {} /\ UNCHANGED <<lines, prior, plan>>
    BY <1>7 DEF SendOnce, AtItem, vars, journalVars, loopVars
  <2>2. pos \in DOMAIN plan /\ Len(prior) \in Nat
    BY <1>2, <2>1, PlansAssumption DEF RunInv, OpenedInv, Looping
  <2>3. Len(prior) <= 2 * (pos - 1)
    BY <1>1, <2>1, <2>2, RecordsInPlace
  <2>4. Reached(0)
    BY <1>1, <1>2, <2>1, <2>2, <2>3 DEF OrderInv
  <2> QED
    BY <1>2, <1>3, <2>1, <2>3, <2>4 DEF OrderInv, Reached
<1>8. ASSUME NEW r \in Results, Answer(r) PROVE OrderInv'
  <2>1. /\ phase = "sending" /\ phase' = "recording" /\ pc' = "create"
        /\ UNCHANGED <<lines, prior, pos>>
    BY <1>8 DEF Answer, AppendAttempt, AppendBegin, journalVars
  <2> QED
    BY <1>1, <1>2, <1>3, <2>1 DEF OrderInv, Reached, Written
<1>9. CASE RecordedThenFinalize
  <2>1. /\ phase = "recording" /\ pc = "open" /\ phase' = "finalizing"
        /\ pc' = "create" /\ UNCHANGED <<lines, prior, pos>>
        /\ pending'.index = 0 /\ pending'.kind = "finalized"
    BY <1>9 DEF RecordedThenFinalize, Finalize, AppendBegin, journalVars, loopVars
  <2>2. Reached(1) /\ Len(prior) <= 2 * (pos - 1)
    BY <1>1, <2>1 DEF OrderInv, Written
  <2>3. Len(prior) <= 2 * pos - 1
    BY <1>2, <2>1, <2>2 DEF OpenedInv, Looping
  <2> QED
    BY <1>2, <1>3, <2>1, <2>2, <2>3 DEF OrderInv, Reached, Written
<1>10. CASE ResumeUnfinished
  <2>1. /\ phase = "loop" /\ pos <= Len(plan) /\ Current \notin done
        /\ phase' = "finalizing" /\ pc' = "create"
        /\ UNCHANGED <<lines, prior, pos>>
    BY <1>10 DEF ResumeUnfinished, AtItem, Finalize, AppendBegin, journalVars
  <2>2. PICK i \in PriorAttempts(prior, Current) :
          pending'.index = prior[i].index /\ pending'.kind = "finalized"
    BY <1>10 DEF ResumeUnfinished, Finalize, AppendBegin
  <2>3. pos \in DOMAIN plan /\ Len(prior) \in Nat
    BY <1>2, <2>1, PlansAssumption DEF RunInv, OpenedInv, Looping
  <2>4. i = 2 * (pos - 1) + 1 /\ prior[i].index = 0 /\ i \in 1 .. Len(prior)
    BY <1>1, <2>1, <2>2, <2>3, RecordsInPlace DEF PriorAttempts
  <2>5. ~(Len(prior) >= 2 * (pos - 1) + 2)
    BY <1>1, <2>1, <2>3, RecordsInPlace
  <2>6. Len(prior) = 2 * (pos - 1) + 1 /\ Len(prior) <= 2 * pos - 1
    BY <1>2, <2>3, <2>4, <2>5
  <2>7. Reached(1)
    BY <1>1, <1>2, <2>1, <2>6 DEF OrderInv, Reached
  <2> QED
    BY <1>2, <1>3, <2>1, <2>2, <2>4, <2>6, <2>7 DEF OrderInv, Reached, Written
<1>11. CASE CountTerminal
  <2>1. /\ phase = "finalizing" /\ pc = "open" /\ phase' = "loop" /\ pos' = pos + 1
        /\ UNCHANGED <<lines, prior>>
    BY <1>11 DEF CountTerminal, vars, journalVars
  <2>2. Reached(2) /\ Len(prior) <= 2 * pos - 1 /\ Len(prior) \in Nat
    BY <1>1, <2>1 DEF OrderInv, Written, OpenedInv, Looping
  <2>3. Len(lines) = 2 * (pos' - 1) /\ Len(prior) <= 2 * (pos' - 1)
    BY <1>2, <2>1, <2>2 DEF Reached
  <2> QED
    BY <1>2, <1>3, <2>1, <2>3 DEF OrderInv, Reached
<1>12. CASE StoreStep
  <2>1. UNCHANGED <<phase, plan, prior, pos>>
    BY <1>12 DEF StoreStep, runVars, loopVars
  <2>2. CASE phase \in Looping
    <3>1. /\ phase \in {"recording", "finalizing"}
          /\ pc' \in AppendSteps \cup {"open", "poisoned"}
          /\ pc' \in AppendSteps => pending' = pending /\ pc \in AppendSteps
          /\ \/ /\ lines' = lines
                /\ pc' \in Written => pc \in Written
                /\ pc' \in Unwritten => pc \in Unwritten
             \/ /\ lines' = Append(lines, pending)
                /\ pending \in Event /\ pending.key = Current
                /\ pc = "write" /\ pc' = "fsync"
      BY <1>12, <2>2, StoreUnderRun DEF StoreStep
    <3>2. CASE /\ lines' = lines
               /\ pc' \in Written => pc \in Written
               /\ pc' \in Unwritten => pc \in Unwritten
      <4>1. EvidenceInPlanOrder'
        BY <1>2, <1>3, <3>2
      <4>2. /\ phase = "recording" => /\ pc' \in Unwritten => Reached(0)
                                      /\ pc' \in Written => Reached(1)
            /\ phase = "finalizing" => /\ pc' \in Unwritten => Reached(1)
                                       /\ pc' \in Written => Reached(2)
                                       /\ pc' \in AppendSteps =>
                                            /\ pending'.index = 0
                                            /\ pending'.kind = "finalized"
        BY <1>1, <3>1, <3>2 DEF OrderInv
      <4> QED
        BY <1>1, <2>1, <3>1, <3>2, <4>1, <4>2 DEF OrderInv, Reached
    <3>3. CASE /\ lines' = Append(lines, pending)
               /\ pending \in Event /\ pending.key = Current
               /\ pc = "write" /\ pc' = "fsync"
      <4>1. EvidenceInPlanOrder'
        BY <1>1, <1>3, <3>1, <3>3, NextInOrder
      <4>2. Len(lines') = Len(lines) + 1
        BY <1>2, <3>3, AppendKeeps
      <4>3. /\ phase = "recording" => Reached(0)
            /\ phase = "finalizing" => Reached(1) /\ pending.index = 0
                                       /\ pending.kind = "finalized"
            /\ pending' = pending
        BY <1>1, <3>1, <3>3 DEF OrderInv, Unwritten, AppendSteps
      <4>4. /\ phase' = "recording" => Len(lines') = 2 * (pos' - 1) + 1
            /\ phase' = "finalizing" => Len(lines') = 2 * (pos' - 1) + 2
        BY <1>2, <2>1, <4>2, <4>3 DEF Reached
      <4>5. /\ phase = "recording" => Len(prior) <= 2 * (pos - 1)
            /\ phase = "finalizing" => Len(prior) <= 2 * pos - 1
        BY <1>1 DEF OrderInv
      <4> QED
        BY <2>1, <3>1, <3>3, <4>1, <4>3, <4>4, <4>5 DEF OrderInv, Reached, Unwritten
    <3> QED
      BY <3>1, <3>2, <3>3
  <2>3. CASE phase \notin Looping
    <3>1. pc \notin AppendSteps
      BY <1>1, <2>3 DEF CommitInv, Looping
    <3>2. lines' = lines
      BY <1>12, <3>1 DEF StoreStep, Work, EnsureRoot, EnsureRun, EnsureDirectory,
         SyncRoot, SyncRun, SyncLink, SyncDirectory, FindManifest, RefuseOrphan,
         WriteTemp, SyncTemp, LinkManifest, UnlinkTemp, AbandonTemp,
         LoadManifest, RefuseManifest, ScanLine, ScanDone, RefuseJournal,
         OpenJournalFile, WriteSome, WriteRest, SyncJournalFile,
         SyncJournalEntry, AppendReturns, OpenFails, PublishFails, AppendFails,
         journalVars, AppendSteps
    <3> QED
      BY <1>2, <1>4, <2>1, <2>3, <3>2
  <2> QED
    BY <2>2, <2>3
<1>13. CASE Crash
  <2>1. phase' = "idle"
    BY <1>13 DEF Crash, GiveUp
  <2>2. lines' = lines \/ \E n \in 0 .. Len(lines) : lines' = SubSeq(lines, 1, n)
    <3>1. CASE Kill
      BY <3>1 DEF Kill, journalVars
    <3>2. CASE PowerLoss
      <4>1. PICK S \in SUBSET entries, n \in durable .. Len(lines), tail \in BOOLEAN :
              SurvivingFiles(Rooted(S), n, tail)
        BY <3>2 DEF PowerLoss
      <4>2. n \in 0 .. Len(lines) /\ SubSeq(lines, 1, 0) = <<>>
        BY <1>2 DEF TypeInv, TypeOK
      <4>3. lines' = SubSeq(lines, 1, n) \/ lines' = <<>>
        BY <4>1, Zenon DEF SurvivingFiles
      <4>4. 0 \in 0 .. Len(lines)
        BY <1>2
      <4> QED
        BY <4>2, <4>3, <4>4
    <3> QED
      BY <1>13, <3>1, <3>2 DEF Crash
  <2>3. InOrder(lines')
    BY <1>2, <2>2, PrefixIsSeq DEF InOrder
  <2> QED
    BY <1>4, <2>1, <2>3 DEF Looping
<1>14. CASE \/ Invoke \/ RefuseHistory \/ OpenRaised \/ Cancel \/ AppendRaised
            \/ Return \/ OtherSession
  <2>1. phase' \notin Looping /\ lines' = lines
    BY <1>14 DEF Invoke, StartRun, OpenBegin, RefuseHistory, OpenRaised, Cancel,
       AppendRaised, Return, OtherSession, GiveUp, Close, AppendAttempt, Finalize,
       AppendBegin, Looping, vars, journalVars
  <2> QED
    BY <1>2, <1>4, <2>1
<1>15. CASE UNCHANGED allVars
  BY <1>15 DEF allVars, runVars, loopVars, ghostVars, vars, journalVars, callVars,
     OrderInv, EvidenceInPlanOrder, Reached
<1> QED
  BY <1>5, <1>6, <1>7, <1>8, <1>9, <1>10, <1>11, <1>12, <1>13, <1>14, <1>15
  DEF RunNext, Proceed

LEMMA FilesUnderRun == RunSpec => []FilesInv
<1>1. RunInit => FilesInv
  BY FilesInit DEF RunInit
<1>2. TypeInv /\ FilesInv /\ [RunNext]_allVars => FilesInv'
  BY StepIsStoreStep, FilesStep
<1> QED
  BY <1>1, <1>2, StoreInvariant, PTL DEF RunSpec

LEMMA RunInvariant == RunSpec => [](TypeInv /\ HistoryInv /\ FilesInv /\ RunInv
                                    /\ RecordInv /\ OpenedInv)
<1>1. RunSpec => [](TypeInv /\ HistoryInv /\ RunInv)
  BY StoreInvariant, RunInvInit, RunInvStep, PTL DEF RunSpec
<1>2. RunSpec => [](RecordInv /\ OpenedInv)
  BY <1>1, RecordInvInit, RecordInvStep, OpenedInvInit, OpenedInvStep, PTL
  DEF RunSpec
<1> QED
  BY <1>1, <1>2, FilesUnderRun, PTL

(* The journal of a run that nobody else wrote to is, record for record, what
   an undisturbed run would have written so far: for any plan, whatever kills,
   errors, power losses, cancellations and resumptions came between. *)
THEOREM JournalInPlanOrder == RunSpec => []EvidenceInPlanOrder
<1>1. OrderInv => EvidenceInPlanOrder
  BY DEF OrderInv
<1> QED
  BY <1>1, RunInvariant, CommitInvInit, CommitInvStep, OrderInvInit,
     OrderInvStep, PTL DEF RunSpec

-----------------------------------------------------------------------------
(* The summary.  Every count is the size of a set of executions the loop   *)
(* has been to; what the disk says of these does not change any more.      *)

FinalizingInv ==
  phase = "finalizing" =>
    \E i \in 1 .. Len(lines) :
      /\ IsAttempt(lines[i], Current) /\ lines[i].result = terminal
      /\ pc \in AppendSteps => /\ pending.kind = "finalized"
                               /\ pending.index = lines[i].index
      /\ pc \in Written =>
           \E j \in 1 .. Len(lines) : /\ lines[j].kind = "finalized"
                                      /\ lines[j].key = Current
                                      /\ lines[j].index = lines[i].index

LEMMA FinalizingInvInit == RunInit => FinalizingInv
  BY DEF RunInit, FinalizingInv

LEMMA FinalizingInvStep ==
  TypeInv /\ RunInv /\ RecordInv /\ OpenedInv /\ FinalizingInv
    /\ [RunNext]_allVars => FinalizingInv'
<1> SUFFICES ASSUME TypeInv, RunInv, RecordInv, OpenedInv, FinalizingInv,
                    [RunNext]_allVars, phase' = "finalizing"
             PROVE  FinalizingInv'
  BY DEF FinalizingInv
<1>1. CASE RecordedThenFinalize
  <2>1. /\ phase = "recording" /\ pc = "open" /\ pc' = "create"
        /\ pending'.kind = "finalized" /\ pending'.index = 0
        /\ UNCHANGED <<lines, plan, pos, terminal>>
    BY <1>1 DEF RecordedThenFinalize, Finalize, AppendBegin, loopVars, journalVars
  <2>2. PICK i \in 1 .. Len(lines) : /\ IsAttempt(lines[i], Current)
                                     /\ lines[i].index = 0
                                     /\ lines[i].result = terminal
    BY <2>1 DEF RecordInv, Written
  <2> QED
    BY <2>1, <2>2 DEF FinalizingInv, IsAttempt, Current, Written
<1>2. CASE ResumeUnfinished
  <2>1. PICK i \in PriorAttempts(prior, Current) :
          /\ pending'.kind = "finalized" /\ pending'.index = prior[i].index
          /\ terminal' = prior[i].result /\ pc' = "create"
          /\ UNCHANGED <<lines, plan, pos>>
    BY <1>2 DEF ResumeUnfinished, Finalize, AppendBegin, journalVars
  <2>2. prior[i] = lines[i] /\ i \in 1 .. Len(lines) /\ IsAttempt(prior[i], Current)
    BY <1>2 DEF ResumeUnfinished, AtItem, OpenedInv, Looping, PriorAttempts,
       TypeInv, TypeOK
  <2> QED
    BY <2>1, <2>2 DEF FinalizingInv, IsAttempt, Current, Written
<1>3. CASE StoreStep
  <2>1. UNCHANGED <<phase, plan, pos, terminal>> /\ phase \in Looping
    BY <1>3 DEF StoreStep, runVars, loopVars, Looping
  <2>2. /\ pc' \in AppendSteps => pending' = pending /\ pc \in AppendSteps
        /\ \/ lines' = lines /\ (pc' \in Written => pc \in Written)
           \/ /\ lines' = Append(lines, pending) /\ pending \in Event
              /\ pending.key = Current /\ pc = "write"
    BY <1>3, <2>1, StoreUnderRun DEF StoreStep
  <2>3. PICK i \in 1 .. Len(lines) :
          /\ IsAttempt(lines[i], Current) /\ lines[i].result = terminal
          /\ pc \in AppendSteps => /\ pending.kind = "finalized"
                                   /\ pending.index = lines[i].index
          /\ pc \in Written =>
               \E j \in 1 .. Len(lines) : /\ lines[j].kind = "finalized"
                                          /\ lines[j].key = Current
                                          /\ lines[j].index = lines[i].index
    BY <2>1 DEF FinalizingInv
  <2>4. CASE lines' = lines /\ (pc' \in Written => pc \in Written)
    BY <2>1, <2>2, <2>3, <2>4 DEF FinalizingInv, IsAttempt, Current
  <2>5. CASE /\ lines' = Append(lines, pending) /\ pending \in Event
             /\ pending.key = Current /\ pc = "write"
    <3>1. lines \in Seq(Event)
      BY DEF TypeInv, TypeOK
    <3>2. /\ Len(lines') \in 1 .. Len(lines') /\ lines'[Len(lines')] = pending
          /\ i \in 1 .. Len(lines') /\ lines'[i] = lines[i]
      BY <2>5, <3>1, AppendKeeps
    <3>3. /\ pending.kind = "finalized" /\ pending.key = Current
          /\ pending.index = lines[i].index
      BY <2>3, <2>5 DEF AppendSteps
    <3> QED
      BY <2>1, <2>2, <2>3, <3>2, <3>3 DEF FinalizingInv, IsAttempt, Current
  <2> QED
    BY <2>2, <2>4, <2>5
<1>4. CASE UNCHANGED allVars
  BY <1>4 DEF allVars, runVars, loopVars, vars, journalVars, callVars,
     FinalizingInv, IsAttempt, Current
<1>5. RecordedThenFinalize \/ ResumeUnfinished \/ StoreStep \/ UNCHANGED allVars
  BY DEF RunNext, Invoke, Proceed, StartRun, Opened, RefuseHistory, OpenRaised,
     SkipCompleted, SendOnce, Answer, CountTerminal, Return, Cancel,
     AppendRaised, OtherSession, Crash, GiveUp, AtItem
<1> QED
  BY <1>1, <1>2, <1>3, <1>4, <1>5

(* What the disk shows of an execution, by the places of its records. *)
LEMMA SuccessLines ==
  ASSUME NEW k
  PROVE  SuccessOnDisk(k) <=>
           \E i, j \in 1 .. Len(lines) :
             /\ lines[j].kind = "finalized" /\ lines[j].key = k
             /\ IsAttempt(lines[i], k) /\ lines[i].index = lines[j].index
             /\ lines[i].result = Success
  BY DEF SuccessOnDisk, Evidence

LEMMA FinalLines ==
  ASSUME NEW k \in Keys
  PROVE  k \in FinalOnDisk <=>
           \E j \in 1 .. Len(lines) : lines[j].kind = "finalized" /\ lines[j].key = k
  BY DEF FinalOnDisk, Evidence

(* The result of the execution just finalized is the one on disk. *)
LEMMA TerminalIsOnDisk ==
  ASSUME TypeInv, HistoryInv, FinalizingInv, phase = "finalizing", pc = "open"
  PROVE  /\ Current \in FinalOnDisk
         /\ SuccessOnDisk(Current) <=> terminal = Success
<1>1. PICK i \in 1 .. Len(lines), j \in 1 .. Len(lines) :
        /\ IsAttempt(lines[i], Current) /\ lines[i].result = terminal
        /\ lines[j].kind = "finalized" /\ lines[j].key = Current
        /\ lines[j].index = lines[i].index
  BY DEF FinalizingInv, Written
<1>2. /\ LegalHistory(lines) /\ \A n \in 1 .. Len(lines) : lines[n] \in Event
      /\ Len(lines) \in Nat
  BY DEF HistoryInv, TypeInv, TypeOK
<1>3. Current \in Keys
  BY <1>1, <1>2 DEF LegalHistory
<1>4. ASSUME NEW n \in 1 .. Len(lines), lines[n].kind = "finalized",
             lines[n].key = Current
      PROVE  n = j
  BY <1>1, <1>2, <1>4 DEF LegalHistory
<1>5. ASSUME NEW n \in 1 .. Len(lines), IsAttempt(lines[n], Current),
             lines[n].index = lines[i].index
      PROVE  n = i
  <2>1. lines[n].index \in Nat /\ lines[i].index \in Nat
    BY <1>2 DEF Event
  <2>2. /\ lines[n].kind = "attempt" /\ lines[n].key = Current
        /\ lines[i].kind = "attempt" /\ lines[i].key = Current
    BY <1>1, <1>5 DEF IsAttempt
  <2>3. n < i => lines[n].index < lines[i].index
    BY <1>2, <1>5, <2>2 DEF LegalHistory
  <2>4. i < n => lines[i].index < lines[n].index
    BY <1>1, <1>2, <2>2 DEF LegalHistory
  <2> QED
    BY <1>2, <1>5, <2>1, <2>3, <2>4
<1>6. Current \in FinalOnDisk
  BY <1>1, <1>3, FinalLines
<1>7. SuccessOnDisk(Current) <=> terminal = Success
  BY <1>1, <1>4, <1>5, SuccessLines
<1> QED
  BY <1>6, <1>7

(* A record of one execution says nothing of another. *)
LEMMA OthersUntouched ==
  ASSUME NEW e \in Event, lines \in Seq(Event), lines' = Append(lines, e)
  PROVE  /\ \A k : e.key # k => (SuccessOnDisk(k)' <=> SuccessOnDisk(k))
         /\ FinalOnDisk \subseteq FinalOnDisk'
<1> DEFINE t == Append(lines, e)
<1>1. /\ Len(t) = Len(lines) + 1 /\ Len(lines) \in Nat /\ t[Len(lines) + 1] = e
      /\ \A i \in 1 .. Len(lines) : t[i] = lines[i] /\ i \in 1 .. Len(t)
      /\ \A i \in 1 .. Len(t) : i \in 1 .. Len(lines) \/ i = Len(lines) + 1
      /\ lines' = t
  BY AppendKeeps
<1> HIDE DEF t
<1>2. ASSUME NEW k, e.key # k
      PROVE  SuccessOnDisk(k)' <=> SuccessOnDisk(k)
  <2>1. SuccessOnDisk(k)' <=>
          \E i, j \in 1 .. Len(t) :
             /\ t[j].kind = "finalized" /\ t[j].key = k
             /\ IsAttempt(t[i], k) /\ t[i].index = t[j].index
             /\ t[i].result = Success
    BY <1>1 DEF SuccessOnDisk, Evidence, IsAttempt
  <2>2. \A i \in 1 .. Len(t) : t[i].key = k => i \in 1 .. Len(lines) /\ t[i] = lines[i]
    BY <1>1, <1>2
  <2> QED
    BY <1>1, <2>1, <2>2, SuccessLines DEF IsAttempt
<1>3. FinalOnDisk \subseteq FinalOnDisk'
  BY <1>1 DEF FinalOnDisk, Evidence
<1> QED
  BY <1>2, <1>3

\* The executions the loop is through with, and those it has begun.
Before == {plan[j].key : j \in {i \in DOMAIN plan : i < pos}}
Begun == IF phase = "loop" THEN Before ELSE Before \cup {Current}

Unsent(S) == {k \in S \ done : PriorAttempts(prior, k) = {}}
Unfinished(S) == {k \in S \ done : PriorAttempts(prior, k) # {}}
Succeeded(S) == {k \in S \ done : SuccessOnDisk(k)}
Failed(S) == {k \in S \ done : ~SuccessOnDisk(k)}

CountInv ==
  /\ phase = "finished" => pc = "absent" /\ SummaryIsEvidence
  /\ phase = "opening" => /\ pos = 1 /\ skipped = 0 /\ resumed = 0 /\ sent = 0
                          /\ finalized = 0 /\ successes = 0 /\ failures = 0
  /\ phase \in Looping =>
       /\ pos <= Len(plan) + 1
       /\ IsFiniteSet(Before) /\ Before \subseteq FinalOnDisk
       /\ skipped \in Nat /\ finalized \in Nat /\ skipped + finalized = pos - 1
       /\ skipped = Cardinality(Before \cap done)
       /\ sent = Cardinality(Unsent(Begun))
       /\ resumed = Cardinality(Unfinished(Begun))
       /\ successes = Cardinality(Succeeded(Before))
       /\ failures = Cardinality(Failed(Before))

LEMMA CountInvInit == RunInit => CountInv
  BY DEF RunInit, CountInv, Looping

(* Going on to the next position adds the execution at this one. *)
LEMMA BeforeGrows ==
  ASSUME RunInv, CountInv, phase \in Looping, pos \in DOMAIN plan
  PROVE  /\ {plan[j].key : j \in {i \in DOMAIN plan : i < pos + 1}}
              = Before \cup {Current}
         /\ Current \notin Before
         /\ pos + 1 <= Len(plan) + 1
         /\ IsFiniteSet(Before) /\ IsFiniteSet(Before \cup {Current})
<1>1. /\ plan \in Plans /\ pos \in Nat
      /\ \A i, j \in DOMAIN plan : plan[i].key = plan[j].key => i = j
  BY DEF RunInv, Looping
<1>2. DOMAIN plan = 1 .. Len(plan) /\ Len(plan) \in Nat
  BY <1>1, PlansAssumption
<1>3. {i \in DOMAIN plan : i < pos + 1} = {i \in DOMAIN plan : i < pos} \cup {pos}
  BY <1>1, <1>2
<1>4. {plan[j].key : j \in {i \in DOMAIN plan : i < pos + 1}} = Before \cup {Current}
  BY <1>3 DEF Before, Current
<1>5. Current \notin Before
  BY <1>1, <1>2 DEF Before, Current
<1>6. IsFiniteSet(Before)
  BY DEF CountInv
<1> QED
  BY <1>1, <1>2, <1>4, <1>5, <1>6, FS_AddElement

(* Every size goes up by one with an element, and is a number. *)
LEMMA OneMore ==
  ASSUME NEW S, NEW k, IsFiniteSet(S), k \notin S, NEW T, T \subseteq S
  PROVE  /\ Cardinality(T) \in Nat
         /\ Cardinality(T \cup {k}) = Cardinality(T) + 1
  BY FS_Subset, FS_AddElement, FS_CardinalityType

LEMMA SummaryCounts ==
  ASSUME CountInv, phase = "loop", RunInv, pos > Len(plan)
  PROVE  InPlan = Before /\ Len(plan) = skipped + finalized
<1>1. DOMAIN plan = 1 .. Len(plan) /\ Len(plan) \in Nat /\ pos = Len(plan) + 1
  BY PlansAssumption DEF RunInv, Looping, CountInv
<1>2. {i \in DOMAIN plan : i < pos} = DOMAIN plan
  BY <1>1
<1>3. InPlan = Before
  BY <1>2 DEF InPlan, Before
<1>4. Len(plan) = skipped + finalized
  BY <1>1 DEF CountInv, Looping
<1> QED
  BY <1>3, <1>4

LEMMA CountInvStep ==
  TypeInv /\ HistoryInv /\ RunInv /\ OpenedInv /\ FinalizingInv /\ CountInv
    /\ [RunNext]_allVars => CountInv'
<1> SUFFICES ASSUME TypeInv, HistoryInv, RunInv, OpenedInv, FinalizingInv,
                    CountInv, [RunNext]_allVars
             PROVE  CountInv'
  OBVIOUS
<1>0. phase \in Looping =>
        /\ pos <= Len(plan) + 1 /\ pos \in Nat \ {0}
        /\ IsFiniteSet(Before) /\ Before \subseteq FinalOnDisk
        /\ skipped \in Nat /\ finalized \in Nat /\ skipped + finalized = pos - 1
        /\ skipped = Cardinality(Before \cap done)
        /\ sent = Cardinality(Unsent(Begun))
        /\ resumed = Cardinality(Unfinished(Begun))
        /\ successes = Cardinality(Succeeded(Before))
        /\ failures = Cardinality(Failed(Before))
  BY DEF CountInv, RunInv
<1>1. CASE Opened
  <2>1. /\ phase = "opening" /\ phase' = "loop" /\ plan' = plan /\ pos' = pos
        /\ UNCHANGED countVars
    BY <1>1 DEF Opened
  <2>2. /\ plan \in Plans /\ pos = 1 /\ skipped = 0 /\ resumed = 0 /\ sent = 0
        /\ finalized = 0 /\ successes = 0 /\ failures = 0
    BY <2>1 DEF RunInv, Looping, CountInv
  <2>3. Len(plan) \in Nat /\ DOMAIN plan = 1 .. Len(plan)
    BY <2>2, PlansAssumption
  <2>4. Before' = {} /\ Begun' = {}
    BY <2>1, <2>2, <2>3 DEF Before, Begun
  <2>5. /\ Unsent({})' = {} /\ Unfinished({})' = {}
        /\ Succeeded({})' = {} /\ Failed({})' = {}
    BY DEF Unsent, Unfinished, Succeeded, Failed
  <2> QED
    BY <2>1, <2>2, <2>3, <2>4, <2>5, FS_EmptySet
    DEF CountInv, countVars, Looping, Unsent, Unfinished, Succeeded, Failed
<1>2. CASE SkipCompleted
  <2>1. /\ phase = "loop" /\ phase' = "loop" /\ pos' = pos + 1 /\ pos <= Len(plan)
        /\ Current \in done /\ skipped' = skipped + 1
        /\ UNCHANGED <<lines, plan, done, prior, resumed, sent, finalized,
                       successes, failures>>
    BY <1>2 DEF SkipCompleted, AtItem, vars, journalVars
  <2>2. pos \in DOMAIN plan
    BY <2>1, PlansAssumption DEF RunInv, Looping
  <2>3. /\ Before' = Before \cup {Current} /\ Begun' = Before \cup {Current}
        /\ Begun = Before /\ Current \notin Before
        /\ pos' <= Len(plan) + 1 /\ IsFiniteSet(Before) /\ IsFiniteSet(Before')
    BY <2>1, <2>2, BeforeGrows DEF Before, Begun, Looping
  <2>4. Cardinality(Before' \cap done) = Cardinality(Before \cap done) + 1
    <3>1. Before' \cap done = (Before \cap done) \cup {Current}
      BY <2>1, <2>3
    <3> QED
      BY <2>3, <3>1, OneMore
  <2>5. /\ Unsent(Begun)' = Unsent(Begun) /\ Unfinished(Begun)' = Unfinished(Begun)
        /\ Succeeded(Before)' = Succeeded(Before) /\ Failed(Before)' = Failed(Before)
    BY <2>1, <2>3 DEF Unsent, Unfinished, Succeeded, Failed, SuccessOnDisk, Evidence
  <2>6. Before' \subseteq FinalOnDisk'
    <3>1. Current \in FinalOnDisk
      BY <2>1, FinalLines DEF OpenedInv, Looping, TypeInv, TypeOK
    <3> QED
      BY <1>0, <2>1, <2>3, <3>1 DEF FinalOnDisk, Evidence, Looping
  <2> QED
    BY <1>0, <2>1, <2>3, <2>4, <2>5, <2>6 DEF CountInv, Looping
<1>3. CASE SendOnce
  <2>1. /\ phase = "loop" /\ phase' = "sending" /\ pos <= Len(plan)
        /\ Current \notin done /\ PriorAttempts(prior, Current) = {}
        /\ sent' = sent + 1
        /\ UNCHANGED <<lines, plan, pos, done, prior, skipped, resumed, finalized,
                       successes, failures>>
    BY <1>3 DEF SendOnce, AtItem, vars, journalVars, loopVars
  <2>2. pos \in DOMAIN plan
    BY <2>1, PlansAssumption DEF RunInv, Looping
  <2>3. /\ Before' = Before /\ Begun' = Before \cup {Current}
        /\ Begun = Before /\ Current \notin Before /\ IsFiniteSet(Before)
    BY <2>1, <2>2, BeforeGrows DEF Before, Begun, Looping, Current
  <2>4. Cardinality(Unsent(Begun)') = Cardinality(Unsent(Begun)) + 1
    <3>1. Unsent(Begun)' = Unsent(Begun) \cup {Current} /\ Unsent(Begun) \subseteq Before
      BY <2>1, <2>3 DEF Unsent
    <3> QED
      BY <2>3, <3>1, OneMore
  <2>5. Unfinished(Begun)' = Unfinished(Begun)
    BY <2>1, <2>3 DEF Unfinished
  <2>6. Succeeded(Before)' = Succeeded(Before) /\ Failed(Before)' = Failed(Before)
    BY <2>1, <2>3 DEF Succeeded, Failed, SuccessOnDisk, Evidence
  <2>7. FinalOnDisk' = FinalOnDisk
    BY <2>1 DEF FinalOnDisk, Evidence
  <2> QED
    BY <1>0, <2>1, <2>3, <2>4, <2>5, <2>6, <2>7 DEF CountInv, Looping
<1>4. CASE ResumeUnfinished
  <2>1. /\ phase = "loop" /\ phase' = "finalizing" /\ pos <= Len(plan)
        /\ Current \notin done /\ PriorAttempts(prior, Current) # {}
        /\ resumed' = resumed + 1
        /\ UNCHANGED <<lines, plan, pos, done, prior, skipped, sent, finalized,
                       successes, failures>>
    BY <1>4 DEF ResumeUnfinished, AtItem, Finalize, AppendBegin, journalVars
  <2>2. pos \in DOMAIN plan
    BY <2>1, PlansAssumption DEF RunInv, Looping
  <2>3. /\ Before' = Before /\ Begun' = Before \cup {Current}
        /\ Begun = Before /\ Current \notin Before /\ IsFiniteSet(Before)
    BY <2>1, <2>2, BeforeGrows DEF Before, Begun, Looping, Current
  <2>4. Cardinality(Unfinished(Begun)') = Cardinality(Unfinished(Begun)) + 1
    <3>1. /\ Unfinished(Begun)' = Unfinished(Begun) \cup {Current}
          /\ Unfinished(Begun) \subseteq Before
      BY <2>1, <2>3 DEF Unfinished
    <3> QED
      BY <2>3, <3>1, OneMore
  <2>5. Unsent(Begun)' = Unsent(Begun)
    BY <2>1, <2>3 DEF Unsent
  <2>6. Succeeded(Before)' = Succeeded(Before) /\ Failed(Before)' = Failed(Before)
    BY <2>1, <2>3 DEF Succeeded, Failed, SuccessOnDisk, Evidence
  <2>7. FinalOnDisk' = FinalOnDisk
    BY <2>1 DEF FinalOnDisk, Evidence
  <2> QED
    BY <1>0, <2>1, <2>3, <2>4, <2>5, <2>6, <2>7 DEF CountInv, Looping
<1>5. CASE RecordedThenFinalize \/ \E r \in Results : Answer(r)
  <2>1. /\ phase \in Looping \ {"loop"} /\ phase' \in Looping \ {"loop"}
        /\ UNCHANGED <<lines, plan, pos, done, prior, countVars>>
    BY <1>5 DEF RecordedThenFinalize, Answer, AppendAttempt, Finalize,
       AppendBegin, Looping, loopVars, journalVars
  <2>2. /\ Before' = Before /\ Begun' = Begun /\ FinalOnDisk' = FinalOnDisk
        /\ Unsent(Begun)' = Unsent(Begun) /\ Unfinished(Begun)' = Unfinished(Begun)
        /\ Succeeded(Before)' = Succeeded(Before) /\ Failed(Before)' = Failed(Before)
    BY <2>1 DEF Before, Begun, Current, FinalOnDisk, Evidence, Unsent, Unfinished,
       Succeeded, Failed, SuccessOnDisk
  <2> QED
    BY <1>0, <2>1, <2>2 DEF CountInv, Looping, countVars
<1>6. CASE CountTerminal
  <2>1. /\ phase = "finalizing" /\ pc = "open" /\ phase' = "loop" /\ pos' = pos + 1
        /\ finalized' = finalized + 1
        /\ IF terminal = Success
           THEN successes' = successes + 1 /\ failures' = failures
           ELSE failures' = failures + 1 /\ successes' = successes
        /\ UNCHANGED <<lines, plan, done, prior, skipped, resumed, sent>>
    BY <1>6 DEF CountTerminal, vars, journalVars
  <2>2. pos \in DOMAIN plan /\ Current \notin done
    BY <2>1 DEF RunInv, OpenedInv, Looping
  <2>3. /\ Before' = Before \cup {Current} /\ Begun' = Before \cup {Current}
        /\ Begun = Before \cup {Current} /\ Current \notin Before
        /\ pos' <= Len(plan) + 1 /\ IsFiniteSet(Before) /\ IsFiniteSet(Before')
    BY <2>1, <2>2, BeforeGrows DEF Before, Begun, Looping
  <2>4. /\ Before' \cap done = Before \cap done
        /\ Unsent(Begun)' = Unsent(Begun) /\ Unfinished(Begun)' = Unfinished(Begun)
    BY <2>1, <2>2, <2>3 DEF Unsent, Unfinished
  <2>5. Current \in FinalOnDisk /\ (SuccessOnDisk(Current) <=> terminal = Success)
    BY <2>1, TerminalIsOnDisk
  <2>6. \A k : SuccessOnDisk(k)' <=> SuccessOnDisk(k)
    BY <2>1 DEF SuccessOnDisk, Evidence
  <2>7. /\ successes' = Cardinality(Succeeded(Before)')
        /\ failures' = Cardinality(Failed(Before)')
    <3>1. /\ Cardinality(Succeeded(Before) \cup {Current}) = successes + 1
          /\ Cardinality(Failed(Before) \cup {Current}) = failures + 1
          /\ Cardinality(Succeeded(Before)) = successes
          /\ Cardinality(Failed(Before)) = failures
      <4>1. Succeeded(Before) \subseteq Before /\ Failed(Before) \subseteq Before
        BY DEF Succeeded, Failed
      <4>2. /\ successes = Cardinality(Succeeded(Before))
            /\ failures = Cardinality(Failed(Before))
        BY <1>0, <2>1 DEF Looping
      <4> QED
        BY <2>3, <4>1, <4>2, OneMore
    <3>2. CASE terminal = Success
      <4>1. /\ Succeeded(Before)' = Succeeded(Before) \cup {Current}
            /\ Failed(Before)' = Failed(Before)
        BY <2>1, <2>2, <2>3, <2>5, <2>6, <3>2 DEF Succeeded, Failed
      <4> QED
        BY <2>1, <3>1, <3>2, <4>1
    <3>3. CASE terminal # Success
      <4>1. /\ Succeeded(Before)' = Succeeded(Before)
            /\ Failed(Before)' = Failed(Before) \cup {Current}
        BY <2>1, <2>2, <2>3, <2>5, <2>6, <3>3 DEF Succeeded, Failed
      <4> QED
        BY <2>1, <3>1, <3>3, <4>1
    <3> QED
      BY <3>2, <3>3
  <2>8. Before' \subseteq FinalOnDisk'
    BY <1>0, <2>1, <2>3, <2>5 DEF FinalOnDisk, Evidence, Looping
  <2>9. skipped' = Cardinality(Before' \cap done') /\ finalized' \in Nat
        /\ skipped' + finalized' = pos' - 1 /\ skipped' \in Nat
    <3>1. /\ pos \in Nat /\ skipped \in Nat /\ finalized \in Nat
          /\ skipped + finalized = pos - 1 /\ skipped = Cardinality(Before \cap done)
      BY <1>0, <2>1 DEF Looping
    <3>2. Before' \cap done' = Before \cap done
      BY <2>1, <2>4
    <3>3. /\ skipped' = skipped /\ finalized' = finalized + 1 /\ pos' = pos + 1
      BY <2>1
    <3>4. skipped' = Cardinality(Before' \cap done')
      <4>1. Cardinality(Before' \cap done') = Cardinality(Before \cap done)
        BY ONLY <3>2, Zenon
      <4> QED
        BY ONLY <3>1, <3>3, <4>1
    <3>5. finalized' \in Nat /\ skipped' + finalized' = pos' - 1 /\ skipped' \in Nat
      BY ONLY <3>1, <3>3
    <3> QED
      BY ONLY <3>4, <3>5
  <2> QED
    BY <1>0, <2>1, <2>3, <2>4, <2>7, <2>8, <2>9 DEF CountInv, Looping
<1>7. CASE Return
  <2>1. /\ phase = "loop" /\ pos > Len(plan) /\ phase' = "finished" /\ pc' = "absent"
        /\ UNCHANGED <<lines, plan, done, prior>>
        /\ summary' = [planned |-> Len(plan), skipped_completed |-> skipped,
                       resumed_unfinished |-> resumed, attempts_sent |-> sent,
                       executions_finalized |-> finalized,
                       successes |-> successes, failures |-> failures]
    BY <1>7 DEF Return, Close, Forget, loopVars, journalVars
  <2>2. InPlan = Before /\ Len(plan) = skipped + finalized /\ Begun = Before
    BY <2>1, SummaryCounts DEF Begun
  <2>3. InPlan' = InPlan /\ FinalOnDisk' = FinalOnDisk
        /\ \A k : SuccessOnDisk(k)' <=> SuccessOnDisk(k)
    BY <2>1 DEF InPlan, FinalOnDisk, SuccessOnDisk, Evidence
  <2>4. /\ InPlan \subseteq FinalOnDisk
        /\ skipped = Cardinality(InPlan \cap done)
        /\ sent = Cardinality({k \in InPlan \ done : PriorAttempts(prior, k) = {}})
        /\ resumed = Cardinality({k \in InPlan \ done : PriorAttempts(prior, k) # {}})
        /\ successes = Cardinality({k \in InPlan \ done : SuccessOnDisk(k)})
        /\ failures = Cardinality({k \in InPlan \ done : ~SuccessOnDisk(k)})
    BY <1>0, <2>1, <2>2 DEF Looping, Unsent, Unfinished, Succeeded, Failed
  <2>5. SummaryIsEvidence'
    BY <2>1, <2>2, <2>3, <2>4 DEF SummaryIsEvidence
  <2> QED
    BY <2>1, <2>5 DEF CountInv, Looping
<1>8. CASE StoreStep
  <2>1. /\ UNCHANGED <<phase, plan, done, prior, pos, terminal, countVars, summary>>
        /\ pc # "absent"
    BY <1>8, StoreGoesOn DEF StoreStep, runVars, loopVars
  <2>2. CASE phase \in Looping
    <3>1. /\ phase \in {"recording", "finalizing"}
          /\ \/ lines' = lines
             \/ lines' = Append(lines, pending) /\ pending \in Event
                /\ pending.key = Current
      BY <1>8, <2>2, StoreUnderRun DEF StoreStep
    <3>2. lines \in Seq(Event) /\ pos \in DOMAIN plan
      BY <3>1 DEF TypeInv, TypeOK, RunInv, Looping
    <3>3. Current \notin Before
      BY <2>2, <3>2, BeforeGrows
    <3>4. /\ FinalOnDisk \subseteq FinalOnDisk'
          /\ \A k \in Before : SuccessOnDisk(k)' <=> SuccessOnDisk(k)
      <4>1. CASE lines' = lines
        BY <4>1 DEF FinalOnDisk, SuccessOnDisk, Evidence
      <4>2. CASE lines' = Append(lines, pending) /\ pending \in Event
                 /\ pending.key = Current
        <5>1. /\ \A k : pending.key # k => (SuccessOnDisk(k)' <=> SuccessOnDisk(k))
              /\ FinalOnDisk \subseteq FinalOnDisk'
          BY <3>2, <4>2, OthersUntouched
        <5> QED
          BY <3>3, <4>2, <5>1
      <4> QED
        BY <3>1, <4>1, <4>2
    <3>5. /\ Before' = Before /\ Begun' = Begun
          /\ Unsent(Begun)' = Unsent(Begun) /\ Unfinished(Begun)' = Unfinished(Begun)
      BY <2>1 DEF Before, Begun, Current, Unsent, Unfinished
    <3>6. Succeeded(Before)' = Succeeded(Before) /\ Failed(Before)' = Failed(Before)
      BY <2>1, <3>4, <3>5 DEF Succeeded, Failed
    <3> QED
      BY <1>0, <2>1, <2>2, <3>1, <3>4, <3>5, <3>6 DEF CountInv, Looping, countVars
  <2>3. CASE phase \notin Looping
    BY <2>1, <2>3 DEF CountInv, Looping, countVars
  <2> QED
    BY <2>2, <2>3
<1>9. ASSUME NEW p \in Plans, NEW m \in Manifests, StartRun(p, m) PROVE CountInv'
  BY <1>9 DEF StartRun, ResetLoop, ZeroCounts, CountInv, Looping
<1>10. CASE \/ RefuseHistory \/ OpenRaised \/ Cancel \/ AppendRaised \/ Crash
            \/ OtherSession
  <2>1. phase' \in {"idle", "other"}
    BY <1>10 DEF RefuseHistory, OpenRaised, Cancel, AppendRaised, Crash,
       OtherSession, GiveUp
  <2> QED
    BY <2>1 DEF CountInv, Looping
<1>11. CASE UNCHANGED allVars
  <2>1. UNCHANGED <<phase, plan, done, prior, pos, terminal, countVars, summary,
                    lines, pc>>
    BY <1>11 DEF allVars, runVars, loopVars, vars, journalVars
  <2>2. /\ Before' = Before /\ Begun' = Begun /\ FinalOnDisk' = FinalOnDisk
        /\ Unsent(Begun)' = Unsent(Begun) /\ Unfinished(Begun)' = Unfinished(Begun)
        /\ Succeeded(Before)' = Succeeded(Before) /\ Failed(Before)' = Failed(Before)
        /\ InPlan' = InPlan /\ \A k : SuccessOnDisk(k)' <=> SuccessOnDisk(k)
    BY <2>1 DEF Before, Begun, Current, FinalOnDisk, Evidence, Unsent, Unfinished,
       Succeeded, Failed, SuccessOnDisk, InPlan
  <2>3. SummaryIsEvidence => SummaryIsEvidence'
    BY <2>1, <2>2 DEF SummaryIsEvidence
  <2> QED
    BY <2>1, <2>2, <2>3 DEF CountInv, Looping, countVars
<1> QED
  BY <1>1, <1>2, <1>3, <1>4, <1>5, <1>6, <1>7, <1>8, <1>9, <1>10, <1>11
  DEF RunNext, Invoke, Proceed

(* The summary an invocation returns counts what the disk shows: for any plan,
   whatever was recorded before it by whoever used the store. *)
THEOREM SummaryAlwaysEvidence == RunSpec => []SummaryIsEvidence
<1>1. CountInv => SummaryIsEvidence
  BY DEF CountInv, SummaryIsEvidence
<1> QED
  BY <1>1, RunInvariant, FinalizingInvInit, FinalizingInvStep, CountInvInit,
     CountInvStep, PTL DEF RunSpec
=============================================================================
