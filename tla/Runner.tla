------------------------------- MODULE Runner -------------------------------
(***************************************************************************)
(* run_plan (runner.py) over the evidence store: the strictly sequential   *)
(* execution of a plan, one request at a time, and its resumption after a  *)
(* cancellation, an error or a kill at any point.  All steps of the store  *)
(* are those of ResultJournal; between two runs another caller of the same *)
(* public store may add records of its own.                                *)
(***************************************************************************)
EXTENDS ResultJournal, FiniteSets

CONSTANTS
  Plans,        \* plans a caller may pass: sequences of planned executions
  Success,      \* the result whose status is "success"
  NoSummary,    \* no invocation has returned
  MaxForeign,   \* bound: records another caller of the store adds
  MaxCancels    \* bound: cancellations of one execution

\* A plan is a sequence.
ASSUME PlansAssumption ==
  \A p \in Plans : Len(p) \in Nat /\ DOMAIN p = 1 .. Len(p)

MAX_ATTEMPTS == 1

VARIABLES
  phase,        \* where run_plan is, or "idle", "finished", "other"
  plan,         \* the snapshot of the plan
  done,         \* completed: the keys that were finalized when it opened
  prior,        \* attempts: the records found when it opened
  pos,          \* position in the plan
  terminal,     \* result of the execution at pos
  skipped, resumed, sent, finalized, successes, failures,
  summary,      \* the RunSummary that was returned
  sends,        \* history: requests dispatched for each key
  lostWork,     \* history: times that no result of a sent key was left
  foreign       \* history: records another caller added

countVars == <<skipped, resumed, sent, finalized, successes, failures>>
loopVars == <<plan, done, prior, pos, terminal>>
ghostVars == <<sends, lostWork, foreign>>
runVars == <<phase, loopVars, countVars, summary, ghostVars>>
allVars == <<vars, runVars>>

\* ExecutionKey of each item: what the plan hash in the manifest commits to.
KeysOf(p) == [i \in DOMAIN p |-> p[i].key]
InPlan == {plan[i].key : i \in DOMAIN plan}

-----------------------------------------------------------------------------
\* Faulty variant: an execution may be planned twice.
PreflightWithRepeats(p, m) ==
  /\ m.concurrency = 1
  /\ \A i \in DOMAIN p : /\ p[i].repetition < m.repetitions
                         /\ p[i].model = m.model
  /\ KeysOf(p) = m.plan

\* _preflight: nothing is opened unless the plan is the one the manifest names.
Preflight(p, m) ==
  /\ m.concurrency = 1
  /\ \A i \in DOMAIN p : /\ p[i].repetition < m.repetitions
                         /\ p[i].model = m.model
  /\ \A i, j \in DOMAIN p : p[i].key = p[j].key => i = j
  /\ KeysOf(p) = m.plan

ZeroCounts ==
  /\ skipped' = 0 /\ resumed' = 0 /\ sent' = 0
  /\ finalized' = 0 /\ successes' = 0 /\ failures' = 0

ResetLoop ==
  /\ done' = {} /\ prior' = <<>> /\ pos' = 1 /\ terminal' = NoResult

StartRun(p, m) ==
  /\ phase \in {"idle", "finished"}
  /\ Preflight(p, m)
  /\ OpenBegin(m)
  /\ phase' = "opening" /\ plan' = p
  /\ ResetLoop /\ ZeroCounts /\ summary' = NoSummary
  /\ UNCHANGED ghostVars

\* The invocation ends without a summary; the with statement closed the journal.
GiveUp ==
  /\ phase' = "idle" /\ plan' = <<>>
  /\ ResetLoop /\ ZeroCounts /\ summary' = NoSummary

PriorAttempts(s, k) == {i \in 1 .. Len(s) : IsAttempt(s[i], k)}

\* Faulty variant: an execution with a recorded attempt is refused.
ResumableWithoutAttempts ==
  /\ \A i \in 1 .. Len(events) : events[i].key \in InPlan
  /\ \A k \in InPlan \ completed :
       Cardinality(PriorAttempts(events, k)) < MAX_ATTEMPTS

\* The journal may hold only executions of this plan, none of them in the
\* middle of more attempts than this runner makes.
Resumable ==
  /\ \A i \in 1 .. Len(events) : events[i].key \in InPlan
  /\ \A k \in InPlan \ completed :
       Cardinality(PriorAttempts(events, k)) <= MAX_ATTEMPTS

Opened ==
  /\ phase = "opening" /\ pc = "open" /\ Resumable
  /\ done' = completed /\ prior' = events
  /\ phase' = "loop"
  /\ UNCHANGED <<vars, plan, pos, terminal, countVars, summary, ghostVars>>

RefuseHistory ==
  /\ phase = "opening" /\ pc = "open" /\ ~Resumable
  /\ Close /\ GiveUp
  /\ UNCHANGED ghostVars

\* open() raised: there is no journal to close.
OpenRaised ==
  /\ phase = "opening" /\ pc = "absent"
  /\ GiveUp
  /\ UNCHANGED <<vars, ghostVars>>

Current == plan[pos].key
AtItem == phase = "loop" /\ pos <= Len(plan)

\* Faulty variant: an attempt counts as completion.
SkipRecorded ==
  /\ AtItem
  /\ Current \in done \/ PriorAttempts(prior, Current) # {}
  /\ skipped' = skipped + 1 /\ pos' = pos + 1
  /\ UNCHANGED <<vars, phase, plan, done, prior, terminal, resumed, sent,
                 finalized, successes, failures, summary, ghostVars>>

SkipCompleted ==
  /\ AtItem /\ Current \in done
  /\ skipped' = skipped + 1 /\ pos' = pos + 1
  /\ UNCHANGED <<vars, phase, plan, done, prior, terminal, resumed, sent,
                 finalized, successes, failures, summary, ghostVars>>

\* Faulty variant: the recorded result is not consulted.
ResumeAsSuccess ==
  /\ AtItem /\ Current \notin done
  /\ \E i \in PriorAttempts(prior, Current) : Finalize(Current, prior[i].index)
  /\ terminal' = Success
  /\ resumed' = resumed + 1 /\ phase' = "finalizing"
  /\ UNCHANGED <<plan, done, prior, pos, skipped, sent, finalized, successes,
                 failures, summary, ghostVars>>

\* A recorded attempt without its finalization is finalized, never sent again.
ResumeUnfinished ==
  /\ AtItem /\ Current \notin done
  /\ \E i \in PriorAttempts(prior, Current) :
       /\ \A j \in PriorAttempts(prior, Current) : i <= j
       /\ Finalize(Current, prior[i].index)
       /\ terminal' = prior[i].result
  /\ resumed' = resumed + 1
  /\ phase' = "finalizing"
  /\ UNCHANGED <<plan, done, prior, pos, skipped, sent, finalized, successes,
                 failures, summary, ghostVars>>

\* Faulty variant: only a finalized execution is not sent again.
SendUnlessCompleted ==
  /\ AtItem /\ Current \notin done
  /\ sent' = sent + 1 /\ sends' = [sends EXCEPT ![Current] = @ + 1]
  /\ phase' = "sending"
  /\ UNCHANGED <<vars, loopVars, skipped, resumed, finalized, successes,
                 failures, summary, lostWork, foreign>>

SendOnce ==
  /\ AtItem /\ Current \notin done
  /\ PriorAttempts(prior, Current) = {}
  /\ sent' = sent + 1 /\ sends' = [sends EXCEPT ![Current] = @ + 1]
  /\ phase' = "sending"
  /\ UNCHANGED <<vars, loopVars, skipped, resumed, finalized, successes,
                 failures, summary, lostWork, foreign>>

\* send_once returned; the result is appended, whatever its status.
Answer(r) ==
  /\ phase = "sending"
  /\ AppendAttempt(Current, 0, r)
  /\ terminal' = r /\ phase' = "recording"
  /\ UNCHANGED <<plan, done, prior, pos, countVars, summary, ghostVars>>

\* append_attempt returned.
RecordedThenFinalize ==
  /\ phase = "recording"
  /\ Finalize(Current, 0)
  /\ phase' = "finalizing"
  /\ UNCHANGED <<loopVars, countVars, summary, ghostVars>>

\* finalize returned.
CountTerminal ==
  /\ phase = "finalizing" /\ pc = "open"
  /\ finalized' = finalized + 1
  /\ IF terminal = Success
     THEN successes' = successes + 1 /\ UNCHANGED failures
     ELSE failures' = failures + 1 /\ UNCHANGED successes
  /\ terminal' = NoResult
  /\ pos' = pos + 1 /\ phase' = "loop"
  /\ UNCHANGED <<vars, plan, done, prior, skipped, resumed, sent, summary,
                 ghostVars>>

Return ==
  /\ phase = "loop" /\ pos > Len(plan)
  /\ Close
  /\ phase' = "finished"
  /\ summary' = [planned |-> Len(plan), skipped_completed |-> skipped,
                 resumed_unfinished |-> resumed, attempts_sent |-> sent,
                 executions_finalized |-> finalized,
                 successes |-> successes, failures |-> failures]
  /\ UNCHANGED <<loopVars, countVars, ghostVars>>

\* Between the dispatch of a request and the return of append_attempt.
InFlight(k) == phase \in {"sending", "recording"} /\ k = Current

\* A result that was on its way, or whose record a power loss took, is gone
\* unless a whole record of such an attempt is still on disk.
NoteLostWork(visible) ==
  lostWork' =
    [k \in Keys |->
       IF /\ InFlight(k) \/ PriorAttempts(lines, k) # {}
          /\ PriorAttempts(visible, k) = {}
       THEN lostWork[k] + 1 ELSE lostWork[k]]

\* The awaited client was cancelled or raised: no evidence is made up.
Cancel ==
  /\ phase = "sending" /\ lostWork[Current] < MaxCancels
  /\ Close /\ GiveUp /\ NoteLostWork(lines)
  /\ UNCHANGED <<sends, foreign>>

\* The store failed an append: the exception ends the run.
AppendRaised ==
  /\ phase \in {"recording", "finalizing"} /\ pc = "poisoned"
  /\ Close /\ GiveUp /\ NoteLostWork(lines)
  /\ UNCHANGED <<sends, foreign>>

\* Another caller of the public store uses the run between two invocations.
OtherSession ==
  \/ /\ phase \in {"idle", "finished"} /\ foreign < MaxForeign
     /\ \E m \in Manifests : OpenBegin(m)
     /\ phase' = "other" /\ plan' = <<>>
     /\ ResetLoop /\ ZeroCounts /\ summary' = NoSummary
     /\ UNCHANGED ghostVars
  \/ /\ phase = "other" /\ foreign < MaxForeign
     /\ \E k \in Keys, i \in 0 .. MaxIndex :
          (\E r \in Results : AppendAttempt(k, i, r)) \/ Finalize(k, i)
     /\ foreign' = foreign + 1
     /\ UNCHANGED <<phase, loopVars, countVars, summary, sends, lostWork>>
  \/ /\ phase = "other" /\ Close
     /\ phase' = "idle"
     /\ UNCHANGED <<loopVars, countVars, summary, ghostVars>>
  \/ /\ phase = "other" /\ pc = "absent" /\ phase' = "idle"
     /\ UNCHANGED <<vars, loopVars, countVars, summary, ghostVars>>

\* The store works, or fails, under whoever called it.
StoreStep ==
  /\ Work \/ OpenFails \/ PublishFails \/ AppendFails
  /\ UNCHANGED runVars

Crash ==
  /\ Kill \/ PowerLoss
  /\ GiveUp /\ NoteLostWork(lines')
  /\ UNCHANGED <<sends, foreign>>

-----------------------------------------------------------------------------
RunInit ==
  /\ Init
  /\ phase = "idle" /\ plan = <<>>
  /\ done = {} /\ prior = <<>> /\ pos = 1 /\ terminal = NoResult
  /\ skipped = 0 /\ resumed = 0 /\ sent = 0
  /\ finalized = 0 /\ successes = 0 /\ failures = 0
  /\ summary = NoSummary
  /\ sends = [k \in Keys |-> 0] /\ lostWork = [k \in Keys |-> 0] /\ foreign = 0

Invoke == \E p \in Plans, m \in Manifests : StartRun(p, m)

\* The invocation makes progress.
Proceed ==
  \/ Opened \/ RefuseHistory \/ OpenRaised
  \/ SkipCompleted \/ ResumeUnfinished \/ SendOnce
  \/ \E r \in Results : Answer(r)
  \/ RecordedThenFinalize \/ CountTerminal \/ Return \/ AppendRaised

RunNext == Invoke \/ Proceed \/ Cancel \/ OtherSession \/ StoreStep \/ Crash

RunSpec == RunInit /\ [][RunNext]_allVars

\* The store's own calls return and the loop runs on; the client always answers
\* or raises (its deadline); whoever started the run starts it again until it
\* has finished once.
FairRunSpec ==
  /\ RunSpec
  /\ WF_allVars(Work /\ UNCHANGED runVars)
  /\ WF_allVars(Proceed)
  /\ WF_allVars(phase = "idle" /\ Invoke)

-----------------------------------------------------------------------------
(* Properties                                                              *)

(* run_plan never sends a request whose execution already has an attempt on
   disk, however the journal came about and whatever was cut off before
   ("Exactly one unfinished attempt is finalized without resending",
   README.md:596; runner.py:141). *)
NoResendOfRecorded ==
  [][\A k \in Keys : sends'[k] # sends[k] => PriorAttempts(lines, k) = {}]_allVars

(* A second request for an execution is sent only after the result of the
   first was lost: on its way to the disk, or from the disk by a power loss.
   One send more than lost results at most ("A crash before durable attempt
   evidence can still cause a resend on restart", runner.py:119). *)
OneSendPerLostResult == \A k \in Keys : sends[k] <= lostWork[k] + 1

(* However often the run was cut off and resumed, a journal that only this
   runner wrote is what an undisturbed run would have written so far: attempt
   and finalization of one planned execution after the other, in plan order. *)
EvidenceInPlanOrder ==
  foreign = 0 =>
    \A i \in 1 .. Len(lines) :
      /\ (i + 1) \div 2 \in DOMAIN lines[i].by.plan
      /\ lines[i].key = lines[i].by.plan[(i + 1) \div 2]
      /\ lines[i].index = 0
      /\ lines[i].kind = IF i % 2 = 1 THEN "attempt" ELSE "finalized"

FinalOnDisk == {k \in Keys : \E e \in Evidence : e.kind = "finalized" /\ e.key = k}
SuccessOnDisk(k) ==
  \E e, f \in Evidence : /\ f.kind = "finalized" /\ f.key = k
                        /\ IsAttempt(e, k) /\ e.index = f.index
                        /\ e.result = Success

(* The summary an invocation returns counts what the disk shows: the whole
   plan is finalized, what was skipped was finalized before, and the successes
   are the newly finalized executions whose recorded last attempt succeeded,
   also for a result recorded by an earlier, cut-off invocation (RunSummary). *)
SummaryIsEvidence ==
  phase = "finished" =>
    LET new == InPlan \ done
    IN /\ InPlan \subseteq FinalOnDisk
       /\ summary.planned = summary.skipped_completed + summary.executions_finalized
       /\ summary.skipped_completed = Cardinality(InPlan \cap done)
       /\ summary.attempts_sent =
            Cardinality({k \in new : PriorAttempts(prior, k) = {}})
       /\ summary.resumed_unfinished =
            Cardinality({k \in new : PriorAttempts(prior, k) # {}})
       /\ summary.successes = Cardinality({k \in new : SuccessOnDisk(k)})
       /\ summary.failures = Cardinality({k \in new : ~SuccessOnDisk(k)})

(* If the run is started again after each of finitely many kills, errors and
   cancellations, it finishes with the whole plan finalized, unless one of
   them left a torn record, which no later invocation repairs ("no automatic
   tail repair occurs", README.md:600). *)
RunSettles ==
  <>[](torn \/ \E p \in Plans : \A i \in DOMAIN p : p[i].key \in FinalOnDisk)
=============================================================================
