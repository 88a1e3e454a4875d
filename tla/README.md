# A formal model of the OVP-36 benchmark harness

TLA+ modules, TLC configurations and TLAPS proofs for `src/ovp36_benchmark`
and `scripts/` of this repository. The harness asks locally served language
models a fixed plan of questions, keeps every answer as evidence on disk,
evaluates the evidence and publishes the evaluations. Its value rests on that
evidence: nothing may be lost, duplicated, counted twice or replaced, whatever
is killed, cancelled or unplugged on the way. That is what is modelled here.

Paths below are relative to the repository; `persistence.py` stands for
`src/ovp36_benchmark/persistence.py` and so on.

## 1. The system

| component | state | operations | interacts with |
|---|---|---|---|
| evidence store, `persistence.py` | a run directory with `manifest.json` and `journal.jsonl`; in memory `_events`, `_latest`, `_completed`, `_closed`, `_poisoned` | `open`, `append_attempt`, `finalize`, `close`, `read_events` | file system; called by the runner and the evaluation |
| runner, `runner.py` | counters and snapshots of one `run_plan` | `run_plan` | store (calls), client (awaits) |
| client, `client.py` | one exchange | `send_once` | OpenAI SDK, httpx, the model server, the event loop's deadline |
| local stub server, `test_server.py` | `_received`, `_matched`, `_responded`, `_failure`, a serving thread | `__enter__`, `__exit__`, `assert_complete`, request handler | shared fields between owner thread and serving thread; client over a socket |
| evaluation and review, `evaluation.py`, `reporting.py` | none (values): checks, evaluations, decisions | `evaluate_run`, `evaluate_control_case`, `apply_review_decisions`, `build_human_review_items`, `aggregate_evaluations` | reads the journal; reviewers write files of decisions |
| publication, `reporting.py` | `evaluations/<batch>/…` below the run directory | `write_evaluation_artifacts`, `load_review_decisions` | file system; takes evaluations and decisions |
| candidate batch, `scripts/compare_candidates.py` | `progress.json`, one result file per row and phase, a server process, a phase process | `batch_run` | starts processes; each phase runs the command line below |
| command line, `__main__.py` | none | `candidate_smoke`, `candidate_suite`, `qa_replay_compare` | runner, then evaluation, then publication over one results root |
| parsing, adapters | none (functions) | `parse_*`, `select_summary_context`, … | used by evaluation and planning |
| replay, QA comparison, dataset, schemas, contracts, identity, config, requests | none (functions) | loading, validation, fingerprints | used by the command line |
| review helper, `scripts/review_candidates.py` | review files | `review`, `coverage` | reads run directories |

What is hard in it, and what would make each part correct:

* **Crash recovery.** Every durable thing is made by several system calls and
  can be cut off between two of them by a kill or by a power loss; a later
  call finds what the earlier one left. Correct: what was acknowledged stays,
  what is found is whole, and a rerun neither repeats nor forgets.
* **Agreement of memory and disk.** The writer decides from memory what may be
  appended. Correct: it is what the disk says at every point a call can be made.
* **Resuming.** `run_plan` is started again on whatever a cut-off invocation,
  or another session, left. Correct: nothing recorded is sent again, and the
  returned counts are those of the evidence.
* **Timeouts against answers against cancellation** in the client. Correct: a
  result says what the server said, one call is one request, and only the
  caller cancels.
* **Two threads** in the stub server. Correct: the block ends, and ends without
  an exception only with the evidence that everything was asked and answered.
* **Processes** of the batch. Correct: one server at a time, a settled row is
  never taken up again, every row is settled.
* **Judgement.** An answer is whatever a model wrote; production recovers an object
  from it by a cascade of scans; dozens of checks are rolled up into one status; and
  reviewers decide some of them later, on what an earlier evaluator showed them.
  Correct: nothing is read into an answer, a verdict counts only for what it was
  made about, and no roll-up hides a failure.
* **Changing inputs.** Commands read files twice, name a run by a hash of what they
  read, and publish create-only files one by one. Correct: reports belong to the
  inputs that were validated, agree with one another, and never lock out a rerun.

The file `PROJECT.json` lists each hazard at its line with the properties that
cover it.

## 2. The modules

| module | stands for | checked by |
|---|---|---|
| `ExecutionLedger` | abstract: what evidence promises its reader | `journal` (refinement target) |
| `ResultJournal` | `persistence.py` over a POSIX file system | `journal`, `journal_interrupted` |
| `ResultJournal_proofs` | its types, the journal's legality, memory against disk; the manifest, the durability of acknowledged records; the store implements the ledger | TLAPS |
| `Runner` | `runner.py` on top of `ResultJournal` | `runner`, `runner_shared` |
| `Runner_proofs` | runs are callers the store allows; how often a request is sent, in which order evidence lies, what the summary counts | TLAPS |
| `Client` | `client.py` with the SDK, the transport and the server as environment | `client` |
| `Client_proofs` | who cancels a call, how often it sends, what it records | TLAPS |
| `StubServer` | `test_server.py`, both threads | `stub`, `stub_counts` |
| `StubServer_proofs` | a block left normally is evidence; exchanges are used once | TLAPS |
| `Publication` | the writing half of `reporting.py` over the same file system | `publication` |
| `Publication_proofs` | what is published is whole, stands, stays, and lies beside its records | TLAPS |
| `Batch` | `batch_run` of `scripts/compare_candidates.py` | `batch`, `batch_writers` |
| `Batch_proofs` | what rows are settled with, one server at a time, whole configurations | TLAPS |
| `Parsing` | `parsing.py`, with the JSON grammar it is judged by | `review` |
| `ContextSummary` | the runtime summary's cut in `adapters.py` | `review` |
| `Scoring` | the checks of `evaluation.py`, on top of `Parsing` | `review` |
| `Review` | rows, roll-ups, decisions, summaries (`evaluation.py`, `reporting.py`), on top of the three above | `review` |
| `Review_proofs` | what parsing recovers, what a cut leaves out, what a pass, a verdict and a published summary rest on | TLAPS |
| `Keeping` | the comprehensions that keep some records of a tuple | `command` |
| `Replay` | `replay.py` and the joins of `qa_replay_comparison.py` | `command` |
| `Curated` | `dataset.py` | `command` |
| `Command` | `__main__.py`, on top of `Replay` and `Curated`, with what it uses of identity, runner and publication | `command` |
| `Command_proofs` | baselines and reports belong to the validated inputs and to one another | TLAPS |

`MC<module>.tla` gives the constants small values. Some definitions in the
modules are marked *faulty variant*: the definition next to them with a
plausible bug (a dropped guard, a skipped sync, a swapped order). Nothing uses
them in a run; put in place of the real definition they make a property fail,
which shows that the property is sensitive to that line of the code.

### ResultJournal

State of the file system: `entries` are the directory entries one can see,
`synced` those a power loss cannot take, because their directory was synced
since; `manifest` is the content of `manifest.json` and whether its bytes were
synced; `lines` are the complete records of the journal, `torn` says that an
incomplete one follows, `durable` how many records a sync of the file covers.
State of the writer: `pc` names the system call it is about to make, `want`,
`pending`, `creating` are its locals, `events`, `latest`, `completed` its
fields.

| action | code |
|---|---|
| `OpenBegin` | `ResultJournal.open` is called (427–450) |
| `EnsureRoot`, `SyncRoot`, `EnsureRun`, `SyncRun` | `_ensure_directory`, twice |
| `FindManifest`, `RefuseOrphan` | the two `_exists` tests |
| `WriteTemp`, `SyncTemp`, `LinkManifest`, `SyncLink`, `UnlinkTemp`, `AbandonTemp` | `_publish_manifest`, with its `finally` |
| `LoadManifest`, `RefuseManifest` | `load_manifest` and the comparison |
| `ScanLine`, `ScanDone`, `RefuseJournal` | `_scan`, line by line |
| `AppendAttempt`, `Finalize` | the two public calls up to `_transition` |
| `OpenJournalFile`, `WriteSome`, `WriteRest`, `SyncJournalFile`, `SyncJournalEntry`, `AppendReturns` | `_append` |
| `OpenFails`, `PublishFails`, `AppendFails` | any of those system calls raises |
| `Kill`, `PowerLoss` | the process ends; the machine loses any part of what is not synced |
| `Close` | `close`, `__exit__` |

Abstractions. A record is `[kind, key, index, result, by]`; `by` is a history
field, the manifest under which it was written. The permission, owner and
symlink checks are reasons for a call to fail. The temporary file is private
and its name never collides, so its directory entry is not kept. There is one
writer in one process, so `O_EXCL` and `link` never meet an existing name. A
fsync after a failed fsync is taken to sync everything, which is more than
some kernels promise. That two manifests claim one run id is possible only
through the public API, not through `build_manifest`, and is kept because
`open` checks for it.

### ExecutionLedger

A set of numbered attempts per execution and at most one outcome, which names
the last. Evidence is added, or some of it is lost by a power loss and what is
left is a ledger again. `ResultJournal` implements it under the mapping
`LedgerAttempts`, `LedgerOutcomes` (what a reader of the journal file sees):
`ImplementsLedger`.

### Runner

`run_plan` with the whole `ResultJournal` below it: `StoreStep` lets the store
and its faults take any step, the runner's actions call it. `phase` is the
position in the function, `pos` in the plan, `done` and `prior` are the
snapshots `completed` and `attempts` taken after `open`. `Invoke` is
`_preflight`: the plans and manifests include ones it must refuse (duplicate
execution, repetition out of range, other model, other hash). `OtherSession`
is another program that opened the journal earlier, or later but not at the
same time, and used the public API. `Cancel` is a cancellation during
`await client.send_once`; the rest of the loop is synchronous, so it cannot
arrive elsewhere. The client is what `Client` shows of it: at most one request
per call, and any result or none.

### Client

`task` is where `send_once` is, `elapsed` the deadline's clock, `quiet` the
time since the last byte (the timeout of each transport operation), `cancels`
the cancellation requests that have not been delivered yet, `arrived` how far
the answer got. `DeadlinePasses` and `CallerCancels` request a cancellation of
the task, `Raise`, `TimeOut`, `Return` are the ways the `await` resumes, with
the rule of `asyncio.timeout`: the deadline's cancellation becomes
`TimeoutError` only if nobody else asked for one. The properties
compare the recorded outcome with history variables: what the server sent
(`answers`), how often it was asked (`requests`), who cancelled (`asked`).
The SDK and httpx are external and modelled from the options the code passes.

### StubServer

`owner` is the position of the owner's `with` block, `thread` that of the
serving thread; `ready`, `stop`, `stopped` are the events between them
(`socketserver`'s shutdown request and answer, external). One connection is
handled at a time, as `HTTPServer` does; `arrived`, `accepted`, `gone` and
`got` are the clients. Connections are numbered as they arrive and what a
client sends is chosen when it is read: both only drop distinctions nobody can
see. `_fail` is a test and an assignment, called by both threads, and one step
here: CPython 3.12 (pyproject.toml:9) with its interpreter lock looks for a
thread switch at calls, function entries and backward jumps, and there is none
between the two. `Trickling` headers come one within each timeout of a read
(`test_server.py:40`); nothing ends them but their client (`TrickleEnds`,
`HeadersBreak`), and shutdown waits for that client as long as it likes, since only
the body has a deadline as a whole (`:95-101`). `BlockEnds` therefore says that the
block ends unless headers trickle for ever. `StartupFails` is the raise of `_Server()`
or of `Thread.start`. Not modelled: a `server_close` that raises.

### Publication

One call of `write_evaluation_artifacts` visits its `Targets` in the code's
order: directories (`_directory`) and files (`_publish`), each a few system
calls. `files` is what is visible under each name, `durable` the names whose
directory was synced since. An *edition* is the bytes a caller computes for
one batch id. The id hashes the evaluation ids, and these the evaluator's version and
fingerprint, so two editions under one id differ only in what the fingerprint does not
reach; the model lets them come at any time, which the code allows more rarely. A
*review* is a set of decisions named by its hash. A failing fsync counts as an interruption.

### Batch

`disk` is `progress.json`, `results` the result files, `progress` the dict in
memory, `pc`, `pos`, `ph` the position, `servers` the server processes,
`operation` the phase process, `orphans` phase processes nobody waits for any more:
their batch was interrupted or killed, or a `ps` raised (`SamplingFails`), which blocks
the row and leaves the phase running. `Interrupt` is Ctrl-C (the `finally` runs),
`Kill` is not, and `halts` counts the two apart; `CleanupRaises` is
the second `TimeoutExpired` inside `finally`. Baseline compatibility is read
once per invocation. What `ps` measures and `server_pid` are left out:
nothing reads them back. `config` is each row's `candidate.local.toml`, which has its name
before its text (`ConfigCreated`, `ConfigWritten`) and is compared with the expected
text when it is found (`ConfigFound`, `ConfigFails`). Only processes are killed here,
never the machine.

### Parsing, ContextSummary, Scoring

Operators and recursive functions; they keep no state. An answer is a sequence of
tokens: each delimiter, quote and backslash is one, `m` stands for a list of
members whose content does not matter to the parser, `fence` for three backticks.
`Grammar` is JSON as `json.loads` accepts it (NaN included for `_decode`, excluded
for `_STRICT_DECODER`): the reference the scanner is measured by.
`FirstBalanced` is `_first_balanced` character by character, with its flags
`in_string` and `escape_next`; `Candidates` is the order of the cascade. In
`ContextSummary` a message is its role, the calls it makes and the call it settles;
`Pending` is the dict `pending` of `select_summary_context`.

In `Scoring` each task's checks are a function from check ids to
`[method, status, critical, control]`. What the members of an answer say is chosen
by the instance, in the values the checks tell apart: a field is right, stale, null,
mistyped or wrong; tags are the expected ones, forbidden ones, both, unannotated or
ill formed. Metrics repeat the checks as counts and ratios and are left out. Of the
controls, those on a supplied response are modelled; adapter and transport controls
compare fixed values and have no behaviour of their own.

### Review

`batch` are the cases with their recorded attempts, `rows` the latest automatic
evaluations, `view` those with the decisions applied so far, `desk` what reviewers
have written, `published` the last artifacts accepted. `Decide` lets a reviewer
decide on any check of what is in view, on automatic ones by mistake too;
`ApplyDecisions` and `Publish` take any file of up to two decisions, `Publish` also
an already reviewed view. `Revise` changes the evaluator: earlier decisions stay on
the desk. `basis` and `about` are history fields, what was measured and what the
reviewer had in view; identities are records, as if hashes never collided. Refusals
of `evaluate_run` that only an inconsistent caller meets (a plan that is not the
manifest's, a foreign key in the journal) are not modelled; `Runner` shows that the
journal has no such key.

### Command

One invocation after another: `proc` is the invocation in progress, `journals` and
`reports` what is on disk. `LoadReplay` and `Reread` are the two reads of the
source, `LoadCurated` the curated files with inventory, frozen hash and smoke
selection, `Identify` names the run by dataset, plan and implementation, `Send` and
`Finalize` stand for `run_plan`, `PublishFile` for `_publish`. `EditInputs` may
strike between any two steps; `EditCode` only between invocations, since the
package says that no files should change during a run (`README.md:910`): an
implementation replaced while its own invocation runs would be fingerprinted as
what it is not, because `_implementation_fingerprints` reads the disk after the
import. A report is a file with a `Place`: the directory of its run and that of its
evaluation batch, whose id hashes the evaluator's fingerprint too. An append is one
step here, so a kill leaves no torn journal; one that does is refused by every later
open, and `RunSettles` is the property that says so. Hashes are injective, the journal is durable and has one writer:
`ResultJournal`, `Runner` and `Publication` are about what happens otherwise.

## 3. What the runs check

All bounds are constants of the modules and count faults, not steps: between
two faults a behaviour is as long as it likes.

| run | bounds | shows |
|---|---|---|
| `journal` | 2 executions and a foreign one, 2 manifests, indices 0..1, 3 faults, 1 power loss | every state of the store: `JournalIsLegal`, `MemoryIsEvidence`, `OneManifestPerJournal`, `ManifestIsWhole`, `AckedIsDurableUnlessInterrupted`, and it implements the ledger |
| `journal_interrupted` | same, 1 fault | finding: an acknowledged record can be lost (below) |
| `runner` | a plan of 2, results success and timeout, 3 kills or errors, 1 cancellation | `EvidenceInPlanOrder`, and the run settles or finds its journal refused |
| `runner_shared` | 6 plans, 4 manifests, 3 foreign records, 1 fault, 1 power loss, 1 cancellation | `NoResendOfRecorded`, `OneSendPerLostResult`, `SummaryIsEvidence` on journals this runner did not write alone |
| `client` | 2 calls, deadline of 2 ticks, 8 kinds of answer | `OnlyCallersCancel`, `OneRequestPerCall`, `ResultIsWhatTheServerSaid`, `CallEnds` |
| `stub` | 2 exchanges, 3 connections, 3 kinds of ill request, headers that trickle | `CompleteIsEvidence`, `ExchangesInOrder`, `BlockEnds` |
| `stub_counts` | same | finding: counters lag behind the answer |
| `publication` | 2 editions, 2 reviews, 2 faults, 1 power loss | `ArtifactsAreWhole`, `ReturnedSurvives`, `SummaryHasRecords`, `NeverReplaced`, `RevisionsGetPublished` |
| `batch` | 2 rows, one of them the baseline, 2 interrupts or kills, 4 servers | `CompleteHasResults`, `OneServerAtATime`, `SettledStays`, `PhasesAreConfigured`, `BatchSettles` |
| `batch_writers` | same | finding: two writers on one journal |
| `review` | answers of up to 4 of 10 tokens and of 3 of 14 fragments, conversations of 5 to 8 messages, a dozen kinds of case, 2 evaluators, 2 decisions | `StrictNeverReinterpreted`, `FirstObjectRecovered`, `SummaryCutIsSound`, `PassIsEarned`, `VerdictsAreAboutThis`, `RevisionIsItsDecisions`, `FailuresAreShown` |
| `command` | 3 commands, 5 contents of the inputs, 2 implementations, 2 edits, 2 kills | `BaselineFromValidatedBytes`, `ReportsAgree`, `CommandSettles` |

Why the bounds are enough to be of use. The hazards of the store need one
interrupted creation, one reopening and one loss, and two executions to tell
order from identity; three faults interrupt a creation, its retry and the
append behind it. A third attempt index adds nothing: the grammar compares
neighbours. The client's tick of two lets the per-operation timeout fire before,
with and after the deadline. Three connections with two exchanges give one client
more than expected. Two editions and two revisions give every conflict of
content and of order. In the batch a second row shows what an orphan of
the first does to it. The scanner's flags can be wrong only around an opening, a
quote, a backslash and a closing: four tokens give every order of those, the
fragments longer ones. Seven messages give a range of five, in which two calls are
settled, left open or reopened in every order. Two decisions conflict, repeat or
concern different rows or evaluators; the evaluators are symmetric. In `command`
each edited content of the inputs is one that a single check is there to notice, and
two edits are enough to change a file and to put it back. Theorems (below) lift the store's main invariants from
these bounds.

### Fairness

* `Runner`: the store's calls return and the interpreter goes on (weak fairness
  of `Work` and `Proceed`), and somebody calls `run_plan` again when it ended
  without finishing. Nothing is assumed of the server: the awaited `send_once`
  ends by itself (`CallEnds`). Faults are finite.
* `Client`: time passes, due timers fire, ready tasks are resumed. Nothing is
  assumed of server, network or caller.
* `StubServer`: both threads are scheduled. Reading the body ends by its deadline, a
  read in silence by its timeout (`READ_TIMEOUT_SECONDS`). Nothing is assumed of
  clients, not even that headers which trickle end.
* `Publication`: a call's own steps go on (weak), and each revision is published
  again and again (strong, since the call is only enabled between calls). This
  is an assumption on the caller: the code itself retries nothing.
* `Review` has none: it is about what may be shown, not about what must happen.
* `Command`: an invocation goes on (its requests have a deadline) and the operator
  goes on repeating the command, after success too.
* `Batch`: the script goes on, a phase ends (each request in it has a deadline),
  and the operator starts the script again while a row is not settled.

### Findings

* **Acknowledged records are not always durable** (`journal_interrupted`). Creating a name and syncing its directory are two
  steps, and the second is skipped when the name exists
  (`persistence.py:279-283`, `519-529`, `reporting.py:263-266`, `295-298`). A run
  killed between the two leaves a name that no later call ever syncs; what is
  then acknowledged can vanish with it at a power loss, although every later call
  returned normally. `AckedIsDurableUnlessInterrupted` and `ReturnedSurvives`
  show that this is the only way. Publication shares the defect
  (`docs/BENCHMARK_SPEC.md:1256` promises the sync): without the condition on
  `interrupted`, `ReturnedSurvives` fails in the same way.
* **The counters lag** (`stub_counts`). `_responded` is incremented after the
  reply left (`test_server.py:139-140`), so a test that has its answer and reads
  the counters can see the old value; `tests/test_local_e2e.py:211` relies on
  the new one.
* **Two writers on one journal** (`batch_writers`). The phase process is not
  stopped with the batch (`scripts/compare_candidates.py:373`). After an interrupt
  that reached only the batch, or a kill, the next invocation starts the same
  phase while the old one still appends, against "one sequential writer object
  per run in one process" (`README.md:527`).

Met on the way and left as they are, since no document says otherwise: a torn
tail makes a run unfinishable (documented, `README.md:600`); a phase against a
server that has died records its connection errors as final results; a server
that outlives a killed batch blocks every remaining row; a batch killed while it writes
a row's configuration leaves a part of it, and the next invocation blocks that row;
`apply_context_summary` takes the first system message of the whole conversation, so
one that stands after the cut is kept there and put in front as well; the answer to a
settled call may lie after the cut while the call itself was summarised.

## 4. What is proved

For all sets of keys, results, manifests, plans, editions, reviews, answers,
exchanges and rows and all bounds, from the named assumptions of the modules on
their constants:

* `JournalAssumption`: the two key sets are disjoint, `NoManifest` is no manifest, the
  bounds are natural numbers; `PlansAssumption`: a plan is a sequence;
* `ContentsAssumption`: no content is mistaken for an absent or a torn file;
* `ClientAssumption`: the deadline is positive, no answer is mistaken for none, answers
  are of the kinds `send_once` tells apart, and an exception is no result;
* `ExchangesAssumption`: the expected requests are a sequence of requests;
* `RowsAssumption`: the rows are a sequence of models, each with a key of its own;
* `InputsAssumption`: a batch evaluates a case once, and an answer is a sequence of
  tokens; `ConversationsAssumption`: only tool and developer messages that make no calls
  settle one, and the calls of two messages have different ids (the runtime gives them
  out; `select_summary_context` does not check it);
* `InventoryAssumption`, `QAIdsAssumption`, `CanonicalAssumption`: the committed
  inventory, the QA ids and the committed selection are sequences;
* `ReviewsAssumption`: no review is mistaken for none.

| theorem | states | module |
|---|---|---|
| `TypeCorrect` | `Spec => []TypeOK` | `ResultJournal_proofs` |
| `JournalAlwaysLegal` | `Spec => []JournalIsLegal` | |
| `MemoryAlwaysEvidence` | `Spec => []MemoryIsEvidence` | |
| `ManifestAlwaysWhole` | `Spec => []ManifestIsWhole` | |
| `JournalKeepsItsManifest` | `Spec => []OneManifestPerJournal` | |
| `AcknowledgedStays` | `Spec => []AckedIsEvidence` | |
| `AcknowledgedIsDurable` | `Spec => []AckedIsDurableUnlessInterrupted` | |
| `JournalImplementsLedger` | `Spec => ImplementsLedger` | |
| `NeverResent` | `RunSpec => NoResendOfRecorded` | `Runner_proofs` |
| `SentOncePerLostResult` | `RunSpec => []OneSendPerLostResult` | |
| `JournalInPlanOrder` | `RunSpec => []EvidenceInPlanOrder` | |
| `SummaryAlwaysEvidence` | `RunSpec => []SummaryIsEvidence` | |
| `PublishedStands` | `PubSpec => NeverReplaced` | `Publication_proofs` |
| `PublishedFilesAreWhole` | `PubSpec => []ArtifactsAreWhole` | |
| `ReturnedStays` | `PubSpec => []ReturnedSurvives` | |
| `SummariesHaveRecords` | `PubSpec => []SummaryHasRecords` | |
| `CallersCancel` | `ClientSpec => []OnlyCallersCancel` | `Client_proofs` |
| `CallsSendOnce` | `ClientSpec => []OneRequestPerCall` | |
| `ResultsAreSaid` | `ClientSpec => []ResultIsWhatTheServerSaid` | |
| `BlocksAreEvidence` | `StubSpec => []CompleteIsEvidence` | `StubServer_proofs` |
| `ExchangesAreUsedOnce` | `StubSpec => []ExchangesInOrder` | |
| `CompleteRowsHaveResults` | `BatchSpec => []CompleteHasResults` | `Batch_proofs` |
| `OneServer` | `BatchSpec => []OneServerAtATime` | |
| `SettledRowsStay` | `BatchSpec => SettledStays` | |
| `PhasesHaveConfigurations` | `BatchSpec => []PhasesAreConfigured` | |
| `StrictAlwaysItself` | `ReviewSpec => []StrictNeverReinterpreted` | `Review_proofs` |
| `FirstObjectAlwaysRecovered` | `ReviewSpec => []FirstObjectRecovered` | |
| `SummaryCutAlwaysSound` | `ReviewSpec => []SummaryCutIsSound` | |
| `PassAlwaysEarned` | `ReviewSpec => []PassIsEarned` | |
| `VerdictsAlwaysAboutThis` | `ReviewSpec => []VerdictsAreAboutThis` | |
| `RevisionAlwaysItsDecisions` | `ReviewSpec => []RevisionIsItsDecisions` | |
| `FailuresAlwaysShown` | `ReviewSpec => []FailuresAreShown` | |
| `CommandInvariant` | `CommandSpec => []CommandInv` | `Command_proofs` |
| `BaselineAlwaysValidated` | `CommandSpec => []BaselineFromValidatedBytes` | |
| `ReportsAlwaysAgree` | `CommandSpec => []ReportsAgree` | |

The arguments. None of these invariants is inductive as it stands.

* **Journal and memory.** The step that writes a record's last byte is legal only
  because `_transition` accepted the record some steps before, against a memory that
  summarised the file then. `HistoryInv` says this: the memory summarises `events`
  (`Summarises`); `events` is a prefix of `lines` during a scan, all of it while the
  writer is open and until the bytes are complete, and all but the pending record
  after; and the pending record is one that `_transition` still accepts.
  `LegalAppend` and `SummaryAppend` are the two lemmas about the event grammar: what
  `_transition` lets pass extends a legal history legally, and `_remember` keeps the
  summary. `LegalPrefix` is what a power loss needs. `TypeInv` adds to `TypeOK` that
  the locals of an `open` or an append in progress are in their sets.
* **Manifest.** `FilesInv`: what `open` has found out stays true while it goes on (no
  run file exists while a publication is before its `link`; the manifest found is the
  expected one from the load on), and the pending record is written under it.
* **Durability.** `DurableInv`: as long as nothing was interrupted, every visible name
  is synced except the one that is being created right now (`InCreation`), and the
  acknowledged records lie in the synced prefix of the journal. This is the exact
  form of the first finding: `interrupted` is the only way out.
* **Ledger.** `PendingInv` keeps the fields of the record to be written. `WriteRest`
  maps to the ledger's recording of an attempt or an outcome, `PowerLoss` to its loss,
  and every other step leaves what a reader sees. That a loss leaves a ledger rests on
  the legality of the journal: an outcome survives only with its attempts before it.
* **Runs.** Every step of `run_plan` is a step of the store or leaves it alone; the
  indices it finalizes at are in range because `_transition` says so. So all the
  theorems about `Spec` hold of runs. `RunInv` says of the loop: the plan names no
  execution twice (`_preflight`), and each attempt on disk was there when the journal
  was opened or belongs to an item the loop has been to. A request is sent only for an
  item that is neither.
* **Requests and results.** `SendsInv`: an execution that was sent is on its way or on disk
  (`Kept`), or a result of it was lost once more often than it was sent again. That an
  execution leaves "on its way" only for the disk or for a loss needs `RecordInv`: between
  the answer and the end of its append, the pending record is the answer's, and from the
  last byte on it is in the file.
* **Plan order.** `OrderInv` ties the length of the file to the position in the loop: as
  long as nobody else wrote, the execution at `pos` starts with `2 * (pos - 1)` records, or
  with those the journal was opened with if there are more. It needs `OpenedInv` (what was
  read is still the head of the file) and `CommitInv` (the plan is the one of the manifest,
  and every append is one of a run). A power loss takes the tail only, and the position
  with it.
* **The summary.** `CountInv`: each counter is the size of a set of executions the loop has
  been to, taken by `done`, by `prior` or by the result on disk. `FinalizingInv` says that
  the outcome being written names the attempt whose result is counted.
* **Publication.** `NeedsComeFirst`: in the list of targets, the directories a name
  lies in and the records a summary summarizes come before it. `FilesAreWhole` says
  that bytes are synced before they get their name, and that the name is absent until
  then. `Ordered` says, as long as `Safe` (no power loss, or nothing was cut off): the
  targets behind the call's position have what it publishes; what is visible has what
  it needs beside it; and on the one name that is not durable yet (`MadeIsFree`,
  `OthersAreDurable`) nothing depends, so a power loss that takes it takes nothing
  else. The sync of its directory comes before the next target.
* **Calls.** The properties speak of recorded results (`Recorded`); what decides them is
  known only while the call is in progress. `CallInProgress` ties the position in
  `send_once` to the exchange: a task that awaits has sent its request, bytes of an
  answer are an answer to that request, and a task is resumed without a failure only by
  the whole answer. `Cancellations` says that the caller is among those who cancelled the
  task exactly if it asked to, which is how `asyncio.timeout` tells its own cancellation
  from the caller's. `Sent` says that a call that is not connected has sent nothing.
* **The stub server.** `CountsAgree`: as long as no failure is noted, the requests read
  are those matched and the one being judged; a refusal notes its failure before it is
  written. `AnswersBelong`: an answer names an exchange that was matched, and the
  exchange last matched has reached nobody while its answer is still to be written.
  `EndIsQuiet` says that the owner reads the counters of a dead thread, which is why
  they are final. No case needs to know in which order the threads run.
* **The batch.** `Saved`: what the file says and what the script remembers differ only
  during cleanup, in the outcome of the row at work. `Noted`: a noted phase has its
  result file (the baseline's suite excepted, which is taken over from elsewhere), and
  the phases before the current one are noted. `Owned`: until the batch is killed
  (interrupts do not count: `finally` stops the server), a live server is the one the
  row at work owns, and there is none before that row has found its port free.
  `Configured`: the row at work has its whole configuration from the port check on,
  every row with a note, a result or a phase left running had it, and a whole one is
  never written again.
* **Reading an answer.** Recursive functions are proved about through what defines them:
  one exists (`ReadingExists`, as the least set of texts closed under the grammar;
  `PendingIsOpen`, by its closed form), so the `CHOOSE` behind it obeys its equation; then
  a least counterexample replaces induction. `UsableIsWritten`: whatever branch of the
  cascade succeeds, the value consumed is a contiguous piece of the answer.
  `StrictAlwaysItself`: numerals the strict decoder knows are among those production knows,
  so the grammar accepts what it accepted (`MoreNumerals`) and, since it strips each part
  itself (`GrammarStrips`), the whole answer is the first candidate to succeed.
* **The first block.** `Passes` says of two places in the answer that what lies between
  them leaves the scan of `_first_balanced` as it was outside strings, and never below the
  depth it was at. A string passes (`PassesString`): the flag `escape_next` is set exactly
  behind an odd run of backslashes (`EscapedNext`), which is what the grammar calls
  escaped, so both end the string at the same quote. A block passes if what is inside
  passes, since the depth stays above where it started until the block's own end
  (`BracesPass`); hence every text of the grammar passes (`ReadingPasses`, by a
  shortest one that does not), and the first end at depth zero is the object's own
  (`BlockRecovered`). The white space production strips lies outside the block
  (`BlockOfContent`), and the branches before it give nothing (`ThirdRecovered`).
* **The cut.** `OpenAfter` is the closed form of the dict of `select_summary_context`: the
  calls made in the range and settled by no later message of it, each at its place.
  `OpenAreStillOpen`: these are exactly the calls nothing settles before the range could
  at most end, so a cut before the earliest of their places covers none of them.
* **Views and revisions.** `ReviewInv`: the rows are one evaluator's of this batch, a
  decision on the desk is about what its id names, and a view departs from the rows only by
  such a decision on a human check. `RevisionInv`: a published summary is recomputed from
  its own ids and decisions under any evaluator, since the evaluator's name is in the
  identities and in nothing that is counted. `FailureDecides` is the roll-up's lemma.
* **Passes.** Per task, the checks that are both critical and automatic fail unless the
  answer has what the task wants (`ExtractionEarned`, `VoicemailEarned`, `SummaryEarned`,
  `QAEarned`), and a decision changes human checks only (`ViewChecks`).
* **Commands.** `CommandInv`: a run on disk is named by its own plan; a QA command that got
  past the second read has the baselines of the canonical source (`LoadInv`), since the
  bytes it parses are those whose hash it compared; what is still to be published is what
  this implementation makes of a complete journal (`TodoInv`); and each report on disk was
  made by the implementation its run is named by (`ReportsInv`), with a comparison's
  rows beside it.

Liveness under fairness and `ENABLED` are out of the prover's reach and stay with TLC:
`RunSettles`, `CallEnds`, `BlockEnds`, `RevisionsGetPublished`, `BatchSettles`,
`CommandSettles`. Induction over data is out of reach too; the theorems about parsing and
the cut go around it by least counterexamples, as said above. Every safety invariant and
every action property of a passing run is stated by a theorem. `AckedIsEvidence` is proved
and not a property of a run, since the refinement of the ledger says most of it. Type
invariants other than the store's are no properties of runs either: they are part of what
`PublicationTyped`, `ClientCorrect`, `StubCorrect` and `BatchCorrect` state.

## 5. Plan

1. *(done)* evidence store, its abstract ledger, its proofs; runner over the store;
   client; stub server; publication; batch; parsing, evaluation and review; the
   commands over their inputs.
2. **Composition**: `Publication`'s editions as what `Review` accepts, and `Command`'s
   publication as an abstraction that `Publication` is shown to implement.
3. **Abstract exchange**: what the runner uses of the client as a module of its own
   that `Client` is shown to implement.
4. **Proofs**: those of the modules 2 and 3 add, and the refinement mappings between
   them and what they refine.

Not modelled, and not planned: the field validations of `schemas.py`, prompt texts and
their rendering, canonical JSON and hashing (injective here), metrics and their ratios,
the differences inside a QA comparison, the review helper's views, artifact downloads
and the model runtime. They are pure functions of frozen inputs, formatting, or
programs of others.
