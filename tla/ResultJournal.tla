---------------------------- MODULE ResultJournal ----------------------------
(***************************************************************************)
(* The evidence store of persistence.py: one run directory that holds an   *)
(* immutable manifest.json and an append-only journal.jsonl, and the one   *)
(* writer object (ResultJournal) that may use it at a time.                *)
(*                                                                         *)
(* The file system is modelled as POSIX promises it.  A directory entry is *)
(* visible at once (entries) and survives a power loss for certain only    *)
(* after a fsync of its directory (synced).  The bytes of the journal are  *)
(* visible at once (lines, torn) and survive for certain up to the last    *)
(* fsync of the file (durable).  A kill of the process loses nothing that  *)
(* is visible; a power loss loses any part of what was not synced.         *)
(***************************************************************************)
EXTENDS Integers, Sequences

CONSTANTS
  Keys,         \* execution keys that carry this run's id
  ForeignKeys,  \* execution keys that carry another run's id
  Results,      \* attempt results, as far as they are told apart
  Manifests,    \* manifests a caller may expect under this run id
  NoManifest,   \* no manifest has been published
  NoEvent,      \* no append is in progress
  MaxIndex,     \* bound: largest attempt index a caller asks for
  MaxFaults,    \* bound: process kills and operating system errors
  MaxLosses     \* bound: power losses

ASSUME JournalAssumption ==
  /\ Keys \cap ForeignKeys = {}
  /\ NoManifest \notin Manifests
  /\ MaxIndex \in Nat /\ MaxFaults \in Nat /\ MaxLosses \in Nat

VARIABLES
  entries,      \* visible directory entries
  synced,       \* the entries a power loss cannot remove
  temp,         \* the private temporary file of a manifest publication
  manifest,     \* what manifest.json names: its content and how far it got
  lines,        \* complete records of journal.jsonl, in order
  torn,         \* bytes that are not a complete record follow the last line
  durable,      \* number of lines a power loss cannot remove
  pc,           \* where the writer object is
  want,         \* the manifest the caller of open() expects
  pending,      \* the event being appended
  creating,     \* this append creates journal.jsonl
  events,       \* _events: the records in memory
  latest,       \* _latest: last attempt index of each key, -1 for none
  completed,    \* _completed: finalized keys
  acked,        \* history: events whose append returned without an error
                \*   and that no power loss took since
  interrupted,  \* history: some creation was cut off before its directory fsync
  faults, losses

dirVars == <<entries, synced>>
manifestVars == <<temp, manifest>>
journalVars == <<lines, torn, durable>>
callVars == <<want, pending, creating>>
memoryVars == <<events, latest, completed>>
historyVars == <<acked, interrupted>>
budgetVars == <<faults, losses>>
vars == <<dirVars, manifestVars, journalVars, pc, callVars, memoryVars,
          historyVars, budgetVars>>

Entries == {"root", "run", "manifest.json", "journal.jsonl"}
RunFiles == {"manifest.json", "journal.jsonl"}

\* Where an open() or an append that the operating system fails can be.
OpenSteps == {"root", "syncRoot", "run", "syncRun", "manifest", "temp",
              "load", "scan", "unlink", "abandon"}
PublishSteps == {"temp", "syncTemp", "link", "syncLink"}
AppendSteps == {"create", "write", "fsync", "fsyncDir", "close"}
PC == {"absent", "open", "poisoned"} \cup OpenSteps \cup PublishSteps
        \cup AppendSteps

NoResult == "none"
Event == [kind : {"attempt", "finalized"}, key : Keys \cup ForeignKeys,
          index : Nat, result : Results \cup {NoResult}, by : Manifests]

TypeOK ==
  /\ entries \subseteq Entries /\ synced \subseteq Entries
  /\ temp \in {"none", "whole", "synced"}
  /\ manifest \in [content : Manifests \cup {NoManifest},
                   state : {"none", "partial", "whole", "synced"}]
  /\ lines \in Seq(Event) /\ torn \in BOOLEAN /\ durable \in Nat
  /\ pc \in PC
  /\ want \in Manifests \cup {NoManifest}
  /\ pending \in Event \cup {NoEvent}
  /\ creating \in BOOLEAN
  /\ events \in Seq(Event)
  /\ latest \in [Keys -> Int] /\ completed \subseteq Keys
  /\ acked \subseteq Event /\ interrupted \in BOOLEAN
  /\ faults \in Nat /\ losses \in Nat

-----------------------------------------------------------------------------
(* The event grammar, shared by the writer and the strict reader.          *)

\* Faulty variants: attempts may skip a number; a closed execution takes more.
TransitionWithGaps(e, lat, done) ==
  /\ e.key \in Keys /\ e.key \notin done
  /\ \/ e.kind = "attempt" /\ e.index > lat[e.key]
     \/ e.kind = "finalized" /\ lat[e.key] >= 0 /\ e.index = lat[e.key]

TransitionAfterClose(e, lat, done) ==
  /\ e.key \in Keys
  /\ \/ e.kind = "attempt" /\ e.index = lat[e.key] + 1
     \/ e.kind = "finalized" /\ lat[e.key] >= 0 /\ e.index = lat[e.key]

\* May event e follow a history with these latest attempts and finalized keys?
Transition(e, lat, done) ==
  /\ e.key \in Keys
  /\ e.key \notin done
  /\ \/ e.kind = "attempt" /\ e.index = lat[e.key] + 1
     \/ e.kind = "finalized" /\ lat[e.key] >= 0 /\ e.index = lat[e.key]

\* Faulty variant: the event itself is kept as finalized.
RememberEventAsKey(e) ==
  /\ events' = Append(events, e)
  /\ \/ /\ e.kind = "attempt"
        /\ latest' = [latest EXCEPT ![e.key] = e.index]
        /\ UNCHANGED completed
     \/ /\ e.kind = "finalized"
        /\ completed' = completed \cup {e}
        /\ UNCHANGED latest

\* The in-memory summary after event e.
Remember(e) ==
  /\ events' = Append(events, e)
  /\ \/ /\ e.kind = "attempt"
        /\ latest' = [latest EXCEPT ![e.key] = e.index]
        /\ UNCHANGED completed
     \/ /\ e.kind = "finalized"
        /\ completed' = completed \cup {e.key}
        /\ UNCHANGED latest

NoAttempts == [k \in Keys |-> -1]

\* The writer object is gone, with everything it held.
Forget ==
  /\ pc' = "absent"
  /\ want' = NoManifest /\ pending' = NoEvent /\ creating' = FALSE
  /\ events' = <<>> /\ latest' = NoAttempts /\ completed' = {}

\* _fsync_directory(d) makes the entries of d that are visible survive.
Children(d) == CASE d = "parent" -> {"root"}
                 [] d = "root" -> {"run"}
                 [] d = "run" -> RunFiles
Synced(d) == synced \cup (entries \cap Children(d))

\* An operation ends here: did it leave an entry that was never synced?
NoteInterruption(kept) == interrupted' = (interrupted \/ ~(entries \subseteq kept))

-----------------------------------------------------------------------------
(* ResultJournal.open                                                      *)

OpenBegin(m) ==
  /\ pc = "absent"
  /\ pc' = "root" /\ want' = m
  /\ UNCHANGED <<dirVars, manifestVars, journalVars, pending, creating,
                 memoryVars, historyVars, budgetVars>>

\* _ensure_directory: only the call that makes the directory syncs its parent.
EnsureDirectory(d, sync, next) ==
  /\ pc = d
  /\ \/ d \in entries /\ pc' = next /\ UNCHANGED entries
     \/ d \notin entries /\ pc' = sync /\ entries' = entries \cup {d}
  /\ UNCHANGED <<synced, manifestVars, journalVars, callVars, memoryVars,
                 historyVars, budgetVars>>

SyncDirectory(at, parent, next) ==
  /\ pc = at
  /\ synced' = Synced(parent)
  /\ pc' = next
  /\ UNCHANGED <<entries, manifestVars, journalVars, callVars, memoryVars,
                 historyVars, budgetVars>>

EnsureRoot == EnsureDirectory("root", "syncRoot", "run")
SyncRoot == SyncDirectory("syncRoot", "parent", "run")
EnsureRun == EnsureDirectory("run", "syncRun", "manifest")
SyncRun == SyncDirectory("syncRun", "root", "manifest")

\* Faulty variant: an orphaned journal gets a new manifest.
FindManifestOrPublish ==
  /\ pc = "manifest"
  /\ pc' = IF "manifest.json" \in entries THEN "load" ELSE "temp"
  /\ UNCHANGED <<dirVars, manifestVars, journalVars, callVars, memoryVars,
                 historyVars, budgetVars>>

\* A run without a manifest is published, unless it already has a journal.
FindManifest ==
  /\ pc = "manifest"
  /\ "manifest.json" \in entries \/ "journal.jsonl" \notin entries
  /\ pc' = IF "manifest.json" \in entries THEN "load" ELSE "temp"
  /\ UNCHANGED <<dirVars, manifestVars, journalVars, callVars, memoryVars,
                 historyVars, budgetVars>>

RefuseOrphan ==
  /\ pc = "manifest"
  /\ "manifest.json" \notin entries /\ "journal.jsonl" \in entries
  /\ Forget
  /\ UNCHANGED <<dirVars, manifestVars, journalVars, historyVars, budgetVars>>

WriteTemp ==
  /\ pc = "temp"
  /\ temp' = "whole" /\ pc' = "syncTemp"
  /\ UNCHANGED <<dirVars, manifest, journalVars, callVars, memoryVars,
                 historyVars, budgetVars>>

\* Faulty variant: the temporary file is linked without its fsync.
SkipTempSync ==
  /\ pc = "syncTemp" /\ pc' = "link"
  /\ UNCHANGED <<dirVars, manifestVars, journalVars, callVars, memoryVars,
                 historyVars, budgetVars>>

SyncTemp ==
  /\ pc = "syncTemp"
  /\ temp' = "synced" /\ pc' = "link"
  /\ UNCHANGED <<dirVars, manifest, journalVars, callVars, memoryVars,
                 historyVars, budgetVars>>

\* os.link is create-only: an existing manifest.json is never replaced.
LinkManifest ==
  /\ pc = "link"
  /\ "manifest.json" \notin entries
  /\ entries' = entries \cup {"manifest.json"}
  /\ manifest' = [content |-> want, state |-> temp]
  /\ pc' = "syncLink"
  /\ UNCHANGED <<synced, temp, journalVars, callVars, memoryVars,
                 historyVars, budgetVars>>

SyncLink == SyncDirectory("syncLink", "run", "unlink")

\* The finally clause: drop the temporary name, sync the run directory.
UnlinkTemp ==
  /\ pc = "unlink"
  /\ temp' = "none" /\ synced' = Synced("run") /\ pc' = "load"
  /\ UNCHANGED <<entries, manifest, journalVars, callVars, memoryVars,
                 historyVars, budgetVars>>

\* The same clause on the way out of a failed publication.
AbandonTemp ==
  /\ pc = "abandon"
  /\ temp' = "none" /\ synced' = Synced("run")
  /\ Forget
  /\ NoteInterruption(synced')
  /\ UNCHANGED <<entries, manifest, journalVars, acked, budgetVars>>

Loadable == manifest.state # "partial" /\ manifest.content = want

LoadManifest ==
  /\ pc = "load"
  /\ Loadable
  /\ pc' = "scan"
  /\ UNCHANGED <<dirVars, manifestVars, journalVars, callVars, memoryVars,
                 historyVars, budgetVars>>

RefuseManifest ==
  /\ pc = "load"
  /\ ~Loadable
  /\ Forget
  /\ UNCHANGED <<dirVars, manifestVars, journalVars, historyVars, budgetVars>>

\* _scan reads one line after the other, in the writer's own grammar.
Next_line == lines[Len(events) + 1]

ScanLine ==
  /\ pc = "scan"
  /\ Len(events) < Len(lines)
  /\ Transition(Next_line, latest, completed)
  /\ Remember(Next_line)
  /\ UNCHANGED <<dirVars, manifestVars, journalVars, pc, callVars,
                 historyVars, budgetVars>>

\* Faulty variant: a valid prefix counts as a healthy journal.
ScanDonePrefix ==
  /\ pc = "scan" /\ Len(events) = Len(lines)
  /\ pc' = "open"
  /\ UNCHANGED <<dirVars, manifestVars, journalVars, callVars, memoryVars,
                 historyVars, budgetVars>>

ScanDone ==
  /\ pc = "scan"
  /\ Len(events) = Len(lines) /\ ~torn
  /\ pc' = "open"
  /\ UNCHANGED <<dirVars, manifestVars, journalVars, callVars, memoryVars,
                 historyVars, budgetVars>>

RefuseJournal ==
  /\ pc = "scan"
  /\ \/ Len(events) = Len(lines) /\ torn
     \/ Len(events) < Len(lines) /\ ~Transition(Next_line, latest, completed)
  /\ Forget
  /\ UNCHANGED <<dirVars, manifestVars, journalVars, historyVars, budgetVars>>

-----------------------------------------------------------------------------
(* append_attempt and finalize                                             *)

\* A rejected event changes nothing: it is checked before the disk is touched.
AppendBegin(e) ==
  /\ pc = "open"
  /\ e.index <= MaxIndex
  /\ Transition(e, latest, completed)
  /\ pending' = e /\ pc' = "create"
  /\ UNCHANGED <<dirVars, manifestVars, journalVars, want, creating,
                 memoryVars, historyVars, budgetVars>>

AppendAttempt(k, i, r) ==
  AppendBegin([kind |-> "attempt", key |-> k, index |-> i, result |-> r,
               by |-> want])

Finalize(k, i) ==
  AppendBegin([kind |-> "finalized", key |-> k, index |-> i,
               result |-> NoResult, by |-> want])

\* Opening the file for the first append creates it (O_CREAT | O_EXCL).
OpenJournalFile ==
  /\ pc = "create"
  /\ creating' = ("journal.jsonl" \notin entries)
  /\ entries' = entries \cup {"journal.jsonl"}
  /\ pc' = "write"
  /\ UNCHANGED <<synced, manifestVars, journalVars, want, pending, memoryVars,
                 historyVars, budgetVars>>

\* _write_all: a short write leaves the start of a record, the rest follows.
WriteSome ==
  /\ pc = "write" /\ ~torn
  /\ torn' = TRUE
  /\ UNCHANGED <<dirVars, manifestVars, lines, durable, pc, callVars,
                 memoryVars, historyVars, budgetVars>>

WriteRest ==
  /\ pc = "write"
  /\ lines' = Append(lines, pending) /\ torn' = FALSE
  /\ pc' = "fsync"
  /\ UNCHANGED <<dirVars, manifestVars, durable, callVars, memoryVars,
                 historyVars, budgetVars>>

\* Faulty variant: the directory of a new journal is not synced.
SyncJournalFileOnly ==
  /\ pc = "fsync"
  /\ durable' = Len(lines)
  /\ pc' = "close"
  /\ UNCHANGED <<dirVars, manifestVars, lines, torn, callVars, memoryVars,
                 historyVars, budgetVars>>

SyncJournalFile ==
  /\ pc = "fsync"
  /\ durable' = Len(lines)
  /\ pc' = IF creating THEN "fsyncDir" ELSE "close"
  /\ UNCHANGED <<dirVars, manifestVars, lines, torn, callVars, memoryVars,
                 historyVars, budgetVars>>

SyncJournalEntry == SyncDirectory("fsyncDir", "run", "close")

\* The file is closed; only now does memory advance and the caller hear of it.
AppendReturns ==
  /\ pc = "close"
  /\ Remember(pending)
  /\ acked' = acked \cup {pending}
  /\ pc' = "open" /\ pending' = NoEvent /\ creating' = FALSE
  /\ UNCHANGED <<dirVars, manifestVars, journalVars, want, interrupted,
                 budgetVars>>

Close ==
  /\ pc \in {"open", "poisoned"}
  /\ Forget
  /\ UNCHANGED <<dirVars, manifestVars, journalVars, historyVars, budgetVars>>

-----------------------------------------------------------------------------
(* What the operating system may do to the writer                          *)

\* An error of a call under open(): the object is never handed out.
OpenFails ==
  /\ faults < MaxFaults /\ faults' = faults + 1
  /\ pc \in OpenSteps
  /\ temp' = "none"
  /\ Forget
  /\ NoteInterruption(synced)
  /\ UNCHANGED <<dirVars, manifest, journalVars, acked, losses>>

\* An error inside the publication runs its finally clause first.
PublishFails ==
  /\ faults < MaxFaults /\ faults' = faults + 1
  /\ pc \in PublishSteps
  /\ pc' = "abandon"
  /\ UNCHANGED <<dirVars, manifestVars, journalVars, callVars, memoryVars,
                 historyVars, losses>>

\* An error of a call under _append poisons the object.
AppendFails ==
  /\ faults < MaxFaults /\ faults' = faults + 1
  /\ pc \in AppendSteps
  /\ pc' = "poisoned" /\ pending' = NoEvent /\ creating' = FALSE
  /\ NoteInterruption(synced)
  /\ UNCHANGED <<dirVars, manifestVars, journalVars, want, memoryVars, acked,
                 losses>>

\* The process is killed: what is visible stays visible.
Kill ==
  /\ faults < MaxFaults /\ faults' = faults + 1
  /\ pc # "absent"
  /\ temp' = "none"
  /\ Forget
  /\ NoteInterruption(synced)
  /\ UNCHANGED <<dirVars, manifest, journalVars, acked, losses>>

\* An entry needs the directories above it.
Rooted(S) == {e \in S : /\ e # "root" => "root" \in S
                        /\ e \in RunFiles => "run" \in S}

\* What is left when the entries S, n lines and perhaps a tail survive.
SurvivingFiles(S, n, tail) ==
  /\ entries' = S /\ synced' = S
  /\ \/ /\ "journal.jsonl" \in S
        /\ lines' = SubSeq(lines, 1, n) /\ torn' = tail /\ durable' = n
     \/ /\ "journal.jsonl" \notin S
        /\ lines' = <<>> /\ torn' = FALSE /\ durable' = 0
  /\ \/ /\ "manifest.json" \in S
        /\ \/ UNCHANGED manifest
           \/ /\ manifest.state # "synced"
              /\ manifest' = [manifest EXCEPT !.state = "partial"]
     \/ /\ "manifest.json" \notin S
        /\ manifest' = [content |-> NoManifest, state |-> "none"]
  /\ acked' = {e \in acked : /\ S = Entries
                            /\ \E i \in 1 .. Len(lines') : lines'[i] = e}

\* A power loss keeps all that was synced and any part of the rest.
PowerLoss ==
  /\ losses < MaxLosses /\ losses' = losses + 1
  /\ temp' = "none"
  /\ Forget
  /\ \E S \in SUBSET entries, n \in durable .. Len(lines), tail \in BOOLEAN :
       /\ synced \subseteq S
       /\ tail => (torn \/ n < Len(lines))
       /\ SurvivingFiles(Rooted(S), n, tail)
  /\ interrupted' = FALSE
  /\ UNCHANGED faults

-----------------------------------------------------------------------------
Init ==
  /\ entries = {} /\ synced = {}
  /\ temp = "none"
  /\ manifest = [content |-> NoManifest, state |-> "none"]
  /\ lines = <<>> /\ torn = FALSE /\ durable = 0
  /\ pc = "absent"
  /\ want = NoManifest /\ pending = NoEvent /\ creating = FALSE
  /\ events = <<>> /\ latest = NoAttempts /\ completed = {}
  /\ acked = {} /\ interrupted = FALSE
  /\ faults = 0 /\ losses = 0

\* What the caller decides.
Call ==
  \/ \E m \in Manifests : OpenBegin(m)
  \/ \E k \in Keys \cup ForeignKeys, i \in 0 .. MaxIndex :
       \/ \E r \in Results : AppendAttempt(k, i, r)
       \/ Finalize(k, i)
  \/ Close

\* What the writer then does, one system call after the other.
Work ==
  \/ EnsureRoot \/ SyncRoot \/ EnsureRun \/ SyncRun
  \/ FindManifest \/ RefuseOrphan
  \/ WriteTemp \/ SyncTemp \/ LinkManifest \/ SyncLink
  \/ UnlinkTemp \/ AbandonTemp
  \/ LoadManifest \/ RefuseManifest
  \/ ScanLine \/ ScanDone \/ RefuseJournal
  \/ OpenJournalFile \/ WriteSome \/ WriteRest
  \/ SyncJournalFile \/ SyncJournalEntry \/ AppendReturns

Fault == OpenFails \/ PublishFails \/ AppendFails \/ Kill \/ PowerLoss

Next == Call \/ Work \/ Fault

Spec == Init /\ [][Next]_vars

-----------------------------------------------------------------------------
(* Properties                                                              *)

Evidence == {lines[i] : i \in 1 .. Len(lines)}

\* The records that survive any power loss from here on.
DurableEvidence ==
  IF Entries \subseteq synced THEN {lines[i] : i \in 1 .. durable} ELSE {}

IsAttempt(e, k) == e.kind = "attempt" /\ e.key = k

\* A sequence of events that the per-execution rules allow (_transition).
LegalHistory(s) ==
  \A i \in 1 .. Len(s) :
    /\ s[i].key \in Keys
    /\ s[i].kind = "attempt" =>
         /\ s[i].index = 0 \/ \E j \in 1 .. i - 1 :
               IsAttempt(s[j], s[i].key) /\ s[j].index = s[i].index - 1
         /\ \A j \in 1 .. i - 1 :
               IsAttempt(s[j], s[i].key) => s[j].index < s[i].index
    /\ s[i].kind = "finalized" =>
         /\ \E j \in 1 .. i - 1 :
               IsAttempt(s[j], s[i].key) /\ s[j].index = s[i].index
         /\ \A j \in 1 .. i - 1 :
               IsAttempt(s[j], s[i].key) => s[j].index <= s[i].index
         /\ \A j \in i + 1 .. Len(s) : s[j].key # s[i].key

\* latest and completed say of history s what _remember would have made them.
Summarises(lat, done, s) ==
  /\ \A k \in Keys :
       /\ lat[k] >= -1
       /\ lat[k] >= 0 => \E i \in 1 .. Len(s) :
                          IsAttempt(s[i], k) /\ s[i].index = lat[k]
       /\ \A i \in 1 .. Len(s) : IsAttempt(s[i], k) => s[i].index <= lat[k]
  /\ \A k \in Keys : k \in done <=>
       \E i \in 1 .. Len(s) : s[i].kind = "finalized" /\ s[i].key = k

(* Whatever kills, errors, power losses and reopenings came between, the
   journal on disk is a legal history: attempts of an execution are numbered
   0, 1, 2 ... without a gap or a repetition, a finalization names the last
   attempt, and nothing follows it (_transition, persistence.py:335). *)
JournalIsLegal == LegalHistory(lines)

(* A writer that accepts calls has in memory exactly what is on disk: every
   record, no record that failed, and no unreadable bytes behind the last one
   ("In-memory state advances only after success", README.md:540). *)
MemoryIsEvidence ==
  pc = "open" => /\ events = lines /\ ~torn
                 /\ Summarises(latest, completed, lines)

(* All records of a journal were written under the manifest that lies beside
   it: a run directory never mixes evidence of two configurations, even when
   a power loss took the manifest and left the journal (orphaned_journal and
   expected_manifest_mismatch, persistence.py:450-456). *)
OneManifestPerJournal ==
  "manifest.json" \in entries =>
    \A i \in 1 .. Len(lines) : lines[i].by = manifest.content

(* Whoever finds manifest.json finds all of it, after a kill and after a power
   loss at any point of its publication (_publish_manifest). *)
ManifestIsWhole ==
  "manifest.json" \in entries => manifest.state = "synced"

(* A record whose append returned is on disk from then on, through kills,
   errors and reopenings, as long as the power stays on
   (_append, persistence.py:504-538). *)
AckedIsEvidence == losses = 0 => acked \subseteq Evidence

(* ... and a power loss cannot take it, unless an operation was cut off
   between creating a name and the fsync of the directory that holds it. *)
AckedIsDurableUnlessInterrupted ==
  ~interrupted => acked \subseteq DurableEvidence

(* The runner "durably records each returned result before finalizing it"
   (README.md:506): a record whose append returned survives a power loss. *)
AckedIsDurable == acked \subseteq DurableEvidence

\* The ledger a reader makes of the journal on disk.
LedgerAttempts ==
  {[key |-> e.key, index |-> e.index, result |-> e.result] :
     e \in {f \in Evidence : f.kind = "attempt"}}
LedgerOutcomes ==
  {[key |-> e.key, index |-> e.index] :
     e \in {f \in Evidence : f.kind = "finalized"}}

Ledger == INSTANCE ExecutionLedger
            WITH Indices <- 0 .. MaxIndex,
                 attempts <- LedgerAttempts, outcomes <- LedgerOutcomes

(* The journal with its file system, short writes, errors, kills, power losses
   and reopenings implements the ledger: every step adds one attempt or one
   outcome as the ledger allows, or loses as a power loss may, or is invisible
   (ResultJournal, persistence.py:427). *)
ImplementsLedger == Ledger!Spec
=============================================================================
