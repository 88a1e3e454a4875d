------------------------ MODULE ResultJournal_proofs ------------------------
(***************************************************************************)
(* Theorems about ResultJournal, for any sets of keys and manifests and    *)
(* any number of kills, errors and power losses.                           *)
(***************************************************************************)
EXTENDS ResultJournal, TLAPS

-----------------------------------------------------------------------------
(* Types.  Two facts carry them: a writer object has an expected manifest, *)
(* and an append in progress has an event.                                 *)

TypeInv ==
  /\ TypeOK
  /\ pc # "absent" => want \in Manifests
  /\ pc \in AppendSteps => pending \in Event /\ pending.key \in Keys

LEMMA PCSteps ==
  /\ PC = {"absent", "open", "poisoned"} \cup OpenSteps \cup PublishSteps
            \cup AppendSteps
  /\ "open" \notin AppendSteps /\ "poisoned" \notin AppendSteps
  /\ "absent" \notin AppendSteps
  /\ OpenSteps \cap AppendSteps = {} /\ PublishSteps \cap AppendSteps = {}
  BY DEF PC, OpenSteps, PublishSteps, AppendSteps

LEMMA ForgetType == ASSUME Forget PROVE
  /\ pc' = "absent" /\ want' = NoManifest /\ pending' = NoEvent
  /\ creating' = FALSE /\ events' = <<>> /\ events' \in Seq(Event)
  /\ latest' \in [Keys -> Int] /\ completed' \subseteq Keys
  BY DEF Forget, NoAttempts

(* A writer's Remember keeps the types of the memory. *)
LEMMA RememberType ==
  ASSUME TypeOK, NEW e \in Event, e.key \in Keys, Remember(e)
  PROVE  /\ events' = Append(events, e) /\ events' \in Seq(Event)
         /\ latest' \in [Keys -> Int] /\ completed' \subseteq Keys
  BY DEF TypeOK, Remember, Event

(* A prefix of a sequence is what a power loss leaves of the journal. *)
LEMMA PrefixIsSeq ==
  ASSUME NEW T, NEW s \in Seq(T), NEW n \in 0 .. Len(s)
  PROVE  /\ SubSeq(s, 1, n) \in Seq(T) /\ Len(SubSeq(s, 1, n)) = n
         /\ \A i \in 1 .. n : SubSeq(s, 1, n)[i] = s[i]
  OBVIOUS

LEMMA TypeInit == Init => TypeInv
<1> SUFFICES ASSUME Init PROVE TypeInv
  OBVIOUS
<1>1. pc = "absent" /\ pc \in PC
  BY DEF Init, PC
<1>2. lines \in Seq(Event) /\ events \in Seq(Event)
  BY DEF Init
<1>3. latest \in [Keys -> Int]
  BY DEF Init, NoAttempts
<1>4. manifest \in [content : Manifests \cup {NoManifest},
                  state : {"none", "partial", "whole", "synced"}]
  BY DEF Init
<1>5. TypeOK
  BY <1>1, <1>2, <1>3, <1>4 DEF Init, TypeOK
<1> QED
  BY <1>1, <1>5, PCSteps DEF TypeInv

LEMMA TypeStep == TypeInv /\ [Next]_vars => TypeInv'
<1> SUFFICES ASSUME TypeInv, [Next]_vars PROVE TypeInv'
  OBVIOUS
<1> USE DEF TypeInv, TypeOK, dirVars, manifestVars, journalVars, callVars,
            memoryVars, historyVars, budgetVars
<1>1. ASSUME NEW m \in Manifests, OpenBegin(m) PROVE TypeInv'
  BY <1>1 DEF OpenBegin, PC, AppendSteps, OpenSteps, PublishSteps
<1>2. CASE EnsureRoot
  BY <1>2 DEF EnsureRoot, EnsureDirectory, Entries, PC, AppendSteps, OpenSteps, PublishSteps
<1>3. CASE SyncRoot
  BY <1>3 DEF SyncRoot, SyncDirectory, Synced, PC, AppendSteps, OpenSteps, PublishSteps
<1>4. CASE EnsureRun
  BY <1>4 DEF EnsureRun, EnsureDirectory, Entries, PC, AppendSteps, OpenSteps, PublishSteps
<1>5. CASE SyncRun
  BY <1>5 DEF SyncRun, SyncDirectory, Synced, PC, AppendSteps, OpenSteps, PublishSteps
<1>6. CASE FindManifest
  BY <1>6 DEF FindManifest, PC, AppendSteps, OpenSteps, PublishSteps
<1>7. CASE RefuseOrphan
  BY <1>7, ForgetType, PCSteps DEF RefuseOrphan, PC, AppendSteps
<1>8. CASE WriteTemp
  BY <1>8 DEF WriteTemp, PC, AppendSteps, OpenSteps, PublishSteps
<1>9. CASE SyncTemp
  BY <1>9 DEF SyncTemp, PC, AppendSteps, OpenSteps, PublishSteps
<1>10. CASE LinkManifest
  BY <1>10 DEF LinkManifest, Entries, PC, AppendSteps, OpenSteps, PublishSteps
<1>11. CASE SyncLink
  BY <1>11 DEF SyncLink, SyncDirectory, Synced, PC, AppendSteps, OpenSteps, PublishSteps
<1>12. CASE UnlinkTemp
  BY <1>12 DEF UnlinkTemp, Synced, PC, AppendSteps, OpenSteps, PublishSteps
<1>13. CASE AbandonTemp
  BY <1>13, ForgetType, PCSteps DEF AbandonTemp, Synced, NoteInterruption, PC, AppendSteps
<1>14. CASE LoadManifest
  BY <1>14 DEF LoadManifest, PC, AppendSteps, OpenSteps, PublishSteps
<1>15. CASE RefuseManifest
  BY <1>15, ForgetType, PCSteps DEF RefuseManifest, PC, AppendSteps
<1>16. CASE ScanLine
  <2>1. Next_line \in Event /\ Next_line.key \in Keys
    BY <1>16 DEF ScanLine, Next_line, Transition
  <2>2. events' \in Seq(Event) /\ latest' \in [Keys -> Int] /\ completed' \subseteq Keys
    BY <1>16, <2>1, RememberType DEF ScanLine
  <2> QED
    BY <1>16, <2>2 DEF ScanLine
<1>17. CASE ScanDone
  BY <1>17 DEF ScanDone, PC, AppendSteps, OpenSteps, PublishSteps
<1>18. CASE RefuseJournal
  BY <1>18, ForgetType, PCSteps DEF RefuseJournal, PC, AppendSteps
<1>19. ASSUME NEW k, NEW i \in 0 .. MaxIndex, NEW r \in Results, AppendAttempt(k, i, r),
              k \in Keys \cup ForeignKeys PROVE TypeInv'
  BY <1>19 DEF AppendAttempt, AppendBegin, Event, Transition, PC, AppendSteps, OpenSteps, PublishSteps
<1>20. ASSUME NEW k \in Keys \cup ForeignKeys, NEW i \in 0 .. MaxIndex,
              Finalize(k, i) PROVE TypeInv'
  BY <1>20 DEF Finalize, AppendBegin, Event, Transition, PC, AppendSteps, OpenSteps, PublishSteps
<1>21. CASE OpenJournalFile
  BY <1>21 DEF OpenJournalFile, Entries, PC, AppendSteps, OpenSteps, PublishSteps
<1>22. CASE WriteSome
  BY <1>22 DEF WriteSome, PC, AppendSteps, OpenSteps, PublishSteps
<1>23. CASE WriteRest
  <2>1. pending \in Event
    BY <1>23 DEF WriteRest, AppendSteps
  <2>2. lines' \in Seq(Event)
    BY <1>23, <2>1 DEF WriteRest
  <2> QED
    BY <1>23, <2>1, <2>2 DEF WriteRest, PC, AppendSteps
<1>24. CASE SyncJournalFile
  BY <1>24 DEF SyncJournalFile, PC, AppendSteps, OpenSteps, PublishSteps
<1>25. CASE SyncJournalEntry
  BY <1>25 DEF SyncJournalEntry, SyncDirectory, Synced, PC, AppendSteps, OpenSteps, PublishSteps
<1>26. CASE AppendReturns
  <2>1. pending \in Event /\ pending.key \in Keys
    BY <1>26 DEF AppendReturns, AppendSteps
  <2>2. events' \in Seq(Event) /\ latest' \in [Keys -> Int] /\ completed' \subseteq Keys
    BY <1>26, <2>1, RememberType DEF AppendReturns
  <2> QED
    BY <1>26, <2>1, <2>2, PCSteps DEF AppendReturns, PC
<1>27. CASE Close
  BY <1>27, ForgetType, PCSteps DEF Close, PC, AppendSteps
<1>28. CASE OpenFails
  BY <1>28, ForgetType, PCSteps DEF OpenFails, NoteInterruption, PC, AppendSteps
<1>29. CASE PublishFails
  BY <1>29 DEF PublishFails, PC, AppendSteps, OpenSteps, PublishSteps
<1>30. CASE AppendFails
  <2>1. pc # "absent" /\ pc' = "poisoned"
    BY <1>30, PCSteps DEF AppendFails
  <2>2. interrupted' \in BOOLEAN
    BY <1>30 DEF AppendFails, NoteInterruption
  <2>3. faults' \in Nat
    BY <1>30 DEF AppendFails
  <2> QED
    BY <1>30, <2>1, <2>2, <2>3, PCSteps DEF AppendFails, PC
<1>31. CASE Kill
  BY <1>31, ForgetType, PCSteps DEF Kill, NoteInterruption, PC, AppendSteps
<1>32. CASE PowerLoss
  <2>1. PICK S \in SUBSET entries, n \in durable .. Len(lines), tail \in BOOLEAN :
          SurvivingFiles(Rooted(S), n, tail)
    BY <1>32 DEF PowerLoss
  <2>2. Rooted(S) \subseteq Entries /\ n \in Nat
    BY DEF Rooted
  <2>3. lines' \in Seq(Event)
    <3>1. SubSeq(lines, 1, n) \in Seq(Event) /\ <<>> \in Seq(Event)
      BY PrefixIsSeq
    <3> QED
      BY <2>1, <3>1 DEF SurvivingFiles
  <2>4. manifest' \in [content : Manifests \cup {NoManifest},
                    state : {"none", "partial", "whole", "synced"}]
    BY <2>1 DEF SurvivingFiles
  <2>5. /\ entries' \subseteq Entries /\ synced' \subseteq Entries
        /\ torn' \in BOOLEAN /\ durable' \in Nat /\ acked' \subseteq Event
    <3>1. entries' \subseteq Entries /\ synced' \subseteq Entries
      BY <2>1, <2>2 DEF SurvivingFiles
    <3>2. (torn' = tail /\ durable' = n) \/ (torn' = FALSE /\ durable' = 0)
      BY <2>1, Zenon DEF SurvivingFiles
    <3>3. acked' \subseteq acked
      BY <2>1 DEF SurvivingFiles
    <3>4. torn' \in BOOLEAN
      BY <3>2, Zenon
    <3>5. durable' \in Nat
      BY <3>2, <2>2
    <3> QED
      BY <3>1, <3>3, <3>4, <3>5
  <2>6. /\ temp' = "none" /\ interrupted' = FALSE
        /\ faults' \in Nat /\ losses' \in Nat /\ Forget
    BY <1>32 DEF PowerLoss
  <2> QED
    <3>1. /\ pc' = "absent" /\ want' = NoManifest /\ pending' = NoEvent
          /\ creating' = FALSE /\ events' \in Seq(Event)
          /\ latest' \in [Keys -> Int] /\ completed' \subseteq Keys
      BY <2>6, ForgetType
    <3>2. pc' \in PC /\ pc' \notin AppendSteps
      BY <3>1, PCSteps
    <3> QED
      BY <2>3, <2>4, <2>5, <2>6, <3>1, <3>2
<1>33. CASE UNCHANGED vars
  BY <1>33 DEF vars
<1> QED
  BY <1>1, <1>2, <1>3, <1>4, <1>5, <1>6, <1>7, <1>8, <1>9, <1>10, <1>11, <1>12, <1>13, <1>14, <1>15, <1>16, <1>17, <1>18, <1>19, <1>20, <1>21, <1>22, <1>23, <1>24, <1>25, <1>26, <1>27, <1>28, <1>29, <1>30, <1>31, <1>32, <1>33
  DEF Next, Call, Work, Fault

(* Every variable keeps its type, whatever the caller and the operating system
   do: one writer at a time, and its memory over the run's own keys. *)
THEOREM TypeCorrect == Spec => []TypeOK
<1>1. TypeInv => TypeOK
  BY DEF TypeInv
<1> QED
  BY <1>1, TypeInit, TypeStep, PTL DEF Spec

-----------------------------------------------------------------------------
(* The event grammar keeps a history legal.                                *)

(* What is left of a legal history by a power loss is legal. *)
LEMMA LegalPrefix ==
  ASSUME NEW s \in Seq(Event), NEW n \in 0 .. Len(s), LegalHistory(s)
  PROVE  LegalHistory(SubSeq(s, 1, n))
  BY PrefixIsSeq DEF LegalHistory, IsAttempt

(* An event that _transition lets pass extends a legal history legally. *)
LEMMA LegalAppend ==
  ASSUME NEW s \in Seq(Event), NEW lat \in [Keys -> Int], NEW done \in SUBSET Keys,
         NEW e \in Event,
         LegalHistory(s), Summarises(lat, done, s), Transition(e, lat, done)
  PROVE  LegalHistory(Append(s, e))
<1> DEFINE t == Append(s, e)
<1>1. /\ Len(t) = Len(s) + 1 /\ t[Len(s) + 1] = e /\ Len(s) \in Nat
      /\ \A i \in 1 .. Len(s) : t[i] = s[i]
  OBVIOUS
<1> HIDE DEF t
<1> SUFFICES ASSUME NEW i \in 1 .. Len(t)
             PROVE  /\ t[i].key \in Keys
                    /\ t[i].kind = "attempt" =>
                         /\ t[i].index = 0 \/ \E j \in 1 .. i - 1 :
                               IsAttempt(t[j], t[i].key) /\ t[j].index = t[i].index - 1
                         /\ \A j \in 1 .. i - 1 :
                               IsAttempt(t[j], t[i].key) => t[j].index < t[i].index
                    /\ t[i].kind = "finalized" =>
                         /\ \E j \in 1 .. i - 1 :
                               IsAttempt(t[j], t[i].key) /\ t[j].index = t[i].index
                         /\ \A j \in 1 .. i - 1 :
                               IsAttempt(t[j], t[i].key) => t[j].index <= t[i].index
                         /\ \A j \in i + 1 .. Len(t) : t[j].key # t[i].key
  BY DEF LegalHistory, t
<1>2. CASE i <= Len(s)
  <2>1. t[i] = s[i] /\ i \in 1 .. Len(s) /\ \A j \in 1 .. i - 1 : t[j] = s[j]
    BY <1>1, <1>2
  <2>2. s[i].kind = "finalized" => s[i].key \in done
    BY <2>1 DEF Summarises, LegalHistory
  <2>3. s[i].kind = "finalized" => \A j \in i + 1 .. Len(t) : t[j].key # t[i].key
    <3> SUFFICES ASSUME s[i].kind = "finalized", NEW j \in i + 1 .. Len(t)
                 PROVE  t[j].key # s[i].key
      BY <2>1
    <3>1. CASE j <= Len(s)
      BY <1>1, <2>1, <3>1 DEF LegalHistory
    <3>2. CASE j = Len(s) + 1
      BY <1>1, <2>2, <3>2 DEF Transition
    <3> QED
      BY <1>1, <3>1, <3>2
  <2> QED
    BY <2>1, <2>3 DEF LegalHistory
<1>3. CASE i = Len(s) + 1
  <2>1. t[i] = e /\ \A j \in 1 .. i - 1 : t[j] = s[j] /\ j \in 1 .. Len(s)
    BY <1>1, <1>3
  <2>2. e.key \in Keys /\ e.index \in Nat /\ lat[e.key] \in Int /\ lat[e.key] >= -1
    BY DEF Transition, Event, Summarises
  <2>3. \A j \in 1 .. i - 1 : IsAttempt(t[j], e.key) => t[j].index <= lat[e.key]
    BY <2>1, <2>2 DEF Summarises
  <2>4. lat[e.key] >= 0 => \E j \in 1 .. i - 1 :
           IsAttempt(t[j], e.key) /\ t[j].index = lat[e.key]
    BY <1>3, <2>1, <2>2 DEF Summarises
  <2>5. CASE e.kind = "attempt" /\ e.index = lat[e.key] + 1
    <3>1. \A j \in 1 .. i - 1 : t[j] \in Event
      BY <2>1
    <3>2. \A j \in 1 .. i - 1 : t[j].index \in Nat
      BY <3>1 DEF Event
    <3>3. \A j \in 1 .. i - 1 : IsAttempt(t[j], e.key) => t[j].index < e.index
      BY <2>2, <2>3, <2>5, <3>2
    <3>4. e.index = 0 \/ \E j \in 1 .. i - 1 :
             IsAttempt(t[j], e.key) /\ t[j].index = e.index - 1
      BY <2>2, <2>4, <2>5
    <3> QED
      BY <2>1, <2>2, <2>5, <3>3, <3>4
  <2>6. CASE e.kind = "finalized" /\ lat[e.key] >= 0 /\ e.index = lat[e.key]
    BY <1>1, <1>3, <2>1, <2>2, <2>3, <2>4, <2>6
  <2> QED
    BY <2>5, <2>6 DEF Transition
<1> QED
  BY <1>1, <1>2, <1>3

(* ... and _remember keeps the memory its summary. *)
LEMMA SummaryAppend ==
  ASSUME TypeOK, NEW e \in Event, Summarises(latest, completed, events),
         Transition(e, latest, completed), Remember(e)
  PROVE  Summarises(latest', completed', events')
<1> DEFINE t == Append(events, e)
<1>1. /\ Len(t) = Len(events) + 1 /\ t[Len(events) + 1] = e /\ Len(events) \in Nat
      /\ \A i \in 1 .. Len(events) : t[i] = events[i]
      /\ events' = t
  BY DEF TypeOK, Remember
<1>t. /\ latest \in [Keys -> Int] /\ e.key \in Keys /\ e.index \in Nat
  BY DEF TypeOK, Transition, Event
<1> HIDE DEF t
<1>2. CASE e.kind = "attempt" /\ e.index = latest[e.key] + 1
  <2>1. latest' = [latest EXCEPT ![e.key] = e.index] /\ completed' = completed
    BY <1>2 DEF Remember
  <2> SUFFICES ASSUME NEW k \in Keys
               PROVE  /\ latest'[k] >= -1
                      /\ latest'[k] >= 0 => \E i \in 1 .. Len(t) :
                           IsAttempt(t[i], k) /\ t[i].index = latest'[k]
                      /\ \A i \in 1 .. Len(t) :
                           IsAttempt(t[i], k) => t[i].index <= latest'[k]
                      /\ k \in completed <=>
                           \E i \in 1 .. Len(t) : t[i].kind = "finalized" /\ t[i].key = k
    BY <1>1, <2>1 DEF Summarises
  <2>2. k \in completed <=>
          \E i \in 1 .. Len(t) : t[i].kind = "finalized" /\ t[i].key = k
    BY <1>1, <1>2 DEF Summarises
  <2>3. \A i \in 1 .. Len(events) : events[i] \in Event
    BY DEF TypeOK
  <2>4. \A i \in 1 .. Len(events) : events[i].index \in Nat
    BY <2>3 DEF Event
  <2>5. CASE k = e.key
    <3>1. latest'[k] = latest[k] + 1 /\ latest'[k] = e.index /\ latest[k] >= -1
      BY <1>2, <1>t, <2>1, <2>5 DEF Summarises
    <3>2. IsAttempt(t[Len(events) + 1], k)
      BY <1>1, <1>2, <2>5 DEF IsAttempt
    <3>3. \A i \in 1 .. Len(events) : IsAttempt(events[i], k) => events[i].index <= latest[k]
      BY DEF Summarises
    <3> QED
      BY <1>1, <1>t, <2>2, <2>4, <3>1, <3>2, <3>3
  <2>6. CASE k # e.key
    <3>1. latest'[k] = latest[k]
      BY <1>t, <2>1, <2>6
    <3>2. ~IsAttempt(t[Len(events) + 1], k)
      BY <1>1, <2>6 DEF IsAttempt
    <3> QED
      BY <1>1, <2>2, <3>1, <3>2 DEF Summarises
  <2> QED
    BY <2>5, <2>6
<1>3. CASE e.kind = "finalized"
  <2>1. latest' = latest /\ completed' = completed \cup {e.key}
    BY <1>3 DEF Remember
  <2> QED
    BY <1>1, <1>3, <1>t, <2>1 DEF Summarises, IsAttempt
<1> QED
  BY <1>2, <1>3 DEF Transition

-----------------------------------------------------------------------------
(* The journal on disk is legal and the memory is its summary.  The        *)
(* strengthening says, for each place the writer can be, how much of the   *)
(* file the memory already or still covers.                                *)

\* Places where the writer object has read nothing yet.
Fresh == {"absent"} \cup (OpenSteps \ {"scan"}) \cup PublishSteps

HistoryInv ==
  /\ LegalHistory(lines)
  /\ Summarises(latest, completed, events)
  /\ pc \in Fresh => events = <<>>
  /\ pc = "scan" => /\ Len(events) <= Len(lines)
                    /\ \A i \in 1 .. Len(events) : events[i] = lines[i]
  /\ pc \in {"open", "create", "write"} => events = lines
  /\ pc \in {"open", "create"} => ~torn
  /\ pc \in {"fsync", "fsyncDir", "close"} =>
       lines = Append(events, pending) /\ ~torn
  /\ pc \in AppendSteps => Transition(pending, latest, completed)

LEMMA EmptySummary == Summarises(NoAttempts, {}, <<>>) /\ LegalHistory(<<>>)
  BY DEF Summarises, NoAttempts, LegalHistory

(* A step of an open() that reads and writes no record. *)
LEMMA HistoryQuiet ==
  ASSUME HistoryInv, pc \in Fresh, pc' \in Fresh,
         UNCHANGED <<journalVars, memoryVars>>
  PROVE  HistoryInv'
  BY DEF HistoryInv, journalVars, memoryVars, Fresh, OpenSteps, PublishSteps,
         AppendSteps, LegalHistory, IsAttempt, Summarises

(* The end of a writer object. *)
LEMMA HistoryForget ==
  ASSUME Forget, LegalHistory(lines')
  PROVE  HistoryInv'
<1>1. pc' = "absent" /\ events' = <<>> /\ latest' = NoAttempts /\ completed' = {}
  BY DEF Forget
<1>2. Summarises(latest', completed', events')
  BY <1>1, EmptySummary
<1> QED
  BY <1>1, <1>2, PCSteps DEF HistoryInv, LegalHistory, IsAttempt, Summarises

LEMMA HistoryInit == Init => HistoryInv
  BY EmptySummary, PCSteps DEF Init, HistoryInv

LEMMA HistoryStep == TypeInv /\ HistoryInv /\ [Next]_vars => HistoryInv'
<1> SUFFICES ASSUME TypeInv, HistoryInv, [Next]_vars PROVE HistoryInv'
  OBVIOUS
<1>1. ASSUME NEW m \in Manifests, OpenBegin(m) PROVE HistoryInv'
  BY <1>1, HistoryQuiet DEF OpenBegin, Fresh, OpenSteps, journalVars
<1>2. CASE EnsureRoot \/ EnsureRun
  BY <1>2, HistoryQuiet
  DEF EnsureRoot, EnsureRun, EnsureDirectory, Fresh, OpenSteps
<1>3. CASE SyncRoot \/ SyncRun \/ SyncLink
  BY <1>3, HistoryQuiet
  DEF SyncRoot, SyncRun, SyncLink, SyncDirectory, Fresh, OpenSteps, PublishSteps
<1>4. CASE FindManifest \/ WriteTemp \/ SyncTemp \/ LinkManifest
  BY <1>4, HistoryQuiet
  DEF FindManifest, WriteTemp, SyncTemp, LinkManifest, Fresh, OpenSteps,
      PublishSteps, journalVars
<1>5. CASE UnlinkTemp \/ PublishFails
  BY <1>5, HistoryQuiet
  DEF UnlinkTemp, PublishFails, Fresh, OpenSteps, PublishSteps, journalVars
<1>6. CASE \/ RefuseOrphan \/ AbandonTemp \/ RefuseManifest \/ RefuseJournal
           \/ Close \/ OpenFails \/ Kill
  <2>1. Forget /\ lines' = lines
    BY <1>6 DEF RefuseOrphan, AbandonTemp, RefuseManifest, RefuseJournal, Close,
                OpenFails, Kill, journalVars
  <2>2. LegalHistory(lines')
    BY <2>1 DEF HistoryInv
  <2> QED
    BY <2>1, <2>2, HistoryForget
<1>7. CASE PowerLoss
  <2>1. PICK S \in SUBSET entries, n \in durable .. Len(lines), tail \in BOOLEAN :
          SurvivingFiles(Rooted(S), n, tail)
    BY <1>7 DEF PowerLoss
  <2>2. lines \in Seq(Event) /\ n \in 0 .. Len(lines)
    BY DEF TypeInv, TypeOK
  <2>3. lines' = SubSeq(lines, 1, n) \/ lines' = <<>>
    BY <2>1, Zenon DEF SurvivingFiles
  <2>4. LegalHistory(lines')
    BY <2>2, <2>3, LegalPrefix, EmptySummary DEF HistoryInv
  <2>5. Forget
    BY <1>7 DEF PowerLoss
  <2> QED
    BY <2>4, <2>5, HistoryForget
<1>8. CASE LoadManifest
  <2>1. /\ pc = "load" /\ pc' = "scan" /\ UNCHANGED <<lines, torn>>
        /\ UNCHANGED <<events, latest, completed>>
    BY <1>8 DEF LoadManifest, journalVars, memoryVars
  <2>2. events = <<>>
    BY <2>1 DEF HistoryInv, Fresh, OpenSteps
  <2>3. Len(lines) \in Nat /\ Len(events) = 0
    BY <2>2 DEF TypeInv, TypeOK
  <2> QED
    BY <2>1, <2>2, <2>3 DEF HistoryInv, Fresh, OpenSteps, PublishSteps,
       AppendSteps, LegalHistory, Summarises, IsAttempt
<1>9. CASE ScanLine
  <2>1. /\ pc = "scan" /\ pc' = "scan" /\ lines' = lines /\ torn' = torn
        /\ Len(events) < Len(lines)
        /\ Transition(Next_line, latest, completed) /\ Remember(Next_line)
    BY <1>9 DEF ScanLine, journalVars
  <2>2. /\ lines \in Seq(Event) /\ events \in Seq(Event) /\ TypeOK
        /\ Next_line = lines[Len(events) + 1]
    BY DEF TypeInv, TypeOK, Next_line
  <2>3. Next_line \in Event
    BY <2>1, <2>2
  <2>4. Summarises(latest', completed', events')
    BY <2>1, <2>2, <2>3, SummaryAppend DEF HistoryInv
  <2>5. events' = Append(events, Next_line)
    BY <2>1 DEF Remember
  <2>6. /\ Len(events') <= Len(lines)
        /\ \A i \in 1 .. Len(events') : events'[i] = lines[i]
    BY <2>1, <2>2, <2>3, <2>5 DEF HistoryInv
  <2> QED
    BY <2>1, <2>4, <2>6 DEF HistoryInv, Fresh, OpenSteps, PublishSteps,
       AppendSteps, LegalHistory, IsAttempt
<1>10. CASE ScanDone
  <2>1. /\ pc = "scan" /\ pc' = "open" /\ UNCHANGED <<lines, torn>>
        /\ UNCHANGED <<events, latest, completed>>
        /\ Len(events) = Len(lines) /\ ~torn
    BY <1>10 DEF ScanDone, journalVars, memoryVars
  <2>2. events = lines
    BY <2>1 DEF HistoryInv, TypeInv, TypeOK
  <2> QED
    BY <2>1, <2>2 DEF HistoryInv, Fresh, OpenSteps, PublishSteps, AppendSteps,
       LegalHistory, Summarises, IsAttempt
<1>11. ASSUME NEW k \in Keys \cup ForeignKeys, NEW i \in 0 .. MaxIndex,
              Finalize(k, i) \/ \E r \in Results : AppendAttempt(k, i, r)
       PROVE  HistoryInv'
  <2>1. PICK e : AppendBegin(e)
    BY <1>11 DEF Finalize, AppendAttempt
  <2>2. /\ pc = "open" /\ pc' = "create" /\ pending' = e
        /\ UNCHANGED <<lines, torn, events, latest, completed>>
        /\ Transition(e, latest, completed)
    BY <2>1 DEF AppendBegin, journalVars, memoryVars
  <2> QED
    BY <2>2 DEF HistoryInv, Fresh, OpenSteps, PublishSteps, AppendSteps,
       LegalHistory, Summarises, IsAttempt, Transition
<1>12. CASE OpenJournalFile \/ WriteSome
  <2>1. /\ pc \in {"create", "write"} /\ pc' = "write" /\ pending' = pending
        /\ UNCHANGED <<lines, events, latest, completed>>
    BY <1>12 DEF OpenJournalFile, WriteSome, journalVars, memoryVars, callVars
  <2> QED
    BY <2>1 DEF HistoryInv, Fresh, OpenSteps, PublishSteps, AppendSteps,
       LegalHistory, Summarises, IsAttempt, Transition
<1>13. CASE WriteRest
  <2>1. /\ pc = "write" /\ pc' = "fsync" /\ pending' = pending /\ ~torn'
        /\ lines' = Append(lines, pending)
        /\ UNCHANGED <<events, latest, completed>>
    BY <1>13 DEF WriteRest, callVars, memoryVars
  <2>2. /\ events = lines /\ pending \in Event /\ lines \in Seq(Event)
        /\ latest \in [Keys -> Int] /\ completed \subseteq Keys
        /\ Transition(pending, latest, completed)
    BY <2>1 DEF HistoryInv, TypeInv, TypeOK, AppendSteps
  <2>3. LegalHistory(lines')
    BY <2>1, <2>2, LegalAppend DEF HistoryInv
  <2>4. LegalHistory(lines)'
    BY <2>3 DEF LegalHistory, IsAttempt
  <2>5. Summarises(latest, completed, events)'
    BY <2>1 DEF HistoryInv, Summarises, IsAttempt
  <2>6. Transition(pending, latest, completed)'
    BY <2>1, <2>2 DEF Transition
  <2>7. (lines = Append(events, pending) /\ ~torn)'
    BY <2>1, <2>2
  <2> QED
    BY <2>1, <2>4, <2>5, <2>6, <2>7 DEF HistoryInv, Fresh, OpenSteps,
       PublishSteps, AppendSteps
<1>14. CASE SyncJournalFile \/ SyncJournalEntry
  <2>1. /\ pc \in {"fsync", "fsyncDir"} /\ pc' \in {"fsyncDir", "close"}
        /\ UNCHANGED <<lines, torn, pending, events, latest, completed>>
    BY <1>14 DEF SyncJournalFile, SyncJournalEntry, SyncDirectory, callVars,
       journalVars, memoryVars
  <2> QED
    BY <2>1 DEF HistoryInv, Fresh, OpenSteps, PublishSteps, AppendSteps,
       LegalHistory, Summarises, IsAttempt, Transition
<1>15. CASE AppendReturns
  <2>1. /\ pc = "close" /\ pc' = "open" /\ UNCHANGED <<lines, torn>>
        /\ Remember(pending) /\ events' = Append(events, pending)
    BY <1>15 DEF AppendReturns, journalVars, Remember
  <2>2. /\ pending \in Event /\ TypeOK /\ Transition(pending, latest, completed)
        /\ lines = Append(events, pending) /\ ~torn
        /\ Summarises(latest, completed, events)
    BY <2>1 DEF HistoryInv, TypeInv, AppendSteps
  <2>3. Summarises(latest', completed', events')
    BY <2>1, <2>2, SummaryAppend
  <2>4. Summarises(latest, completed, events)'
    BY <2>3 DEF Summarises, IsAttempt
  <2>5. LegalHistory(lines)'
    BY <2>1 DEF HistoryInv, LegalHistory, IsAttempt
  <2>6. (events = lines /\ ~torn)'
    BY <2>1, <2>2
  <2> QED
    BY <2>1, <2>4, <2>5, <2>6 DEF HistoryInv, Fresh, OpenSteps, PublishSteps,
       AppendSteps
<1>16. CASE AppendFails
  <2>1. pc' = "poisoned" /\ UNCHANGED <<lines, torn, events, latest, completed>>
    BY <1>16 DEF AppendFails, journalVars, memoryVars
  <2> QED
    BY <2>1 DEF HistoryInv, Fresh, OpenSteps, PublishSteps, AppendSteps,
       LegalHistory, Summarises, IsAttempt
<1>17. CASE UNCHANGED vars
  BY <1>17 DEF vars, journalVars, memoryVars, callVars, HistoryInv,
     LegalHistory, Summarises, IsAttempt, Transition
<1> QED
  BY <1>1, <1>2, <1>3, <1>4, <1>5, <1>6, <1>7, <1>8, <1>9, <1>10, <1>11, <1>12,
     <1>13, <1>14, <1>15, <1>16, <1>17
  DEF Next, Call, Work, Fault

LEMMA HistoryInvariant == Spec => [](TypeInv /\ HistoryInv)
  BY TypeInit, TypeStep, HistoryInit, HistoryStep, PTL DEF Spec

(* The journal on disk is a legal history after any sequence of kills, errors,
   power losses and reopenings: attempts numbered without gap or repetition,
   finalization of the last one, nothing behind it. *)
THEOREM JournalAlwaysLegal == Spec => []JournalIsLegal
<1>1. HistoryInv => JournalIsLegal
  BY DEF HistoryInv, JournalIsLegal
<1> QED
  BY <1>1, HistoryInvariant, PTL

(* A writer that accepts calls has in memory exactly what is on disk. *)
THEOREM MemoryAlwaysEvidence == Spec => []MemoryIsEvidence
<1>1. HistoryInv => MemoryIsEvidence
  BY DEF HistoryInv, MemoryIsEvidence
<1> QED
  BY <1>1, HistoryInvariant, PTL

-----------------------------------------------------------------------------
(***************************************************************************)
(* The manifest.  What open() has found out about the run directory stays  *)
(* true while it goes on, and a record is written under the manifest found.*)
(***************************************************************************)
Publishing == {"temp", "syncTemp", "link"}
Published == {"syncLink", "unlink", "load", "scan", "open"} \cup AppendSteps
Loaded == {"scan", "open"} \cup AppendSteps

FilesInv ==
  /\ ManifestIsWhole
  /\ OneManifestPerJournal
  /\ "journal.jsonl" \notin entries => lines = <<>>
  /\ pc \in Publishing => RunFiles \cap entries = {}
  /\ pc = "link" => temp = "synced"
  /\ pc \in Published => "manifest.json" \in entries
  /\ pc \in Loaded => manifest.content = want
  /\ pc \in AppendSteps => pending.by = want
  /\ pc \in AppendSteps \ {"create"} => "journal.jsonl" \in entries

LEMMA Places ==
  /\ Loaded \subseteq Published /\ AppendSteps \subseteq Loaded
  /\ Publishing \cap Published = {} /\ Publishing \cap AppendSteps = {}
  /\ "absent" \notin Publishing \cup Published
  /\ "poisoned" \notin Publishing \cup Published
  /\ "abandon" \notin Publishing \cup Published
  BY DEF Publishing, Published, Loaded, AppendSteps

(* A writer that ends, or fails, leaves the files as they are. *)
LEMMA FilesLeft ==
  ASSUME FilesInv, pc' \in {"absent", "poisoned", "abandon"},
         UNCHANGED <<entries, manifest, lines>>
  PROVE  FilesInv'
  BY Places DEF FilesInv, ManifestIsWhole, OneManifestPerJournal

LEMMA FilesInit == Init => FilesInv
  BY Places DEF Init, FilesInv, ManifestIsWhole, OneManifestPerJournal

LEMMA FilesStep == TypeInv /\ FilesInv /\ [Next]_vars => FilesInv'
<1> SUFFICES ASSUME TypeInv, FilesInv, [Next]_vars PROVE FilesInv'
  OBVIOUS
<1> USE DEF FilesInv, ManifestIsWhole, OneManifestPerJournal
<1>1. ASSUME NEW m \in Manifests, OpenBegin(m) PROVE FilesInv'
  BY <1>1 DEF OpenBegin, dirVars, manifestVars, journalVars, Publishing,
     Published, Loaded, AppendSteps
<1>2. CASE EnsureRoot \/ EnsureRun
  BY <1>2 DEF EnsureRoot, EnsureRun, EnsureDirectory, manifestVars, journalVars,
     Publishing, Published, Loaded, AppendSteps, RunFiles
<1>3. CASE SyncRoot \/ SyncRun \/ SyncLink
  BY <1>3 DEF SyncRoot, SyncRun, SyncLink, SyncDirectory, manifestVars,
     journalVars, Publishing, Published, Loaded, AppendSteps
<1>4. CASE FindManifest
  BY <1>4 DEF FindManifest, dirVars, manifestVars, journalVars, Publishing,
     Published, Loaded, AppendSteps, RunFiles
<1>5. CASE WriteTemp \/ SyncTemp
  BY <1>5 DEF WriteTemp, SyncTemp, dirVars, journalVars, Publishing, Published,
     Loaded, AppendSteps
<1>6. CASE LinkManifest
  <2>1. lines = <<>> /\ temp = "synced" /\ pc' = "syncLink" /\ lines' = lines
    BY <1>6 DEF LinkManifest, Publishing, RunFiles, journalVars
  <2>2. Len(lines') = 0
    BY <2>1
  <2> QED
    BY <1>6, <2>1, <2>2 DEF LinkManifest, Publishing, Published, Loaded,
       AppendSteps
<1>7. CASE UnlinkTemp
  BY <1>7 DEF UnlinkTemp, journalVars, Publishing, Published, Loaded, AppendSteps
<1>8. CASE \/ RefuseOrphan \/ AbandonTemp \/ RefuseManifest \/ RefuseJournal
           \/ Close \/ OpenFails \/ Kill \/ PublishFails \/ AppendFails
  <2>1. /\ pc' \in {"absent", "poisoned", "abandon"}
        /\ UNCHANGED <<entries, manifest, lines>>
    BY <1>8 DEF RefuseOrphan, AbandonTemp, RefuseManifest, RefuseJournal, Close,
       OpenFails, Kill, PublishFails, AppendFails, Forget, dirVars,
       manifestVars, journalVars
  <2> QED
    BY <2>1, FilesLeft
<1>9. CASE LoadManifest
  BY <1>9 DEF LoadManifest, Loadable, dirVars, manifestVars, journalVars,
     callVars, Publishing, Published, Loaded, AppendSteps
<1>10. CASE ScanLine \/ ScanDone
  BY <1>10 DEF ScanLine, ScanDone, dirVars, manifestVars, journalVars, callVars,
     Publishing, Published, Loaded, AppendSteps
<1>11. ASSUME NEW k \in Keys \cup ForeignKeys, NEW i \in 0 .. MaxIndex,
              Finalize(k, i) \/ \E r \in Results : AppendAttempt(k, i, r)
       PROVE  FilesInv'
  <2>1. PICK e : AppendBegin(e) /\ e.by = want
    <3>1. CASE Finalize(k, i)
      BY <3>1 DEF Finalize
    <3>2. CASE \E r \in Results : AppendAttempt(k, i, r)
      BY <3>2 DEF AppendAttempt
    <3> QED
      BY <1>11, <3>1, <3>2
  <2> QED
    BY <2>1 DEF AppendBegin, dirVars, manifestVars, journalVars, Publishing,
       Published, Loaded, AppendSteps
<1>12. CASE OpenJournalFile \/ WriteSome
  BY <1>12 DEF OpenJournalFile, WriteSome, dirVars, manifestVars, journalVars,
     callVars, Publishing, Published, Loaded, AppendSteps
<1>13. CASE WriteRest
  <2>1. /\ pc = "write" /\ pc' = "fsync" /\ lines' = Append(lines, pending)
        /\ UNCHANGED <<entries, manifest, want, pending>>
    BY <1>13 DEF WriteRest, dirVars, manifestVars, callVars
  <2>2. /\ {"manifest.json", "journal.jsonl"} \subseteq entries
        /\ pending.by = want /\ manifest.content = want
    BY <2>1 DEF Published, Loaded, AppendSteps
  <2>3. lines \in Seq(Event)
    BY DEF TypeInv, TypeOK
  <2>4. \A i \in 1 .. Len(lines') : lines'[i].by = manifest.content
    BY <2>1, <2>2, <2>3
  <2> QED
    BY <2>1, <2>2, <2>4 DEF Publishing, Published, Loaded, AppendSteps
<1>14. CASE SyncJournalFile \/ SyncJournalEntry
  BY <1>14 DEF SyncJournalFile, SyncJournalEntry, SyncDirectory, dirVars,
     manifestVars, journalVars, callVars, Publishing, Published, Loaded,
     AppendSteps
<1>15. CASE AppendReturns
  BY <1>15 DEF AppendReturns, dirVars, manifestVars, journalVars, Publishing,
     Published, Loaded, AppendSteps
<1>16. CASE PowerLoss
  <2>1. PICK S \in SUBSET entries, n \in durable .. Len(lines), tail \in BOOLEAN :
          SurvivingFiles(Rooted(S), n, tail)
    BY <1>16 DEF PowerLoss
  <2>2. lines \in Seq(Event) /\ n \in 0 .. Len(lines)
    BY DEF TypeInv, TypeOK
  <2>3. pc' = "absent" /\ entries' \subseteq entries
    BY <1>16, <2>1 DEF PowerLoss, Forget, SurvivingFiles, Rooted
  <2>4. \/ "journal.jsonl" \in entries' /\ lines' = SubSeq(lines, 1, n)
        \/ lines' = <<>>
    BY <2>1, Zenon DEF SurvivingFiles
  <2>5. "manifest.json" \in entries' =>
          manifest.state = "synced" /\ manifest' = manifest
    BY <2>1, <2>3 DEF SurvivingFiles
  <2>6. \A i \in 1 .. Len(lines') : i \in 1 .. Len(lines) /\ lines'[i] = lines[i]
    BY <2>2, <2>4, PrefixIsSeq
  <2>7. "journal.jsonl" \notin entries' => lines' = <<>>
    BY <2>4, <2>1 DEF SurvivingFiles
  <2> QED
    BY <2>3, <2>5, <2>6, <2>7, Places
<1>17. CASE UNCHANGED vars
  BY <1>17 DEF vars, dirVars, manifestVars, journalVars, callVars
<1> QED
  BY <1>1, <1>2, <1>3, <1>4, <1>5, <1>6, <1>7, <1>8, <1>9, <1>10, <1>11, <1>12,
     <1>13, <1>14, <1>15, <1>16, <1>17
  DEF Next, Call, Work, Fault

LEMMA FilesInvariant == Spec => [](TypeInv /\ FilesInv)
  BY TypeInit, TypeStep, FilesInit, FilesStep, PTL DEF Spec

(* Whoever finds manifest.json finds all of it, also after a power loss in the
   middle of its publication. *)
THEOREM ManifestAlwaysWhole == Spec => []ManifestIsWhole
<1>1. FilesInv => ManifestIsWhole
  BY DEF FilesInv
<1> QED
  BY <1>1, FilesInvariant, PTL

(* No journal ever holds a record that was written under another manifest than
   the one that lies beside it, for any number of callers with any manifests. *)
THEOREM JournalKeepsItsManifest == Spec => []OneManifestPerJournal
<1>1. FilesInv => OneManifestPerJournal
  BY DEF FilesInv
<1> QED
  BY <1>1, FilesInvariant, PTL

(* What was acknowledged is in the journal: a power loss takes both. *)
LEMMA AckedStep ==
  TypeInv /\ HistoryInv /\ acked \subseteq Evidence /\ [Next]_vars
    => (acked \subseteq Evidence)'
<1> SUFFICES ASSUME TypeInv, HistoryInv, acked \subseteq Evidence, [Next]_vars
             PROVE  (acked \subseteq Evidence)'
  OBVIOUS
<1>0. lines \in Seq(Event)
  BY DEF TypeInv, TypeOK
<1>1. CASE AppendReturns
  <2>1. /\ pc = "close" /\ acked' = acked \cup {pending} /\ lines' = lines
        /\ pending \in Event /\ events \in Seq(Event)
    BY <1>1 DEF AppendReturns, journalVars, TypeInv, TypeOK, AppendSteps
  <2>2. lines = Append(events, pending)
    BY <2>1 DEF HistoryInv
  <2>3. lines[Len(lines)] = pending /\ Len(lines) \in 1 .. Len(lines)
    BY <2>1, <2>2
  <2>4. pending \in Evidence
    BY <2>3 DEF Evidence
  <2> QED
    BY <2>1, <2>4 DEF Evidence
<1>2. CASE PowerLoss
  BY <1>2 DEF PowerLoss, SurvivingFiles, Evidence
<1>3. CASE WriteRest
  <2>1. /\ pc = "write" /\ acked' = acked /\ lines' = Append(lines, pending)
        /\ pending \in Event
    BY <1>3 DEF WriteRest, historyVars, TypeInv, AppendSteps
  <2>2. \A i \in 1 .. Len(lines) : i \in 1 .. Len(lines') /\ lines'[i] = lines[i]
    BY <1>0, <2>1
  <2> QED
    BY <2>1, <2>2 DEF Evidence
<1>4. CASE UNCHANGED <<acked, lines>>
  BY <1>4 DEF Evidence
<1>5. AppendReturns \/ PowerLoss \/ WriteRest \/ UNCHANGED <<acked, lines>>
  BY DEF Next, Call, Work, Fault, vars, historyVars, journalVars, OpenBegin,
     EnsureRoot, EnsureRun, EnsureDirectory, SyncRoot, SyncRun, SyncLink,
     SyncDirectory, FindManifest, RefuseOrphan, WriteTemp, SyncTemp,
     LinkManifest, UnlinkTemp, AbandonTemp, LoadManifest, RefuseManifest,
     ScanLine, ScanDone, RefuseJournal, AppendAttempt, Finalize, AppendBegin,
     OpenJournalFile, WriteSome, SyncJournalFile, SyncJournalEntry, Close,
     OpenFails, PublishFails, AppendFails, Kill
<1> QED
  BY <1>1, <1>2, <1>3, <1>4, <1>5

LEMMA AckedInvariant == Spec => [](acked \subseteq Evidence)
<1>1. Init => acked \subseteq Evidence
  BY DEF Init
<1> QED
  BY <1>1, HistoryInvariant, AckedStep, PTL DEF Spec

(* As long as the power stays on, a record whose append returned is in the
   journal for ever, through kills, errors and reopenings. *)
THEOREM AcknowledgedStays == Spec => []AckedIsEvidence
<1>1. acked \subseteq Evidence => AckedIsEvidence
  BY DEF AckedIsEvidence
<1> QED
  BY <1>1, AckedInvariant, PTL

(***************************************************************************)
(* Durability.  As long as nothing was cut off, every visible name is      *)
(* synced but the one that is just being made, and every acknowledged      *)
(* record lies in the part of the journal that was synced.                 *)
(***************************************************************************)
InCreation ==
  CASE pc = "syncRoot" -> {"root"}
    [] pc = "syncRun" -> {"run"}
    [] pc \in {"syncLink", "abandon"} -> {"manifest.json"}
    [] pc \in {"write", "fsync", "fsyncDir"} ->
         IF creating THEN {"journal.jsonl"} ELSE {}
    [] OTHER -> {}

BelowRoot == {"run", "syncRun"}
BelowRun == {"manifest", "abandon", "poisoned"} \cup Publishing \cup Published

DurableInv ==
  /\ pc \in {"syncRoot"} \cup BelowRoot \cup BelowRun => "root" \in entries
  /\ pc \in {"syncRun"} \cup BelowRun => "run" \in entries
  /\ "run" \in entries => "root" \in entries
  /\ RunFiles \cap entries # {} => "run" \in entries
  /\ pc = "fsyncDir" => creating
  /\ pc \in {"fsyncDir", "close"} => durable = Len(lines)
  /\ durable <= Len(lines)
  /\ ~interrupted => entries \subseteq synced \cup InCreation
  /\ ~interrupted => acked = {} \/ Entries \subseteq synced
  /\ \A e \in acked : \E i \in 1 .. durable : lines[i] = e
(* Names and records that are not touched stay as durable as they were. *)
LEMMA DurableLeft ==
  ASSUME DurableInv, pc' \in {"absent", "poisoned"},
         UNCHANGED <<lines, durable, acked, entries>>,
         synced \subseteq synced',
         ~interrupted' => ~interrupted /\ entries \subseteq synced',
         pc' = "poisoned" => pc \in BelowRun
  PROVE  DurableInv'
  BY DEF DurableInv, InCreation, BelowRoot, BelowRun, Publishing, Published,
     AppendSteps

LEMMA DurableInit == Init => DurableInv
  BY DEF Init, DurableInv, InCreation, BelowRoot, BelowRun, Publishing, Published,
     AppendSteps, RunFiles

LEMMA DurableStep ==
  TypeInv /\ HistoryInv /\ FilesInv /\ DurableInv /\ [Next]_vars => DurableInv'
<1> SUFFICES ASSUME TypeInv, HistoryInv, FilesInv, DurableInv, [Next]_vars
             PROVE  DurableInv'
  OBVIOUS
<1>0. /\ lines \in Seq(Event) /\ durable \in Nat /\ entries \subseteq Entries
      /\ Len(lines) \in Nat
  BY DEF TypeInv, TypeOK
<1>1. ASSUME NEW m \in Manifests, OpenBegin(m) PROVE DurableInv'
  BY <1>1 DEF OpenBegin, dirVars, journalVars, historyVars, DurableInv,
     InCreation, BelowRoot, BelowRun, Publishing, Published, AppendSteps
<1>2. CASE EnsureRoot
  BY <1>2 DEF EnsureRoot, EnsureDirectory, journalVars, historyVars, DurableInv,
     InCreation, BelowRoot, BelowRun, Publishing, Published, AppendSteps, RunFiles
<1>3. CASE EnsureRun
  BY <1>3 DEF EnsureRun, EnsureDirectory, journalVars, historyVars, DurableInv,
     InCreation, BelowRoot, BelowRun, Publishing, Published, AppendSteps, RunFiles
<1>4. CASE SyncRoot
  BY <1>4 DEF SyncRoot, SyncDirectory, Synced, Children, journalVars, historyVars,
     DurableInv, InCreation, BelowRoot, BelowRun, Publishing, Published,
     AppendSteps, RunFiles
<1>5. CASE SyncRun
  BY <1>5 DEF SyncRun, SyncDirectory, Synced, Children, journalVars, historyVars,
     DurableInv, InCreation, BelowRoot, BelowRun, Publishing, Published,
     AppendSteps, RunFiles
<1>6. CASE SyncLink
  BY <1>6 DEF SyncLink, SyncDirectory, Synced, Children, journalVars, historyVars,
     DurableInv, InCreation, BelowRoot, BelowRun, Publishing, Published,
     AppendSteps, RunFiles
<1>7. CASE FindManifest \/ WriteTemp \/ SyncTemp \/ LoadManifest \/ ScanLine
           \/ ScanDone
  BY <1>7 DEF FindManifest, WriteTemp, SyncTemp, LoadManifest, ScanLine, ScanDone,
     dirVars, journalVars, historyVars, DurableInv, InCreation, BelowRoot,
     BelowRun, Publishing, Published, AppendSteps
<1>8. CASE LinkManifest
  BY <1>8 DEF LinkManifest, journalVars, historyVars, DurableInv, InCreation,
     BelowRoot, BelowRun, Publishing, Published, AppendSteps, RunFiles
<1>9. CASE UnlinkTemp
  BY <1>9 DEF UnlinkTemp, Synced, Children, journalVars, historyVars, DurableInv,
     InCreation, BelowRoot, BelowRun, Publishing, Published, AppendSteps
<1>10. CASE PublishFails
  BY <1>10 DEF PublishFails, PublishSteps, dirVars, journalVars, historyVars,
     DurableInv, InCreation, BelowRoot, BelowRun, Publishing, Published,
     AppendSteps
<1>11. CASE \/ RefuseOrphan \/ RefuseManifest \/ RefuseJournal \/ Close
  <2>1. /\ pc \in {"manifest", "load", "scan", "open", "poisoned"}
        /\ pc' = "absent"
        /\ UNCHANGED <<lines, durable, acked, entries, synced, interrupted>>
    BY <1>11 DEF RefuseOrphan, RefuseManifest, RefuseJournal, Close, Forget,
       dirVars, journalVars, historyVars
  <2>2. ~interrupted => entries \subseteq synced
    BY <2>1 DEF DurableInv, InCreation
  <2> QED
    BY <2>1, <2>2, DurableLeft
<1>12. CASE OpenFails \/ Kill \/ AbandonTemp
  <2>1. /\ pc' = "absent" /\ synced \subseteq synced'
        /\ UNCHANGED <<lines, durable, acked, entries>>
        /\ interrupted' = (interrupted \/ ~(entries \subseteq synced'))
    BY <1>12 DEF OpenFails, Kill, AbandonTemp, Forget, NoteInterruption, Synced,
       dirVars, journalVars
  <2> QED
    BY <2>1, DurableLeft
<1>13. CASE AppendFails
  <2>1. /\ pc \in AppendSteps /\ pc' = "poisoned"
        /\ UNCHANGED <<lines, durable, acked, entries, synced>>
        /\ interrupted' = (interrupted \/ ~(entries \subseteq synced'))
    BY <1>13 DEF AppendFails, NoteInterruption, dirVars, journalVars
  <2>2. pc \in BelowRun
    BY <2>1 DEF BelowRun, Published
  <2> QED
    BY <2>1, <2>2, DurableLeft
<1>14. ASSUME NEW k \in Keys \cup ForeignKeys, NEW i \in 0 .. MaxIndex,
              Finalize(k, i) \/ \E r \in Results : AppendAttempt(k, i, r)
       PROVE  DurableInv'
  <2>1. PICK e : AppendBegin(e)
    BY <1>14 DEF Finalize, AppendAttempt
  <2> QED
    BY <2>1 DEF AppendBegin, dirVars, journalVars, historyVars, DurableInv,
       InCreation, BelowRoot, BelowRun, Publishing, Published, AppendSteps
<1>15. CASE OpenJournalFile \/ WriteSome
  BY <1>15 DEF OpenJournalFile, WriteSome, dirVars, callVars, journalVars,
     historyVars, DurableInv, InCreation, BelowRoot, BelowRun, Publishing,
     Published, AppendSteps, RunFiles
<1>16. CASE WriteRest
  <2>1. /\ pc = "write" /\ pc' = "fsync" /\ lines' = Append(lines, pending)
        /\ UNCHANGED <<entries, synced, durable, acked, interrupted, creating>>
    BY <1>16 DEF WriteRest, dirVars, callVars, historyVars
  <2>2. /\ durable <= Len(lines')
        /\ \A i \in 1 .. durable : lines'[i] = lines[i]
    BY <1>0, <2>1 DEF DurableInv
  <2> QED
    BY <2>1, <2>2 DEF DurableInv, InCreation, BelowRoot, BelowRun, Publishing,
       Published, AppendSteps
<1>17. CASE SyncJournalFile
  <2>1. /\ pc = "fsync" /\ pc' = (IF creating THEN "fsyncDir" ELSE "close")
        /\ lines' = lines /\ durable' = Len(lines)
        /\ UNCHANGED <<entries, synced, acked, interrupted, creating>>
    BY <1>17 DEF SyncJournalFile, dirVars, callVars, historyVars
  <2>2. \A e \in acked : \E i \in 1 .. durable' : lines'[i] = e
    BY <1>0, <2>1 DEF DurableInv
  <2> QED
    BY <1>0, <2>1, <2>2 DEF DurableInv, InCreation, BelowRoot, BelowRun,
       Publishing, Published, AppendSteps
<1>18. CASE SyncJournalEntry
  BY <1>18 DEF SyncJournalEntry, SyncDirectory, Synced, Children, journalVars,
     historyVars, callVars, DurableInv, InCreation, BelowRoot, BelowRun,
     Publishing, Published, AppendSteps, RunFiles
<1>19. CASE AppendReturns
  <2>1. /\ pc = "close" /\ pc' = "open" /\ acked' = acked \cup {pending}
        /\ UNCHANGED <<entries, synced, lines, durable, interrupted>>
    BY <1>19 DEF AppendReturns, dirVars, journalVars
  <2>2. /\ pending \in Event /\ events \in Seq(Event)
        /\ lines = Append(events, pending)
    BY <2>1 DEF TypeInv, TypeOK, HistoryInv, AppendSteps
  <2>3. durable = Len(lines) /\ durable \in 1 .. durable /\ lines[durable] = pending
    BY <2>1, <2>2 DEF DurableInv
  <2>4. \A e \in acked' : \E i \in 1 .. durable' : lines'[i] = e
    BY <2>1, <2>3 DEF DurableInv
  <2>5. {"root", "run", "manifest.json", "journal.jsonl"} \subseteq entries
    BY <2>1 DEF FilesInv, DurableInv, BelowRun, Published, AppendSteps
  <2>6. ~interrupted => Entries \subseteq synced
    BY <2>1, <2>5 DEF DurableInv, InCreation, Entries
  <2> QED
    BY <2>1, <2>4, <2>6 DEF DurableInv, InCreation, BelowRoot, BelowRun,
       Publishing, Published, AppendSteps
<1>20. CASE PowerLoss
  <2>1. PICK S \in SUBSET entries, n \in durable .. Len(lines), tail \in BOOLEAN :
          SurvivingFiles(Rooted(S), n, tail)
    BY <1>20 DEF PowerLoss
  <2>2. pc' = "absent" /\ interrupted' = FALSE
    BY <1>20 DEF PowerLoss, Forget
  <2>3. entries' = Rooted(S) /\ synced' = Rooted(S)
    BY <2>1 DEF SurvivingFiles
  <2>4. /\ "run" \in entries' => "root" \in entries'
        /\ RunFiles \cap entries' # {} => "run" \in entries'
    BY <2>3 DEF Rooted, RunFiles
  <2>5. n \in 0 .. Len(lines) /\ Len(SubSeq(lines, 1, n)) = n
    BY <1>0, PrefixIsSeq
  <2>6. \/ lines' = SubSeq(lines, 1, n) /\ durable' = n
        \/ lines' = <<>> /\ durable' = 0
    BY <2>1, Zenon DEF SurvivingFiles
  <2>7. durable' = Len(lines') /\ durable' \in Nat
    BY <2>5, <2>6
  <2>8. \A e \in acked' : Rooted(S) = Entries /\ \E i \in 1 .. Len(lines') : lines'[i] = e
    BY <2>1, Zenon DEF SurvivingFiles
  <2>9. acked' = {} \/ Entries \subseteq synced'
    BY <2>3, <2>8
  <2>10. \A e \in acked' : \E i \in 1 .. durable' : lines'[i] = e
    BY <2>7, <2>8
  <2> QED
    BY <2>2, <2>3, <2>4, <2>7, <2>9, <2>10 DEF DurableInv, InCreation, BelowRoot,
       BelowRun, Publishing, Published, AppendSteps
<1>21. CASE UNCHANGED vars
  BY <1>21 DEF vars, dirVars, journalVars, historyVars, callVars, DurableInv,
     InCreation, BelowRoot, BelowRun, Publishing, Published, AppendSteps
<1> QED
  BY <1>1, <1>2, <1>3, <1>4, <1>5, <1>6, <1>7, <1>8, <1>9, <1>10, <1>11, <1>12,
     <1>13, <1>14, <1>15, <1>16, <1>17, <1>18, <1>19, <1>20, <1>21
  DEF Next, Call, Work, Fault

LEMMA DurableInvariant == Spec => []DurableInv
  BY HistoryInvariant, FilesInvariant, DurableInit, DurableStep, PTL DEF Spec

(* No power loss takes an acknowledged record, unless an open() or an append
   was cut off between making a name and the fsync of its directory: that
   interruption is the only hole, for any number of callers and faults. *)
THEOREM AcknowledgedIsDurable == Spec => []AckedIsDurableUnlessInterrupted
<1>1. TypeInv /\ DurableInv => AckedIsDurableUnlessInterrupted
  BY DEF TypeInv, TypeOK, DurableInv, AckedIsDurableUnlessInterrupted,
     DurableEvidence
<1> QED
  BY <1>1, HistoryInvariant, DurableInvariant, PTL

-----------------------------------------------------------------------------
(***************************************************************************)
(* The journal implements the ledger: seen through what a reader finds in  *)
(* the file, every step of ResultJournal is a step of ExecutionLedger or   *)
(* none at all.                                                            *)
(***************************************************************************)
(* The event an append has under way is one a caller may ask for. *)
PendingInv ==
  pc \in AppendSteps =>
    /\ pending.index \in 0 .. MaxIndex
    /\ pending.kind = "attempt" => pending.result \in Results

LEMMA PendingInit == Init => PendingInv
  BY PCSteps DEF Init, PendingInv

LEMMA PendingStep == TypeInv /\ PendingInv /\ [Next]_vars => PendingInv'
<1> SUFFICES ASSUME TypeInv, PendingInv, [Next]_vars PROVE PendingInv'
  OBVIOUS
<1>1. ASSUME NEW k \in Keys \cup ForeignKeys, NEW i \in 0 .. MaxIndex,
             Finalize(k, i)
      PROVE  PendingInv'
  BY <1>1 DEF Finalize, AppendBegin, PendingInv
<1>2. ASSUME NEW k \in Keys \cup ForeignKeys, NEW i \in 0 .. MaxIndex,
             NEW r \in Results, AppendAttempt(k, i, r)
      PROVE  PendingInv'
  BY <1>2 DEF AppendAttempt, AppendBegin, PendingInv
<1>3. ASSUME \/ OpenJournalFile \/ WriteSome \/ WriteRest \/ SyncJournalFile
             \/ SyncJournalEntry
      PROVE  PendingInv'
  BY <1>3 DEF OpenJournalFile, WriteSome, WriteRest, SyncJournalFile,
     SyncJournalEntry, SyncDirectory, callVars, PendingInv, AppendSteps
<1>4. CASE UNCHANGED vars
  BY <1>4 DEF vars, callVars, PendingInv
<1>5. ASSUME \/ \E m \in Manifests : OpenBegin(m)
             \/ Work /\ ~(\/ OpenJournalFile \/ WriteSome \/ WriteRest
                          \/ SyncJournalFile \/ SyncJournalEntry)
             \/ Close \/ Fault
      PROVE  pc' \notin AppendSteps
  BY <1>5, PCSteps DEF Work, Fault, OpenBegin, EnsureRoot, EnsureRun,
     EnsureDirectory, SyncRoot, SyncRun, SyncLink, SyncDirectory, FindManifest,
     RefuseOrphan, WriteTemp, SyncTemp, LinkManifest, UnlinkTemp, AbandonTemp,
     LoadManifest, RefuseManifest, ScanLine, ScanDone, RefuseJournal, Close,
     AppendReturns, OpenFails, PublishFails, AppendFails, Kill, PowerLoss, Forget,
     AppendSteps
<1> QED
  BY <1>1, <1>2, <1>3, <1>4, <1>5 DEF Next, Call, PendingInv

(***************************************************************************)
(* A journal line by line, and the ledger it stands for.                   *)
(***************************************************************************)
AttemptOf(e) == [key |-> e.key, index |-> e.index, result |-> e.result]
OutcomeOf(e) == [key |-> e.key, index |-> e.index]

LEMMA AttemptLines ==
  \A a : a \in LedgerAttempts <=>
    \E i \in 1 .. Len(lines) : lines[i].kind = "attempt" /\ a = AttemptOf(lines[i])
  BY DEF LedgerAttempts, Evidence, AttemptOf

LEMMA OutcomeLines ==
  \A o : o \in LedgerOutcomes <=>
    \E i \in 1 .. Len(lines) : lines[i].kind = "finalized" /\ o = OutcomeOf(lines[i])
  BY DEF LedgerOutcomes, Evidence, OutcomeOf

(* The numbers a reader finds recorded for an execution, and whether it is
   closed, in terms of the lines. *)
LEMMA RecordedLines ==
  \A k, n : n \in Ledger!Recorded(k) <=>
    \E i \in 1 .. Len(lines) : IsAttempt(lines[i], k) /\ lines[i].index = n
<1> TAKE k, n
<1>1. ASSUME n \in Ledger!Recorded(k)
      PROVE  \E i \in 1 .. Len(lines) : IsAttempt(lines[i], k) /\ lines[i].index = n
  <2>1. PICK a \in LedgerAttempts : a.key = k /\ a.index = n
    BY <1>1 DEF Ledger!Recorded
  <2>2. PICK i \in 1 .. Len(lines) : lines[i].kind = "attempt" /\ a = AttemptOf(lines[i])
    BY <2>1, AttemptLines
  <2> QED
    BY <2>1, <2>2 DEF AttemptOf, IsAttempt
<1>2. ASSUME NEW i \in 1 .. Len(lines), IsAttempt(lines[i], k), lines[i].index = n
      PROVE  n \in Ledger!Recorded(k)
  <2>1. AttemptOf(lines[i]) \in LedgerAttempts
    BY <1>2, AttemptLines DEF IsAttempt
  <2>2. AttemptOf(lines[i]).key = k /\ AttemptOf(lines[i]).index = n
    BY <1>2 DEF AttemptOf, IsAttempt
  <2> QED
    BY <2>1, <2>2 DEF Ledger!Recorded
<1> QED
  BY <1>1, <1>2

LEMMA ClosedLines ==
  \A k : Ledger!Closed(k) <=>
    \E i \in 1 .. Len(lines) : lines[i].kind = "finalized" /\ lines[i].key = k
<1> TAKE k
<1>1. ASSUME Ledger!Closed(k)
      PROVE  \E i \in 1 .. Len(lines) : lines[i].kind = "finalized" /\ lines[i].key = k
  <2>1. PICK o \in LedgerOutcomes : o.key = k
    BY <1>1 DEF Ledger!Closed
  <2>2. PICK i \in 1 .. Len(lines) : lines[i].kind = "finalized" /\ o = OutcomeOf(lines[i])
    BY <2>1, OutcomeLines
  <2> QED
    BY <2>1, <2>2 DEF OutcomeOf
<1>2. ASSUME NEW i \in 1 .. Len(lines), lines[i].kind = "finalized", lines[i].key = k
      PROVE  Ledger!Closed(k)
  <2>1. OutcomeOf(lines[i]) \in LedgerOutcomes /\ OutcomeOf(lines[i]).key = k
    BY <1>2, OutcomeLines DEF OutcomeOf
  <2> QED
    BY <2>1 DEF Ledger!Closed
<1> QED
  BY <1>1, <1>2

(* A record added to the journal is an attempt or an outcome added to the
   ledger. *)
LEMMA AppendedLine ==
  ASSUME lines \in Seq(Event), NEW e \in Event, lines' = Append(lines, e)
  PROVE  /\ e.kind = "attempt" =>
              /\ LedgerAttempts' = LedgerAttempts \cup {AttemptOf(e)}
              /\ LedgerOutcomes' = LedgerOutcomes
         /\ e.kind = "finalized" =>
              /\ LedgerOutcomes' = LedgerOutcomes \cup {OutcomeOf(e)}
              /\ LedgerAttempts' = LedgerAttempts
<1>1. Evidence' = Evidence \cup {e}
  BY DEF Evidence
<1> QED
  BY <1>1 DEF LedgerAttempts, LedgerOutcomes, AttemptOf, OutcomeOf

(* The bytes of a record are complete: the ledger takes the attempt or the
   outcome, as its own rules allow. *)
LEMMA WriteIsLedgerStep ==
  ASSUME TypeInv, HistoryInv, PendingInv, WriteRest
  PROVE  Ledger!Next
<1>1. /\ pc = "write" /\ lines' = Append(lines, pending)
      /\ lines \in Seq(Event) /\ pending \in Event /\ pending.key \in Keys
      /\ latest \in [Keys -> Int]
  BY DEF WriteRest, TypeInv, TypeOK, AppendSteps
<1>2. /\ Summarises(latest, completed, lines)
      /\ Transition(pending, latest, completed)
  BY <1>1 DEF HistoryInv, AppendSteps
<1>3. pending.index \in 0 .. MaxIndex
  BY <1>1 DEF PendingInv, AppendSteps
<1>4. ~Ledger!Closed(pending.key)
  <2>1. pending.key \in Keys /\ pending.key \notin completed
    BY <1>2 DEF Transition
  <2>2. ~ \E i \in 1 .. Len(lines) :
            lines[i].kind = "finalized" /\ lines[i].key = pending.key
    BY <1>2, <2>1 DEF Summarises
  <2> QED
    BY <2>2, ClosedLines
<1>5. \A i \in 1 .. Len(lines) : lines[i].index \in Nat
  <2>1. \A i \in 1 .. Len(lines) : lines[i] \in Event
    BY <1>1
  <2> QED
    BY <2>1 DEF Event
<1>6. \A n : n \in Ledger!Recorded(pending.key) => n \in Nat /\ n <= latest[pending.key]
  <2> SUFFICES ASSUME NEW n, n \in Ledger!Recorded(pending.key)
               PROVE  n \in Nat /\ n <= latest[pending.key]
    OBVIOUS
  <2>1. PICK i \in 1 .. Len(lines) :
          IsAttempt(lines[i], pending.key) /\ lines[i].index = n
    BY RecordedLines
  <2> QED
    BY <1>1, <1>2, <1>5, <2>1 DEF Summarises
<1>7. latest[pending.key] >= 0 => latest[pending.key] \in Ledger!Recorded(pending.key)
  BY <1>1, <1>2, RecordedLines DEF Summarises
<1>8. CASE pending.kind = "attempt"
  <2>1. pending.index = latest[pending.key] + 1 /\ pending.result \in Results
    BY <1>1, <1>2, <1>8 DEF Transition, PendingInv, AppendSteps
  <2>2. pending.index \notin Ledger!Recorded(pending.key)
    BY <1>1, <1>6, <2>1
  <2>3. pending.index = 0 \/ pending.index - 1 \in Ledger!Recorded(pending.key)
    BY <1>1, <1>3, <1>7, <2>1
  <2>4. /\ LedgerAttempts' = LedgerAttempts \cup {AttemptOf(pending)}
        /\ LedgerOutcomes' = LedgerOutcomes
    BY <1>1, <1>8, AppendedLine
  <2>5. Ledger!Record(pending.key, pending.index, pending.result)
    BY <1>4, <2>2, <2>3, <2>4 DEF Ledger!Record, AttemptOf
  <2> QED
    BY <1>1, <1>3, <2>1, <2>5 DEF Ledger!Next
<1>9. CASE pending.kind = "finalized"
  <2>1. pending.index = latest[pending.key] /\ latest[pending.key] >= 0
    BY <1>2, <1>9 DEF Transition
  <2>2. /\ pending.index \in Ledger!Recorded(pending.key)
        /\ pending.index + 1 \notin Ledger!Recorded(pending.key)
    BY <1>1, <1>6, <1>7, <2>1
  <2>3. /\ LedgerOutcomes' = LedgerOutcomes \cup {OutcomeOf(pending)}
        /\ LedgerAttempts' = LedgerAttempts
    BY <1>1, <1>9, AppendedLine
  <2>4. Ledger!Close(pending.key, pending.index)
    BY <1>4, <2>2, <2>3 DEF Ledger!Close, OutcomeOf
  <2> QED
    BY <1>1, <1>3, <2>4 DEF Ledger!Next
<1> QED
  BY <1>1, <1>8, <1>9 DEF Event

(* What a power loss leaves of the journal is a prefix, and so of every
   execution the first attempts, and an outcome only with all of them. *)
LEMMA PrefixIsLoss ==
  ASSUME lines \in Seq(Event), LegalHistory(lines),
         NEW n \in 0 .. Len(lines), lines' = SubSeq(lines, 1, n)
  PROVE  Ledger!Lose
<1>1. Len(lines') = n /\ \A i \in 1 .. n : lines'[i] = lines[i] /\ i \in 1 .. Len(lines)
  BY PrefixIsSeq
<1>2. \A a : a \in LedgerAttempts' <=>
        \E i \in 1 .. n : lines[i].kind = "attempt" /\ a = AttemptOf(lines[i])
  BY <1>1 DEF LedgerAttempts, Evidence, AttemptOf
<1>3. \A o : o \in LedgerOutcomes' <=>
        \E i \in 1 .. n : lines[i].kind = "finalized" /\ o = OutcomeOf(lines[i])
  BY <1>1 DEF LedgerOutcomes, Evidence, OutcomeOf
<1>4. LedgerAttempts' \in SUBSET LedgerAttempts
  BY <1>1, <1>2, AttemptLines
<1>5. LedgerOutcomes' \in SUBSET LedgerOutcomes
  BY <1>1, <1>3, OutcomeLines
<1>6. ASSUME NEW a \in LedgerAttempts, NEW b \in LedgerAttempts',
             a.key = b.key, a.index < b.index
      PROVE  a \in LedgerAttempts'
  <2>1. PICK i \in 1 .. Len(lines) : lines[i].kind = "attempt" /\ a = AttemptOf(lines[i])
    BY AttemptLines
  <2>2. PICK j \in 1 .. n : lines[j].kind = "attempt" /\ b = AttemptOf(lines[j])
    BY <1>2
  <2>3. /\ lines[i].key = lines[j].key /\ lines[i].index < lines[j].index
        /\ IsAttempt(lines[j], lines[i].key)
    BY <1>6, <2>1, <2>2 DEF AttemptOf, IsAttempt
  <2>4. lines[i] \in Event /\ lines[j] \in Event
    BY <1>1, <2>1, <2>2
  <2>5. lines[i].index \in Nat /\ lines[j].index \in Nat
    BY <2>4 DEF Event
  <2>6. \A m \in 1 .. i - 1 :
          IsAttempt(lines[m], lines[i].key) => lines[m].index < lines[i].index
    BY <2>1 DEF LegalHistory
  <2>7. j \notin 1 .. i - 1
    BY <2>3, <2>5, <2>6
  <2>8. i \in 1 .. n
    BY <2>1, <2>2, <2>7
  <2> QED
    BY <1>2, <2>1, <2>8
<1>7. ASSUME NEW a \in LedgerAttempts, NEW o \in LedgerOutcomes', a.key = o.key
      PROVE  a \in LedgerAttempts'
  <2>1. PICK i \in 1 .. Len(lines) : lines[i].kind = "attempt" /\ a = AttemptOf(lines[i])
    BY AttemptLines
  <2>2. PICK j \in 1 .. n : lines[j].kind = "finalized" /\ o = OutcomeOf(lines[j])
    BY <1>3
  <2>3. lines[i].key = lines[j].key
    BY <1>7, <2>1, <2>2 DEF AttemptOf, OutcomeOf
  <2>4. \A m \in j + 1 .. Len(lines) : lines[m].key # lines[j].key
    BY <1>1, <2>2 DEF LegalHistory
  <2>5. i \in 1 .. n
    BY <2>1, <2>2, <2>3, <2>4
  <2> QED
    BY <1>2, <2>1, <2>5
<1> QED
  BY <1>4, <1>5, <1>6, <1>7 DEF Ledger!Lose

LEMMA PowerLossIsLedgerStep ==
  ASSUME TypeInv, HistoryInv, PowerLoss
  PROVE  Ledger!Next
<1>1. PICK S \in SUBSET entries, n \in durable .. Len(lines), tail \in BOOLEAN :
        SurvivingFiles(Rooted(S), n, tail)
  BY DEF PowerLoss
<1>2. lines \in Seq(Event) /\ n \in 0 .. Len(lines) /\ LegalHistory(lines)
  BY DEF TypeInv, TypeOK, HistoryInv
<1>3. lines' = SubSeq(lines, 1, n) \/ lines' = <<>>
  BY <1>1, Zenon DEF SurvivingFiles
<1>4. 0 \in 0 .. Len(lines) /\ SubSeq(lines, 1, 0) = <<>>
  BY <1>2
<1>5. \E m \in 0 .. Len(lines) : lines' = SubSeq(lines, 1, m)
  BY <1>2, <1>3, <1>4
<1>6. Ledger!Lose
  BY <1>2, <1>5, PrefixIsLoss
<1> QED
  BY <1>6 DEF Ledger!Next

(* Every other step is invisible to the reader of the journal. *)
LEMMA JournalStep ==
  TypeInv /\ HistoryInv /\ PendingInv /\ [Next]_vars
    => [Ledger!Next]_<<LedgerAttempts, LedgerOutcomes>>
<1> SUFFICES ASSUME TypeInv, HistoryInv, PendingInv, [Next]_vars
             PROVE  [Ledger!Next]_<<LedgerAttempts, LedgerOutcomes>>
  OBVIOUS
<1>1. CASE WriteRest
  BY <1>1, WriteIsLedgerStep
<1>2. CASE PowerLoss
  BY <1>2, PowerLossIsLedgerStep
<1>3. CASE lines' = lines
  BY <1>3 DEF LedgerAttempts, LedgerOutcomes, Evidence
<1>4. WriteRest \/ PowerLoss \/ lines' = lines
  BY DEF Next, Call, Work, Fault, vars, journalVars, OpenBegin, EnsureRoot,
     EnsureRun, EnsureDirectory, SyncRoot, SyncRun, SyncLink, SyncDirectory,
     FindManifest, RefuseOrphan, WriteTemp, SyncTemp, LinkManifest, UnlinkTemp,
     AbandonTemp, LoadManifest, RefuseManifest, ScanLine, ScanDone,
     RefuseJournal, AppendAttempt, Finalize, AppendBegin, OpenJournalFile,
     WriteSome, SyncJournalFile, SyncJournalEntry, AppendReturns, Close, OpenFails,
     PublishFails, AppendFails, Kill
<1> QED
  BY <1>1, <1>2, <1>3, <1>4

LEMMA JournalInit == Init => Ledger!Init
<1> SUFFICES ASSUME Init PROVE Ledger!Init
  OBVIOUS
<1>1. Evidence = {}
  BY DEF Init, Evidence
<1> QED
  BY <1>1 DEF Ledger!Init, LedgerAttempts, LedgerOutcomes

(* Seen by a reader, the journal with all its errors, kills, power losses and
   reopenings is the ledger: it takes attempts and outcomes by the ledger's
   rules and loses only what leaves a ledger. *)
THEOREM JournalImplementsLedger == Spec => ImplementsLedger
<1>1. Spec => [](TypeInv /\ HistoryInv /\ PendingInv)
  BY HistoryInvariant, PendingInit, PendingStep, PTL DEF Spec
<1> QED
  BY <1>1, JournalInit, JournalStep, PTL
  DEF Spec, ImplementsLedger, Ledger!Spec, Ledger!ledger
=============================================================================
