---------------------------- MODULE Publication ----------------------------
(***************************************************************************)
(* write_evaluation_artifacts and _publish (reporting.py): a batch of      *)
(* evaluations and, as immutable revisions, its review decisions, written  *)
(* create-only below the run directory.  One publisher at a time, cut off  *)
(* and called again as its callers like; errors, kills and power losses.   *)
(***************************************************************************)
EXTENDS Integers, Sequences

CONSTANTS
  Editions,     \* what a caller computes for a batch: rows and summaries
  Reviews,      \* sets of review decisions, named by their hash
  NoReview,     \* review_decisions is None
  Absent,
  MaxFaults,    \* bound: errors and kills
  MaxLosses     \* bound: power losses

\* A part of a file, and a directory, are no content a file is given.
Torn == "torn"
Directory == "directory"

ASSUME ReviewsAssumption == NoReview \notin Reviews
ASSUME ContentsAssumption ==
  /\ {Absent, Torn} \cap (Editions \cup Reviews \cup {Directory}) = {}
  /\ Absent # Torn

VARIABLES
  files,        \* what is visible under each name of the batch's tree
  durable,      \* names whose directory was synced since they were made
  pc,           \* the next step of _directory or _publish
  pos,          \* the target it works on
  edition, review,   \* what the call in progress publishes
  temp,         \* the temporary file of _publish
  returned,     \* history: what calls that returned published, under its name
  interrupted,  \* history: a creation was cut off before its directory sync
  faults, losses

callVars == <<pc, pos, edition, review, temp>>
treeVars == <<files, durable>>
budgetVars == <<faults, losses>>
pubVars == <<treeVars, callVars, returned, interrupted, budgetVars>>

\* Faulty variant: the summaries go first.
SummariesFirst(r) ==
  <<<<"evaluations">>, <<"batch">>,
    <<"summary-automatic.json">>, <<"automatic.jsonl">>>>
  \o IF r = NoReview THEN <<>>
     ELSE <<<<"summary", r>>, <<"reviews">>, <<"reviews", r>>>>

\* Targets of one call, in the order of the code; <<"reviews", r>> is
\* reviews/<hash>.jsonl, <<"summary", r>> is summary-<hash>.json.
Targets(r) ==
  <<<<"evaluations">>, <<"batch">>,
    <<"automatic.jsonl">>, <<"summary-automatic.json">>>>
  \o IF r = NoReview THEN <<>>
     ELSE <<<<"reviews">>, <<"reviews", r>>, <<"summary", r>>>>

Directories == {<<"evaluations">>, <<"batch">>, <<"reviews">>}
Names == {<<"evaluations">>, <<"batch">>, <<"automatic.jsonl">>,
          <<"summary-automatic.json">>, <<"reviews">>}
           \cup {"reviews", "summary"} \X Reviews

Run == <<"run">>
Parent(n) ==
  CASE n = <<"evaluations">> -> Run
    [] n = <<"batch">> -> <<"evaluations">>
    [] n \in {"reviews"} \X Reviews -> <<"reviews">>
    [] OTHER -> <<"batch">>

\* The directories a name lies in.
Above(n) ==
  {<<"evaluations">>} \cup (IF n = <<"evaluations">> THEN {} ELSE {<<"batch">>})
    \cup (IF Parent(n) = <<"reviews">> THEN {<<"reviews">>} ELSE {})

\* A revision's records are named by their hash; all else is the caller's
\* edition, under names of one batch.  (The batch id hashes what identifies the
\* evaluator, so editions of one batch differ only by what that leaves out:
\* the model allows more of them than one evaluator's callers bring.)
Content(n, e) ==
  CASE n \in Directories -> Directory
    [] n \in {"reviews"} \X Reviews -> n[2]
    [] OTHER -> e

Visible == {n \in Names : files[n] # Absent}

Target == Targets(review)[pos]
Wanted == Content(Target, edition)

PC == {"idle", "check", "sync_made", "write", "sync_temp", "link",
       "sync_link", "unlink", "unlink_raising"}

-----------------------------------------------------------------------------
\* fsync of a directory makes durable what is in it, whoever put it there.
SyncOf(d) == durable' = durable \cup {n \in Visible : Parent(n) = d}

Publish(e, r) ==
  /\ pc = "idle"
  /\ edition' = e /\ review' = r
  /\ pc' = "check" /\ pos' = 1
  /\ UNCHANGED <<treeVars, temp, returned, interrupted, budgetVars>>

\* What the next target needs, or the return of the call.
Advance ==
  IF pos < Len(Targets(review))
  THEN /\ pos' = pos + 1 /\ pc' = "check"
       /\ UNCHANGED <<edition, review, returned>>
  ELSE /\ pc' = "idle" /\ pos' = 1
       /\ returned' = returned \cup
            {<<Targets(review)[i], Content(Targets(review)[i], edition)>> :
               i \in {j \in DOMAIN Targets(review) :
                        Targets(review)[j] \notin Directories}}
       /\ UNCHANGED <<edition, review>>

GiveUp == pc' = "idle" /\ pos' = 1 /\ UNCHANGED <<edition, review>>

\* Faulty variant: a file that is there is refused, whatever its bytes.
RefuseExisting ==
  /\ pc = "check" /\ files[Target] = Wanted
  /\ IF Target \in Directories THEN Advance
     ELSE GiveUp /\ UNCHANGED returned
  /\ UNCHANGED <<treeVars, temp, interrupted, budgetVars>>

\* _directory(create=True) on an existing directory; _publish on a file that
\* is there with the same bytes.
AlreadyThere ==
  /\ pc = "check" /\ files[Target] = Wanted
  /\ Advance
  /\ UNCHANGED <<treeVars, temp, interrupted, budgetVars>>

\* Faulty variant: differing content is replaced.
ReplaceConflicting ==
  /\ pc = "check" /\ files[Target] \notin {Absent, Wanted}
  /\ files' = [files EXCEPT ![Target] = Wanted]
  /\ Advance
  /\ UNCHANGED <<durable, temp, interrupted, budgetVars>>

\* artifact_content_conflict: nothing is replaced.
Conflict ==
  /\ pc = "check" /\ files[Target] \notin {Absent, Wanted}
  /\ GiveUp
  /\ UNCHANGED <<treeVars, temp, returned, interrupted, budgetVars>>

MakeDirectory ==
  /\ pc = "check" /\ files[Target] = Absent /\ Target \in Directories
  /\ files' = [files EXCEPT ![Target] = Directory]
  /\ pc' = "sync_made"
  /\ UNCHANGED <<durable, pos, edition, review, temp, returned, interrupted,
                 budgetVars>>

\* Faulty variant: the parent of a new directory is not synced.
SkipMadeSync ==
  /\ pc = "sync_made"
  /\ Advance
  /\ UNCHANGED <<treeVars, temp, interrupted, budgetVars>>

SyncMade ==
  /\ pc = "sync_made" /\ SyncOf(Parent(Target))
  /\ Advance
  /\ UNCHANGED <<files, temp, interrupted, budgetVars>>

WriteTemp ==
  /\ pc = "check" /\ files[Target] = Absent /\ Target \notin Directories
  /\ temp' = "written" /\ pc' = "sync_temp"
  /\ UNCHANGED <<treeVars, pos, edition, review, returned, interrupted,
                 budgetVars>>

\* Faulty variant: the bytes are linked before they are synced.
SkipTempSync ==
  /\ pc = "sync_temp" /\ pc' = "link"
  /\ UNCHANGED <<treeVars, pos, edition, review, temp, returned, interrupted,
                 budgetVars>>

SyncTemp ==
  /\ pc = "sync_temp"
  /\ temp' = "synced" /\ pc' = "link"
  /\ UNCHANGED <<treeVars, pos, edition, review, returned, interrupted,
                 budgetVars>>

\* os.link never replaces a name.
Link ==
  /\ pc = "link" /\ files[Target] = Absent
  /\ files' = [files EXCEPT ![Target] = Wanted]
  /\ pc' = "sync_link"
  /\ UNCHANGED <<durable, pos, edition, review, temp, returned, interrupted,
                 budgetVars>>

SyncLink ==
  /\ pc = "sync_link" /\ SyncOf(Parent(Target))
  /\ pc' = "unlink"
  /\ UNCHANGED <<files, pos, edition, review, temp, returned, interrupted,
                 budgetVars>>

\* finally: the temporary name goes and the directory is synced once more.
Unlink ==
  /\ pc = "unlink" /\ SyncOf(Parent(Target))
  /\ temp' = "none"
  /\ Advance
  /\ UNCHANGED <<files, interrupted, budgetVars>>

UnlinkRaising ==
  /\ pc = "unlink_raising" /\ SyncOf(Parent(Target))
  /\ temp' = "none"
  /\ GiveUp
  /\ UNCHANGED <<files, returned, interrupted, budgetVars>>

-----------------------------------------------------------------------------
\* A name was made and its directory is not synced yet.  A sync that failed
\* counts as an interruption even if the one in the finally block succeeds.
Pending == Visible # durable

\* Any of these calls raises OSError.  With a temporary file at hand the
\* finally block still runs.
Fails ==
  /\ pc # "idle" /\ faults < MaxFaults /\ faults' = faults + 1
  /\ IF pc \in {"sync_temp", "link", "sync_link"}
     THEN pc' = "unlink_raising" /\ UNCHANGED <<pos, edition, review, temp>>
     ELSE GiveUp /\ temp' = "none"
  /\ interrupted' = (interrupted \/ Pending)
  /\ UNCHANGED <<treeVars, returned, losses>>

Kill ==
  /\ pc # "idle" /\ faults < MaxFaults /\ faults' = faults + 1
  /\ GiveUp /\ temp' = "none"
  /\ interrupted' = (interrupted \/ Pending)
  /\ UNCHANGED <<treeVars, returned, losses>>

\* Names that are not durable may go, and with a directory all below it.
Rooted(keep) == {n \in keep : Above(n) \subseteq keep}

\* ... and a file whose bytes were not synced may be left with part of them.
PowerLoss ==
  /\ losses < MaxLosses /\ losses' = losses + 1
  /\ \E lost \in SUBSET (Visible \ durable) :
       LET keep == Rooted(Visible \ lost)
           soft == IF temp = "written" /\ pc \in {"sync_link", "unlink_raising"}
                   THEN {Target} ELSE {}
       IN \E torn \in SUBSET (soft \cap keep) :
            files' = [n \in Names |-> IF n \in torn THEN Torn
                                      ELSE IF n \in keep THEN files[n]
                                      ELSE Absent]
  /\ durable' = {n \in Names : files'[n] # Absent}
  /\ GiveUp /\ temp' = "none"
  /\ UNCHANGED <<returned, interrupted, faults>>

-----------------------------------------------------------------------------
PubInit ==
  /\ files = [n \in Names |-> Absent] /\ durable = {}
  /\ pc = "idle" /\ pos = 1 /\ edition \in Editions /\ review = NoReview
  /\ temp = "none" /\ returned = {} /\ interrupted = FALSE
  /\ faults = 0 /\ losses = 0

Calls == \E e \in Editions, r \in Reviews \cup {NoReview} : Publish(e, r)

PubWork ==
  \/ AlreadyThere \/ Conflict \/ MakeDirectory \/ SyncMade
  \/ WriteTemp \/ SyncTemp \/ Link \/ SyncLink \/ Unlink \/ UnlinkRaising

PubNext == Calls \/ PubWork \/ Fails \/ Kill \/ PowerLoss

PubSpec == PubInit /\ [][PubNext]_pubVars

\* A call runs on, and whoever wants a revision published asks again.
FairPubSpec ==
  /\ PubSpec /\ WF_pubVars(PubWork)
  /\ \A e \in Editions, r \in Reviews : SF_pubVars(Publish(e, r))

-----------------------------------------------------------------------------
(* Properties                                                              *)

(* No bytes a name was published with are ever replaced by others, whoever
   publishes what: only a power loss takes a name away ("never overwrites
   differing content", docs/BENCHMARK_SPEC.md:1257). *)
NeverReplaced ==
  [][\A n \in Visible : files'[n] = files[n] \/ losses' # losses]_pubVars

(* A file that can be read under its name is whole, also when the power fails
   while it is being published. *)
ArtifactsAreWhole == \A n \in Names : files[n] # Torn

(* A call that returns has published what it was given, not what it found: its
   rows, its summaries, its revision, all of them at once; and unless some
   creation was cut off, a power loss takes none of it.  (With that exception
   the promise of docs/BENCHMARK_SPEC.md:1256 fails as AckedIsDurable does.) *)
ReturnedSurvives ==
  losses = 0 \/ ~interrupted => \A a \in returned : files[a[1]] = a[2]

(* A summary is never seen without the records it summarizes: publication
   orders them, and as long as the power stays on or no creation was cut off
   this holds in every state. *)
SummaryHasRecords ==
  losses = 0 \/ ~interrupted =>
    /\ <<"summary-automatic.json">> \in Visible =>
         <<"automatic.jsonl">> \in Visible
    /\ \A r \in Reviews :
         <<"summary", r>> \in Visible =>
           {<<"reviews", r>>, <<"summary-automatic.json">>} \subseteq Visible

Mixed == \E m, n \in Visible : /\ {files[m], files[n]} \subseteq Editions
                                /\ files[m] # files[n]

(* Whatever an earlier call left behind when it was cut off, calls that are
   made again get every revision published; only editions that lie there mixed
   block one another for ever (no call repairs what it finds). *)
RevisionsGetPublished ==
  \A r \in Reviews : <>[](Mixed \/ <<"summary", r>> \in Visible)
=============================================================================
