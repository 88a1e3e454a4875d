------------------------------- MODULE Review -------------------------------
(***************************************************************************)
(* From answers to reviewed reports: evaluate_run's rows, the decisions    *)
(* reviewers write on them, the views apply_review_decisions makes, the    *)
(* summaries of aggregate_evaluations and the revisions                    *)
(* write_evaluation_artifacts accepts.  Reviewers decide in any order, on  *)
(* what they saw, while the evaluator may be changed and run again.        *)
(***************************************************************************)
EXTENDS Scoring, ContextSummary

CONSTANTS
  Inputs,         \* batches of [case, attempt] to evaluate, with a
                  \* conversation the runtime summary is asked of
  Reviewed(_),    \* bound: the batches on which reviewers are explored
  Evaluators,     \* implementation fingerprints
  MaxDecisions    \* bound: decisions written

\* An entry is a case and one attempt at it; with the repetitions the command
\* line allows, 1, a case is evaluated once (the keys of evaluate_run's plan).
ASSUME InputsAssumption ==
  \A input \in Inputs :
    /\ \A n \in DOMAIN input.batch :
         /\ input.batch[n] = [case |-> input.batch[n].case,
                              attempt |-> input.batch[n].attempt]
         /\ input.batch[n].attempt.text \in Seq(STRING)
    /\ \A n, m \in DOMAIN input.batch :
         input.batch[n].case = input.batch[m].case => n = m

\* Only assistants make calls, each under an id of its own; only tools and
\* developer messages settle them.
ASSUME ConversationsAssumption ==
  \A input \in Inputs :
    LET messages == input.conversation.messages
    IN /\ messages \in Seq(Range(messages))
       /\ \A i \in DOMAIN messages : messages[i].settles =>
            messages[i].role \in {"tool", "developer"} /\ messages[i].calls = {}
       /\ \A i, j \in DOMAIN messages :
            i # j => messages[i].calls \cap messages[j].calls = {}

VARIABLES
  batch,
  conversation,
  evaluator,      \* the fingerprint the evaluator runs under
  rows,           \* the latest automatic evaluations, <<>> before any
  view,           \* those with the decisions applied so far
  desk,           \* the decisions reviewers have written
  published       \* the last artifacts accepted

reviewVars == <<batch, conversation, evaluator, rows, view, desk, published>>

-----------------------------------------------------------------------------
(* Rows, their identity and their roll-up.                                  *)

\* Faulty variant: the identity leaves out which evaluator measured.
IdentityOfEvidence(entry, fingerprint) ==
  [case |-> entry.case, attempt |-> entry.attempt, evaluator |-> "any"]

\* What the evaluation id hashes: the case, the evidence with its execution
\* and state, and the evaluator.
Identity(entry, fingerprint) ==
  [case |-> entry.case, attempt |-> entry.attempt, evaluator |-> fingerprint]

IsControl(case) == case.exercise # "model"

Measured(case, attempt, parsed) ==
  IF IsControl(case) THEN ControlChecks(case, attempt, parsed)
  ELSE ModelChecks(case, attempt, parsed)

Evaluation(entry, fingerprint) ==
  [id |-> Identity(entry, fingerprint),
   basis |-> <<entry, fingerprint>>,          \* history: what was measured
   case |-> entry.case,
   checks |-> Measured(entry.case, entry.attempt,
                       Parse(entry.case.task, Raw(entry.attempt)))]

Statuses(row, Test(_)) ==
  {row.checks[k].status : k \in {l \in DOMAIN row.checks : Test(row.checks[l])}}

\* Faulty variant: an open check comes before a failed one.
PendingFirst(statuses) ==
  CASE "pending" \in statuses -> "pending"
    [] "pending" \notin statuses /\ "fail" \in statuses -> "fail"
    [] OTHER -> IF statuses = {"pass"} THEN "pass" ELSE "unavailable"

Rollup(statuses) ==
  CASE "fail" \in statuses -> "fail"
    [] "fail" \notin statuses /\ "pending" \in statuses -> "pending"
    [] OTHER -> IF statuses = {"pass"} THEN "pass" ELSE "unavailable"

critical_status(row) ==
  IF row.case.critical THEN Rollup(Statuses(row, LAMBDA c : c.critical))
  ELSE "not_applicable"

control_status(row) ==
  Rollup(Statuses(row, LAMBDA c : c.control \/ c.method = "human"))

\* _critical_summary: the critical cases by status, and every critical check
\* of theirs that failed or is open.
CriticalSummary(rs) ==
  LET critical == {n \in DOMAIN rs : rs[n].case.critical}
      cases(status) == {rs[n].case : n \in {k \in critical : critical_status(rs[k]) = status}}
      checks(status) ==
        UNION {{<<rs[n].case, k>> : k \in {l \in DOMAIN rs[n].checks :
                  rs[n].checks[l].critical /\ rs[n].checks[l].status = status}} :
               n \in critical}
  IN [status \in {"pass", "fail", "pending", "unavailable"} |->
        [cases |-> cases(status), checks |-> checks(status)]]

-----------------------------------------------------------------------------
(* Decisions.                                                               *)

\* apply_review_decisions takes decisions on human checks of this very
\* evaluation, one per check.
Binds(row, ds) ==
  /\ \A n \in DOMAIN ds :
       /\ ds[n].id = row.id
       /\ ds[n].check \in DOMAIN row.checks
       /\ row.checks[ds[n].check].method = "human"
  /\ \A n, m \in DOMAIN ds : ds[n].check = ds[m].check => n = m

Apply(row, ds) ==
  [row EXCEPT !.checks = [k \in DOMAIN row.checks |->
     IF \E n \in DOMAIN ds : ds[n].check = k
     THEN [row.checks[k] EXCEPT !.status =
             ds[CHOOSE n \in DOMAIN ds : ds[n].check = k].status]
     ELSE row.checks[k]]]

\* _decisions: the decisions of each row; none may be left over.
Group(row, ds) == [n \in {m \in DOMAIN ds : ds[m].id = row.id} |-> ds[n]]
Accepted(rs, ds) ==
  /\ \A n \in DOMAIN ds : \E k \in DOMAIN rs : ds[n].id = rs[k].id
  /\ \A k \in DOMAIN rs : Binds(rs[k], Group(rs[k], ds))
Updated(rs, ds) == [k \in DOMAIN rs |-> Apply(rs[k], Group(rs[k], ds))]

\* A file of decisions, in the order they were written down in.
Files == {<<d>> : d \in desk} \cup {<<d, e>> : d \in desk, e \in desk}

-----------------------------------------------------------------------------
Init ==
  /\ \E input \in Inputs :
       batch = input.batch /\ conversation = input.conversation
  /\ evaluator \in Evaluators
  /\ rows = <<>> /\ view = <<>> /\ desk = {} /\ published = <<>>

\* evaluate_run and evaluate_control_case
Evaluate ==
  /\ rows' = [n \in DOMAIN batch |-> Evaluation(batch[n], evaluator)]
  /\ rows' # rows
  /\ view' = rows'
  /\ UNCHANGED <<batch, conversation, evaluator, desk, published>>

\* The implementation is changed: what was decided is not about it.
Revise(fingerprint) ==
  /\ Reviewed(batch) /\ rows # <<>> /\ desk # {} /\ fingerprint # evaluator
  /\ evaluator' = fingerprint
  /\ UNCHANGED <<batch, conversation, rows, view, desk, published>>

\* A reviewer writes a decision on what build_human_review_items showed, or
\* by mistake on some other check.  `about` is what the reviewer had in view.
Decide(n, k, status) ==
  /\ Reviewed(batch) /\ Cardinality(desk) < MaxDecisions
  /\ k \in DOMAIN view[n].checks
  /\ desk' = desk \cup {[id |-> view[n].id, check |-> k, status |-> status,
                         about |-> view[n].basis]}
  /\ UNCHANGED <<batch, conversation, evaluator, rows, view, published>>

ApplyDecisions(n, ds) ==
  /\ Binds(view[n], ds)
  /\ view' = [view EXCEPT ![n] = Apply(@, ds)]
  /\ UNCHANGED <<batch, conversation, evaluator, rows, desk, published>>

\* Faulty variant: a reviewed view is taken for an automatic record.
RefusedMixture(rs) == Cardinality({IsControl(rs[k].case) : k \in DOMAIN rs}) # 1

\* What write_evaluation_artifacts refuses: controls beside model rows, and
\* rows on which something was decided.
Refused(rs) ==
  \/ Cardinality({IsControl(rs[k].case) : k \in DOMAIN rs}) # 1
  \/ \E k \in DOMAIN rs : \E l \in DOMAIN rs[k].checks :
       rs[k].checks[l].method = "human" /\ rs[k].checks[l].status # "pending"

Publish(given, ds) ==
  /\ Reviewed(batch) /\ given # <<>>
  /\ ~Refused(given) /\ Accepted(given, ds)
  /\ published' = [batch |-> [k \in DOMAIN given |-> given[k].id],
                   decisions |-> Range(ds),
                   summary |-> CriticalSummary(Updated(given, ds))]
  /\ UNCHANGED <<batch, conversation, evaluator, rows, view, desk>>

Next ==
  \/ Evaluate
  \/ \E fingerprint \in Evaluators : Revise(fingerprint)
  \/ \E n \in DOMAIN view : \E k \in DOMAIN view[n].checks :
       \E status \in {"pass", "fail", "pending", "not_applicable"} : Decide(n, k, status)
  \/ \E n \in DOMAIN view, ds \in Files : ApplyDecisions(n, ds)
  \/ \E given \in {rows, view}, ds \in Files \cup {<<>>} : Publish(given, ds)

ReviewSpec == Init /\ [][Next]_reviewVars

-----------------------------------------------------------------------------
(* Parsing and context selection.                                           *)

Answers == {batch[n].attempt.text : n \in DOMAIN batch}

\* An answer that is a JSON object or list as it stands is used as it stands:
\* no fence or block inside it is taken for the answer instead
\* (parse_production_json, whose block scan does not know strict JSON).
StrictNeverReinterpreted ==
  \A t \in Answers :
    StrictValid(t) /\ StrictDecode(t) \in {"dict", "list"} =>
      LET parsed == parse_production_json(t)
      IN parsed.path = "direct" /\ parsed.value = Strip(t)

\* Whatever surrounds it, a well-formed object that starts at the answer's
\* first brace is recovered as it is, unless the whole answer or a fence is
\* structured: the scan of _first_balanced, which honours backslashes outside
\* strings and never restarts, loses no such object.
FirstObjectRecovered ==
  \A t \in Answers :
    "fence" \notin Range(t) /\ ~Structured(Strip(t)) =>
      \A i, j \in DOMAIN t :
        /\ t[i] = "{" /\ t[j] = "}" /\ i <= j
        /\ \A k \in 1 .. i - 1 : t[k] # "{"
        /\ ProductionDecode(SubSeq(t, i, j)) = "dict"
        => parse_object(t).usable /\ parse_object(t).value = SubSeq(t, i, j)

\* The summary covers no call that is still open where the covered range could
\* at most end, and stops short of that end only before such a call; when it
\* is applied to the conversation, grown by a message since, every message is
\* in the summary, at the head as the system message, or kept after it
\* (select_summary_context, apply_context_summary).  Call ids are taken to be
\* distinct.
SummaryCutIsSound ==
  LET m == conversation.messages
      sel == select_summary_context(m, conversation.input)
      end == Len(m) - 2
      Open(i) == \E c \in m[i].calls : ~\E j \in i + 1 .. end : m[j].settles /\ m[j].id = c
      grown == Append(m, Plain("user"))
      tail == SubSeq(grown, sel.last + 1, Len(grown))
      applied == apply_context_summary(grown, sel.last, FALSE)
  IN /\ \A i \in sel.first .. sel.last : ~Open(i)
     /\ sel # NoSelection =>
          /\ sel.last = end \/ Open(sel.last + 1)
          /\ \A i \in 1 .. sel.first - 1 : m[i].role = "system" /\ applied[i] = m[i]
          /\ SubSeq(applied, Len(applied) - Len(tail) + 1, Len(applied)) = tail

-----------------------------------------------------------------------------
(* Verdicts.                                                                *)

HoldsObject(t) ==
  \E i, j \in DOMAIN t : i <= j /\ ProductionDecode(SubSeq(t, i, j)) = "dict"
HoldsAnswer(entry) ==
  LET t == Raw(entry.attempt)
  IN CASE entry.case.task \in {"extraction", "qa"} -> HoldsObject(t)
       [] entry.case.task = "voicemail" -> Range(Upper(t)) \cap {"CONVERSATION", "VOICEMAIL"} # {}
       [] OTHER -> ~Blank(t)

\* A critical model case whose answer holds nothing production could use, or
\* that has no answer at all, is never reported as passed, whatever reviewers
\* decide about it; and QA-026's control passes only by a reviewer who found the
\* supplied claim unsupported, its automatic contradictions do not close the
\* question (evaluate_model_output, critical_status, control_status).
PassIsEarned ==
  \A n \in DOMAIN view :
    LET case == view[n].case
    IN /\ ~IsControl(case) /\ critical_status(view[n]) = "pass" =>
            Answered(batch[n].attempt) /\ HoldsAnswer(batch[n])
       /\ case.exercise = "QA-026" /\ control_status(view[n]) = "pass" =>
            \E d \in desk : /\ d.check[1] = "critical" /\ d.status = "pass"
                            /\ d.about = rows[n].basis

\* A view departs from the automatic evaluation only by verdicts somebody gave
\* on a human check of this very measurement: not on an automatic one, and
\* not on an earlier evaluator's row of the same case (apply_review_decisions,
\* the identity of _finish).
VerdictsAreAboutThis ==
  \A n \in DOMAIN view : \A k \in DOMAIN view[n].checks :
    view[n].checks[k] # rows[n].checks[k] =>
      /\ view[n].checks[k] = [rows[n].checks[k] EXCEPT !.status = view[n].checks[k].status]
      /\ rows[n].checks[k].method = "human"
      /\ \E d \in desk : /\ d.check = k /\ d.status = view[n].checks[k].status
                         /\ d.about = rows[n].basis

\* A published summary follows from the automatic records and the decisions
\* published with it, and from nothing else: what anyone decided elsewhere is
\* not in it (write_evaluation_artifacts, aggregate_evaluations).
RevisionIsItsDecisions ==
  published # <<>> =>
    published.summary = CriticalSummary(
      [n \in DOMAIN published.batch |->
         LET row == Evaluation([case |-> published.batch[n].case,
                                attempt |-> published.batch[n].attempt], evaluator)
             of(k) == {d \in published.decisions : d.id = published.batch[n] /\ d.check = k}
         IN [row EXCEPT !.checks = [k \in DOMAIN row.checks |->
               IF of(k) = {} THEN row.checks[k]
               ELSE [row.checks[k] EXCEPT !.status = (CHOOSE d \in of(k) : TRUE).status]]]])

\* "A critical failure does not hide other pending checks", nor do they hide
\* it: every failed critical check of a critical case puts the case among the
\* failed, with all its failed and open checks listed; a case that passed has
\* neither (_rollup, _critical_summary).
FailuresAreShown ==
  LET summary == CriticalSummary(view)
  IN \A n \in DOMAIN view :
       LET c == view[n].case
           with(status) == {k \in DOMAIN view[n].checks :
                              view[n].checks[k].critical /\ view[n].checks[k].status = status}
       IN c.critical =>
            /\ with("fail") # {} => c \in summary["fail"].cases
            /\ c \in summary["pass"].cases => with("fail") = {} /\ with("pending") = {}
            /\ \A status \in {"fail", "pending"} : \A k \in with(status) :
                 <<c, k>> \in summary[status].checks
=============================================================================
