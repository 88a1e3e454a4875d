------------------------------ MODULE Scoring ------------------------------
(***************************************************************************)
(* evaluation.py: what the evaluator measures of one execution.  A case    *)
(* has a task, an exercise, a label (of a control, the parser path it      *)
(* asserts) and flags; an attempt has the answer's text and, in `says`,    *)
(* what the members of its JSON object say.  Checks are kept under their   *)
(* ids, tuples; the metrics, which repeat the checks as counts and ratios, *)
(* are left out.                                                           *)
(***************************************************************************)
EXTENDS Parsing

-----------------------------------------------------------------------------
(* The checks of _check.                                                    *)

Check(method, status) ==
  [method |-> method, status |-> status, critical |-> FALSE, control |-> FALSE]
Automatic(ok) == Check("automatic", IF ok THEN "pass" ELSE "fail")
Human == Check("human", "pending")
Critical(check, flag) == [check EXCEPT !.critical = flag]
Control(check) == [check EXCEPT !.control = TRUE]

\* A row's checks are gathered under one id each (duplicate_evaluation_check).
AllOf(parts) ==
  [id \in UNION {DOMAIN checks : checks \in parts} |->
     (CHOOSE checks \in parts : id \in DOMAIN checks)[id]]

Each(name, over, check) == [id \in {name} \X over |-> check]
Contract(case, check) ==           \* gold.critical_checks
  Each("critical", IF case.contract THEN {"1"} ELSE {}, Critical(check, TRUE))

\* What a usable object says; `says` names the members the token m stands for.
Members(parsed, says) ==
  IF parsed.usable /\ "m" \in Range(parsed.value) THEN says ELSE <<>>

-----------------------------------------------------------------------------
\* Two variables are asked for: "name", whose value is known, and "due", of
\* which the conversation says nothing and which may be absent or null.
Fields == {"name", "due"}

ExtractionChecks(case, parsed, says) ==
  LET output == Members(parsed, says)
      given(f) == f \in DOMAIN output
      correct(f) ==
        parsed.usable /\ IF f = "name" THEN given(f) /\ output[f] = "right"
                         ELSE ~given(f) \/ output[f] = "null"
      stale(f) == given(f) /\ ~correct(f) /\ output[f] = "old"
      exact == (\A f \in Fields : correct(f)) /\ DOMAIN output \subseteq Fields
      check(kind, f) ==
        CASE kind = "present" -> Automatic(given(f))
          [] kind = "correct" -> Automatic(correct(f))
          [] kind = "not_stale" -> Automatic(~stale(f))
          [] OTHER -> IF given(f) /\ f = "name" THEN Automatic(output[f] # "mistyped")
                      ELSE Check("automatic", "not_applicable")
  IN AllOf({[id \in {"present", "correct", "not_stale", "type"} \X Fields |->
               check(id[1], id[2])],
            Contract(case, Automatic(exact))})

VoicemailChecks(case, parsed) ==
  IF case.label = "none"
  THEN Each("unlabelled_inspection", {"1"}, Human)
  ELSE AllOf({Each("classification", {"1"}, Automatic(parsed.value = case.label)),
              Contract(case, Automatic(parsed.value = case.label))})

\* One required fact, critical, and the open questions about any free text.
FactChecks(case) ==
  AllOf({Each("required_fact", {"1"}, Critical(Human, TRUE)),
         Each("unsupported_claims", {"1"}, Human),
         Each("contradictions", {"1"}, Human),
         Contract(case, Human)})

\* The predicted tags, of which "E" is expected, "F" forbidden, "U" neither;
\* entries that are not well formed leave the well-formed ones.
TagsOf(tags) ==
  CASE tags \in {"expected", "malformed"} -> {"E"}
    [] tags = "forbidden" -> {"F"}
    [] tags = "both" -> {"E", "F"}
    [] tags = "unannotated" -> {"U"}
    [] OTHER -> {}

QAFields == {"tags", "overall_sentiment", "call_quality_score", "summary"}

QAOutput(parsed, says) ==
  [f \in QAFields |-> LET output == Members(parsed, says)
                      IN IF f \in DOMAIN output THEN output[f] ELSE "absent"]

\* _qa_structure
TagsOK(output) == output["tags"] \notin {"absent", "malformed", "invalid"}
StructureValid(parsed, output) ==
  /\ parsed.usable /\ TagsOK(output)
  /\ \A f \in QAFields \ {"tags"} : output[f] \notin {"absent", "invalid"}
StructureChecks(output) ==
  [id \in {"structure"} \X QAFields |-> Automatic(output[id[2]] # "absent")]

QAChecks(case, parsed, says) ==
  LET output == QAOutput(parsed, says)
      tags == TagsOf(output["tags"])
      when(flag, checks) == IF flag THEN checks ELSE <<>>
      one(name, check) == Each(name, {"1"}, check)
      known(f) == output[f] \notin {"absent", "invalid"}
      match(f) == Automatic(output[f] = "match")
  IN AllOf({StructureChecks(output),
       one("qa_structure", Critical(Automatic(StructureValid(parsed, output)), case.critical)),
       when(TagsOK(output),
            one("expected_tags_present", Critical(Automatic("E" \in tags), case.critical))),
       when(TagsOK(output),
            one("forbidden_tags_absent", Critical(Automatic("F" \notin tags), case.critical))),
       Each("tag_grounding", tags, Human),
       Each("unannotated", tags \cap {"U"}, Human),
       when(known("overall_sentiment"), one("sentiment_match", match("overall_sentiment"))),
       when(known("call_quality_score"), one("score_in_range", match("call_quality_score"))),
       FactChecks(case),
       when(known("summary"), one("sentence_compliance", Human))})

\* Faulty variant: that there is a text at all is not critical.
BlankIsMinor(case, parsed) ==
  AllOf({Each("nonblank", {"1"}, Automatic(parsed.usable)), FactChecks(case)})

SummaryChecks(case, parsed) ==
  AllOf({Each("nonblank", {"1"}, Critical(Automatic(parsed.usable), case.critical)),
         FactChecks(case),
         IF case.task = "context_summary" THEN <<>>
         ELSE Each("sentence_compliance", {"1"}, Human)})

-----------------------------------------------------------------------------
Parse(task, text) ==
  CASE task \in {"extraction", "qa"} -> parse_object(text)
    [] task = "voicemail" -> parse_voicemail(text)
    [] OTHER -> parse_summary(text)

Checks(case, parsed, says) ==
  CASE case.task = "extraction" -> ExtractionChecks(case, parsed, says)
    [] case.task = "voicemail" -> VoicemailChecks(case, parsed)
    [] case.task = "qa" -> QAChecks(case, parsed, says)
    [] OTHER -> SummaryChecks(case, parsed)

\* An answer there is something to say about: of a finalized execution that
\* succeeded.
Answered(attempt) ==
  attempt.state = "finalized" /\ attempt.status = "success" /\ attempt.response

Raw(attempt) == IF attempt.present THEN attempt.text ELSE NoAnswer

\* evaluate_model_output
ModelChecks(case, attempt, parsed) ==
  IF ~Answered(attempt) THEN <<>>
  ELSE IF case.gold THEN Checks(case, parsed, attempt.says)
  ELSE IF case.task = "qa" THEN StructureChecks(QAOutput(parsed, attempt.says))
  ELSE <<>>

\* evaluate_control_case: the supplied answer of QA-026 is to be found false,
\* by the checks and by a reviewer; any other control names its parser path.
Stimulus(checks) ==
  {"forbidden_tags_absent", "sentiment_match", "score_in_range"}
    \subseteq {id[1] : id \in {i \in DOMAIN checks : checks[i].status = "fail"}}

NegativeChecks(checks, valid) ==
  AllOf({[id \in {i \in DOMAIN checks : checks[i].method = "automatic"} |->
            Critical(checks[id], FALSE)],
         Each("critical", {"matrix-critical"}, Critical(Human, TRUE)),
         Each("control", {"negative_stimulus"}, Control(Automatic(valid /\ Stimulus(checks))))})

ControlChecks(case, attempt, parsed) ==
  LET as_expected == Control(Automatic(parsed.path = case.label))
  IN IF case.exercise = "QA-026"
     THEN NegativeChecks(Checks(case, parsed, attempt.says),
                         StructureValid(parsed, QAOutput(parsed, attempt.says)))
     ELSE AllOf({Each("control", {"parser_path"}, as_expected), Contract(case, as_expected)})
=============================================================================
