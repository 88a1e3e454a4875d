---------------------------- MODULE Review_proofs ----------------------------
(***************************************************************************)
(* Theorems about the evaluation and its review, for any batches, any      *)
(* reviewers and any number of decisions and changes of the evaluator.     *)
(***************************************************************************)
EXTENDS Review, SequenceTheorems, WellFoundedInduction, FiniteSetTheorems,
  TLAPS

-----------------------------------------------------------------------------
(* What the scorers make: checks that are records, and of which those a    *)
(* human is to decide are pending.                                         *)

IsCheck(c) ==
  /\ c = [method |-> c.method, status |-> c.status,
          critical |-> c.critical, control |-> c.control]
  /\ c.method = "human" => c.status = "pending"

AreChecks(f) == \A id \in DOMAIN f : IsCheck(f[id])

LEMMA MakeCheck ==
  /\ IsCheck(Human)
  /\ IsCheck(Check("automatic", "pass")) /\ IsCheck(Check("automatic", "fail"))
  /\ IsCheck(Check("automatic", "not_applicable"))
  BY DEF IsCheck, Human, Check

LEMMA FlagCheck ==
  ASSUME NEW c, IsCheck(c)
  PROVE  /\ \A flag : IsCheck(Critical(c, flag))
         /\ IsCheck(Control(c))
<1>1. \A flag : Critical(c, flag) = [method |-> c.method, status |-> c.status,
                                     critical |-> flag, control |-> c.control]
  BY DEF IsCheck, Critical
<1>2. Control(c) = [method |-> c.method, status |-> c.status,
                    critical |-> c.critical, control |-> TRUE]
  <2>1. ASSUME NEW yes
        PROVE  [c EXCEPT !.control = yes] =
                 [method |-> c.method, status |-> c.status,
                  critical |-> c.critical, control |-> yes]
    BY DEF IsCheck
  <2> QED
    BY <2>1 DEF Control
<1> QED
  BY <1>1, <1>2 DEF IsCheck

LEMMA NoChecks == AreChecks(<<>>)
  BY DEF AreChecks

LEMMA EachIsCheck ==
  ASSUME NEW name, NEW over, NEW c, IsCheck(c)
  PROVE  AreChecks(Each(name, over, c))
  BY DEF AreChecks, Each

LEMMA ContractIsCheck ==
  ASSUME NEW case, NEW c, IsCheck(c)
  PROVE  AreChecks(Contract(case, c))
  BY FlagCheck, EachIsCheck DEF Contract

LEMMA AllAreChecks ==
  ASSUME NEW parts, \A checks \in parts : AreChecks(checks)
  PROVE  AreChecks(AllOf(parts))
<1>1. SUFFICES ASSUME NEW id \in DOMAIN AllOf(parts)
               PROVE  IsCheck(AllOf(parts)[id])
  BY DEF AreChecks
<1> DEFINE checks == CHOOSE c \in parts : id \in DOMAIN c
<1>2. checks \in parts /\ id \in DOMAIN checks
  BY DEF AllOf
<1>3. AllOf(parts)[id] = checks[id]
  BY DEF AllOf
<1> QED
  BY <1>2, <1>3 DEF AreChecks

LEMMA ExtractionAreChecks ==
  ASSUME NEW case, NEW parsed, NEW says
  PROVE  AreChecks(ExtractionChecks(case, parsed, says))
<1> DEFINE output == Members(parsed, says)
           given(f) == f \in DOMAIN output
           correct(f) ==
             parsed.usable /\ IF f = "name" THEN given(f) /\ output[f] = "right"
                              ELSE ~given(f) \/ output[f] = "null"
           stale(f) == given(f) /\ ~correct(f) /\ output[f] = "old"
           exact == (\A f \in Fields : correct(f)) /\ DOMAIN output \subseteq Fields
           check(kind, f) ==
             CASE kind = "present" -> Automatic(given(f))
               [] kind = "correct" -> Automatic(correct(f))
               [] kind = "not_stale" -> Automatic(~stale(f))
               [] OTHER -> IF given(f) /\ f = "name" THEN Automatic(output[f] # "mistyped")
                           ELSE Check("automatic", "not_applicable")
           fields == [id \in {"present", "correct", "not_stale", "type"} \X Fields |->
                        check(id[1], id[2])]
           contract == Contract(case, Automatic(exact))
<1>1. ASSUME NEW kind, NEW f PROVE IsCheck(check(kind, f))
  <2>1. IsCheck(Automatic(given(f))) /\ IsCheck(Automatic(correct(f))) /\ IsCheck(Automatic(~stale(f)))
        /\ IsCheck(Automatic(output[f] # "mistyped"))
    BY MakeCheck DEF Automatic
  <2> QED
    BY <2>1, MakeCheck
<1>2. AreChecks(fields)
  <2> HIDE DEF check
  <2> QED
    BY <1>1 DEF AreChecks
<1>3. AreChecks(contract)
  <2>1. IsCheck(Automatic(exact))
    BY MakeCheck DEF Automatic
  <2> QED
    BY <2>1, ContractIsCheck
<1>4. ExtractionChecks(case, parsed, says) = AllOf({fields, contract})
  BY DEF ExtractionChecks
<1> HIDE DEF fields, contract
<1> QED
  BY <1>2, <1>3, <1>4, AllAreChecks

LEMMA FactAreChecks ==
  ASSUME NEW case
  PROVE  AreChecks(FactChecks(case))
<1> DEFINE fact == Each("required_fact", {"1"}, Critical(Human, TRUE))
           claims == Each("unsupported_claims", {"1"}, Human)
           contradictions == Each("contradictions", {"1"}, Human)
           contract == Contract(case, Human)
<1>1. /\ AreChecks(fact) /\ AreChecks(claims)
      /\ AreChecks(contradictions) /\ AreChecks(contract)
  BY MakeCheck, FlagCheck, EachIsCheck, ContractIsCheck
<1>2. FactChecks(case) = AllOf({fact, claims, contradictions, contract})
  BY DEF FactChecks
<1> HIDE DEF fact, claims, contradictions, contract
<1> QED
  BY <1>1, <1>2, AllAreChecks

LEMMA VoicemailAreChecks ==
  ASSUME NEW case, NEW parsed
  PROVE  AreChecks(VoicemailChecks(case, parsed))
<1> DEFINE verdict == Automatic(parsed.value = case.label)
           class == Each("classification", {"1"}, verdict)
           contract == Contract(case, verdict)
<1>1. IsCheck(verdict)
  BY MakeCheck DEF Automatic
<1>2. AreChecks(Each("unlabelled_inspection", {"1"}, Human))
  BY MakeCheck, EachIsCheck
<1>3. VoicemailChecks(case, parsed) =
        IF case.label = "none" THEN Each("unlabelled_inspection", {"1"}, Human)
        ELSE AllOf({class, contract})
  BY DEF VoicemailChecks
<1> HIDE DEF verdict
<1>4. AreChecks(class) /\ AreChecks(contract)
  BY <1>1, EachIsCheck, ContractIsCheck
<1> HIDE DEF class, contract
<1> QED
  BY <1>2, <1>3, <1>4, AllAreChecks

LEMMA SummaryAreChecks ==
  ASSUME NEW case, NEW parsed
  PROVE  AreChecks(SummaryChecks(case, parsed))
<1> DEFINE text == Automatic(parsed.usable)
           nonblank == Each("nonblank", {"1"}, Critical(text, case.critical))
           facts == FactChecks(case)
           sentences == IF case.task = "context_summary" THEN <<>>
                        ELSE Each("sentence_compliance", {"1"}, Human)
<1>1. IsCheck(text)
  BY MakeCheck DEF Automatic
<1>2. SummaryChecks(case, parsed) = AllOf({nonblank, facts, sentences})
  BY DEF SummaryChecks
<1> HIDE DEF text
<1>3. AreChecks(nonblank) /\ AreChecks(facts) /\ AreChecks(sentences)
  BY <1>1, MakeCheck, FlagCheck, EachIsCheck, FactAreChecks, NoChecks
<1> HIDE DEF nonblank, facts, sentences
<1> QED
  BY <1>2, <1>3, AllAreChecks

LEMMA StructureAreChecks ==
  ASSUME NEW output
  PROVE  AreChecks(StructureChecks(output))
<1>1. ASSUME NEW id \in {"structure"} \X QAFields
      PROVE  IsCheck(Automatic(output[id[2]] # "absent"))
  BY MakeCheck DEF Automatic
<1> QED
  BY <1>1 DEF StructureChecks, AreChecks

LEMMA QAAreChecks ==
  ASSUME NEW case, NEW parsed, NEW says
  PROVE  AreChecks(QAChecks(case, parsed, says))
<1> DEFINE output == QAOutput(parsed, says)
           tags == TagsOf(output["tags"])
           when(flag, checks) == IF flag THEN checks ELSE <<>>
           one(name, check) == Each(name, {"1"}, check)
           known(f) == output[f] \notin {"absent", "invalid"}
           match(f) == Automatic(output[f] = "match")
           valid == Critical(Automatic(StructureValid(parsed, output)), case.critical)
           present == Critical(Automatic("E" \in tags), case.critical)
           absent == Critical(Automatic("F" \notin tags), case.critical)
           p1 == StructureChecks(output)
           p2 == one("qa_structure", valid)
           p3 == when(TagsOK(output), one("expected_tags_present", present))
           p4 == when(TagsOK(output), one("forbidden_tags_absent", absent))
           p5 == Each("tag_grounding", tags, Human)
           p6 == Each("unannotated", tags \cap {"U"}, Human)
           p7 == when(known("overall_sentiment"),
                      one("sentiment_match", match("overall_sentiment")))
           p8 == when(known("call_quality_score"),
                      one("score_in_range", match("call_quality_score")))
           p9 == FactChecks(case)
           p10 == when(known("summary"), one("sentence_compliance", Human))
<1>1. QAChecks(case, parsed, says) = AllOf({p1, p2, p3, p4, p5, p6, p7, p8, p9, p10})
  BY DEF QAChecks
<1>2. IsCheck(valid) /\ IsCheck(present) /\ IsCheck(absent)
  <2>1. /\ IsCheck(Automatic(StructureValid(parsed, output)))
        /\ IsCheck(Automatic("E" \in tags)) /\ IsCheck(Automatic("F" \notin tags))
    BY MakeCheck DEF Automatic
  <2> QED
    BY <2>1, FlagCheck
<1>3. IsCheck(match("overall_sentiment")) /\ IsCheck(match("call_quality_score"))
  BY MakeCheck DEF Automatic
<1> HIDE DEF valid, present, absent, match, tags, output
<1>4. AreChecks(p1) /\ AreChecks(p2) /\ AreChecks(p3) /\ AreChecks(p4)
  BY <1>2, StructureAreChecks, EachIsCheck, NoChecks
<1>5. AreChecks(p5) /\ AreChecks(p6) /\ AreChecks(p9) /\ AreChecks(p10)
  BY MakeCheck, EachIsCheck, FactAreChecks, NoChecks
<1>6. AreChecks(p7) /\ AreChecks(p8)
  BY <1>3, EachIsCheck, NoChecks
<1> HIDE DEF p1, p2, p3, p4, p5, p6, p7, p8, p9, p10
<1>7. \A checks \in {p1, p2, p3, p4, p5, p6, p7, p8, p9, p10} : AreChecks(checks)
  BY <1>4, <1>5, <1>6
<1> QED
  BY <1>1, <1>7, AllAreChecks

LEMMA ScoredAreChecks ==
  ASSUME NEW case, NEW parsed, NEW says
  PROVE  AreChecks(Checks(case, parsed, says))
  BY ExtractionAreChecks, VoicemailAreChecks, QAAreChecks, SummaryAreChecks DEF Checks

LEMMA NegativeAreChecks ==
  ASSUME NEW checks, AreChecks(checks), NEW valid
  PROVE  AreChecks(NegativeChecks(checks, valid))
<1> DEFINE kept == [id \in {i \in DOMAIN checks : checks[i].method = "automatic"} |->
                      Critical(checks[id], FALSE)]
           question == Each("critical", {"matrix-critical"}, Critical(Human, TRUE))
           stimulus == Automatic(valid /\ Stimulus(checks))
           control == Each("control", {"negative_stimulus"}, Control(stimulus))
<1>1. NegativeChecks(checks, valid) = AllOf({kept, question, control})
  BY DEF NegativeChecks
<1>2. AreChecks(kept) /\ AreChecks(question)
  BY MakeCheck, FlagCheck, EachIsCheck DEF AreChecks
<1>3. IsCheck(stimulus)
  BY MakeCheck DEF Automatic
<1> HIDE DEF stimulus
<1>4. AreChecks(control)
  BY <1>3, FlagCheck, EachIsCheck
<1> HIDE DEF kept, question, control
<1> QED
  BY <1>1, <1>2, <1>4, AllAreChecks

LEMMA MeasuredAreChecks ==
  ASSUME NEW case, NEW attempt, NEW parsed
  PROVE  AreChecks(Measured(case, attempt, parsed))
<1>1. AreChecks(ModelChecks(case, attempt, parsed))
  BY ScoredAreChecks, StructureAreChecks, NoChecks DEF ModelChecks
<1>2. AreChecks(ControlChecks(case, attempt, parsed))
  <2> DEFINE expected == Automatic(parsed.path = case.label)
             path == Each("control", {"parser_path"}, Control(expected))
             contract == Contract(case, Control(expected))
             checks == Checks(case, parsed, attempt.says)
             valid == StructureValid(parsed, QAOutput(parsed, attempt.says))
  <2>1. ControlChecks(case, attempt, parsed) =
          IF case.exercise = "QA-026" THEN NegativeChecks(checks, valid)
          ELSE AllOf({path, contract})
    BY DEF ControlChecks
  <2>2. IsCheck(expected)
    BY MakeCheck DEF Automatic
  <2> HIDE DEF expected
  <2>3. AreChecks(path) /\ AreChecks(contract)
    BY <2>2, FlagCheck, EachIsCheck, ContractIsCheck
  <2>4. AreChecks(NegativeChecks(checks, valid))
    BY ScoredAreChecks, NegativeAreChecks
  <2> HIDE DEF path, contract, checks, valid
  <2> QED
    BY <2>1, <2>3, <2>4, AllAreChecks
<1> QED
  BY <1>1, <1>2 DEF Measured

-----------------------------------------------------------------------------
(* Rows are one evaluator's of the batch; a view has the rows' identities, *)
(* and where it departs from them somebody decided so.                     *)

BatchInv == \E input \in Inputs : batch = input.batch

RowsInv ==
  \E fingerprint \in Evaluators : \A n \in DOMAIN rows :
    n \in DOMAIN batch /\ rows[n] = Evaluation(batch[n], fingerprint)

\* A decision's `about` is what its id tells of.
DeskInv ==
  \A d \in desk :
    d.about = <<[case |-> d.id.case, attempt |-> d.id.attempt], d.id.evaluator>>

Verdict(n, k) ==
  /\ view[n].checks[k] = [rows[n].checks[k] EXCEPT !.status = view[n].checks[k].status]
  /\ rows[n].checks[k].method = "human"
  /\ \E d \in desk : /\ d.check = k /\ d.status = view[n].checks[k].status
                     /\ d.about = rows[n].basis

SameRow(n) ==
  /\ view[n] = [id |-> rows[n].id, basis |-> rows[n].basis,
                case |-> rows[n].case, checks |-> view[n].checks]
  /\ DOMAIN view[n].checks = DOMAIN rows[n].checks

ViewInv ==
  /\ DOMAIN view = DOMAIN rows
  /\ \A n \in DOMAIN rows :
       /\ SameRow(n)
       /\ \A k \in DOMAIN rows[n].checks :
            view[n].checks[k] = rows[n].checks[k] \/ Verdict(n, k)

ReviewInv == BatchInv /\ RowsInv /\ DeskInv /\ ViewInv

(* The fields of a row, and that its checks are checks. *)
LEMMA RowFields ==
  ASSUME NEW entry, NEW fingerprint
  PROVE  LET row == Evaluation(entry, fingerprint)
         IN /\ row = [id |-> Identity(entry, fingerprint), basis |-> <<entry, fingerprint>>,
                      case |-> entry.case, checks |-> row.checks]
            /\ row.id.case = entry.case /\ row.id.attempt = entry.attempt
            /\ row.id.evaluator = fingerprint
            /\ row.basis = <<entry, fingerprint>> /\ row.case = entry.case
            /\ AreChecks(row.checks)
  BY MeasuredAreChecks DEF Evaluation, Identity

(* What the checks of a row are does not depend on the evaluator's name. *)
LEMMA SameChecks ==
  ASSUME NEW entry, NEW one, NEW other
  PROVE  Evaluation(entry, one).checks = Evaluation(entry, other).checks
  BY DEF Evaluation

LEMMA Entries ==
  ASSUME BatchInv
  PROVE  /\ \A n \in DOMAIN batch :
              /\ batch[n] = [case |-> batch[n].case, attempt |-> batch[n].attempt]
              /\ batch[n].attempt.text \in Seq(STRING)
         /\ \A n, m \in DOMAIN batch : batch[n].case = batch[m].case => n = m
  BY InputsAssumption DEF BatchInv

(* A decision about the row of that id is about what was measured there. *)
LEMMA AboutTheRow ==
  ASSUME BatchInv, RowsInv, DeskInv, NEW d \in desk, NEW n \in DOMAIN rows,
         d.id = rows[n].id
  PROVE  d.about = rows[n].basis
<1>1. PICK fingerprint \in Evaluators :
        n \in DOMAIN batch /\ rows[n] = Evaluation(batch[n], fingerprint)
  BY DEF RowsInv
<1>2. d.about = <<[case |-> batch[n].case, attempt |-> batch[n].attempt], fingerprint>>
  BY <1>1, RowFields DEF DeskInv
<1> QED
  BY <1>1, <1>2, Entries, RowFields

(* The row a view is of. *)
LEMMA ViewOfBatch ==
  ASSUME ReviewInv, NEW n \in DOMAIN view
  PROVE  /\ n \in DOMAIN rows /\ n \in DOMAIN batch
         /\ view[n].case = batch[n].case /\ view[n].id = rows[n].id
         /\ \E fingerprint \in Evaluators : rows[n] = Evaluation(batch[n], fingerprint)
<1>1. n \in DOMAIN rows /\ SameRow(n)
  BY DEF ReviewInv, ViewInv
<1>2. PICK fingerprint \in Evaluators :
        n \in DOMAIN batch /\ rows[n] = Evaluation(batch[n], fingerprint)
  BY <1>1 DEF ReviewInv, RowsInv
<1>3. view[n].case = rows[n].case /\ view[n].id = rows[n].id
  BY <1>1 DEF SameRow
<1> QED
  BY <1>1, <1>2, <1>3, RowFields

LEMMA ReviewInit == Init => ReviewInv
  BY DEF Init, ReviewInv, BatchInv, RowsInv, DeskInv, ViewInv

-----------------------------------------------------------------------------
(* Each action keeps the invariant.                                        *)

LEMMA FilesOfDesk ==
  ASSUME NEW ds \in Files \cup {<<>>}, NEW n \in DOMAIN ds
  PROVE  ds[n] \in desk
  BY DEF Files

LEMMA EvaluateStep ==
  ASSUME ReviewInv, evaluator \in Evaluators, Evaluate
  PROVE  ReviewInv'
<1>1. /\ rows' = [n \in DOMAIN batch |-> Evaluation(batch[n], evaluator)]
      /\ view' = rows' /\ batch' = batch /\ desk' = desk
  BY DEF Evaluate
<1>2. BatchInv' /\ DeskInv'
  BY <1>1 DEF ReviewInv, BatchInv, DeskInv
<1>3. RowsInv'
  BY <1>1 DEF RowsInv
<1>4. ViewInv'
  BY <1>1, RowFields DEF ViewInv, SameRow
<1> QED
  BY <1>2, <1>3, <1>4 DEF ReviewInv

LEMMA DecideStep ==
  ASSUME ReviewInv, NEW n \in DOMAIN view, NEW k, NEW status, Decide(n, k, status)
  PROVE  ReviewInv'
<1> DEFINE d == [id |-> view[n].id, check |-> k, status |-> status,
                 about |-> view[n].basis]
<1>1. desk' = desk \cup {d} /\ UNCHANGED <<batch, rows, view>>
  BY DEF Decide
<1>2. view[n].id = rows[n].id /\ view[n].basis = rows[n].basis /\ n \in DOMAIN rows
  BY DEF ReviewInv, ViewInv, SameRow
<1>3. d.about = <<[case |-> d.id.case, attempt |-> d.id.attempt], d.id.evaluator>>
  BY <1>2, Entries, RowFields DEF ReviewInv, RowsInv
<1>4. BatchInv' /\ RowsInv' /\ DeskInv'
  BY <1>1, <1>3 DEF ReviewInv, BatchInv, RowsInv, DeskInv
<1>5. ViewInv'
  BY <1>1 DEF ReviewInv, ViewInv, SameRow, Verdict
<1> QED
  BY <1>4, <1>5 DEF ReviewInv

LEMMA ApplyStep ==
  ASSUME ReviewInv, NEW n \in DOMAIN view, NEW ds \in Files, ApplyDecisions(n, ds)
  PROVE  ReviewInv'
<1>1. /\ Binds(view[n], ds) /\ view' = [view EXCEPT ![n] = Apply(view[n], ds)]
      /\ UNCHANGED <<batch, rows, desk>>
  BY DEF ApplyDecisions
<1>2. n \in DOMAIN rows /\ DOMAIN view' = DOMAIN view /\ view'[n] = Apply(view[n], ds)
      /\ \A m \in DOMAIN view : m # n => view'[m] = view[m]
  BY <1>1 DEF ReviewInv, ViewInv
<1> DEFINE new == Apply(view[n], ds)
           of(k) == CHOOSE m \in DOMAIN ds : ds[m].check = k
<1>3. SameRow(n)
  BY <1>2 DEF ReviewInv, ViewInv
<1>4. /\ new = [id |-> rows[n].id, basis |-> rows[n].basis,
                case |-> rows[n].case, checks |-> new.checks]
      /\ DOMAIN new.checks = DOMAIN rows[n].checks
      /\ \A k \in DOMAIN rows[n].checks : new.checks[k] =
           IF \E m \in DOMAIN ds : ds[m].check = k
           THEN [view[n].checks[k] EXCEPT !.status = ds[of(k)].status]
           ELSE view[n].checks[k]
  BY <1>3 DEF SameRow, Apply
<1>5. ASSUME NEW k \in DOMAIN rows[n].checks
      PROVE  new.checks[k] = rows[n].checks[k] \/
             /\ new.checks[k] = [rows[n].checks[k] EXCEPT !.status = new.checks[k].status]
             /\ rows[n].checks[k].method = "human"
             /\ \E d \in desk : /\ d.check = k /\ d.status = new.checks[k].status
                                /\ d.about = rows[n].basis
  <2>1. view[n].checks[k] = rows[n].checks[k] \/ Verdict(n, k)
    BY <1>2 DEF ReviewInv, ViewInv
  <2>2. CASE ~\E m \in DOMAIN ds : ds[m].check = k
    BY <1>4, <2>1, <2>2 DEF Verdict
  <2>3. CASE \E m \in DOMAIN ds : ds[m].check = k
    <3> DEFINE d == ds[of(k)]
    <3>1. of(k) \in DOMAIN ds /\ d.check = k
      BY <2>3
    <3>2. d \in desk /\ d.id = rows[n].id /\ view[n].checks[k].method = "human"
      BY <1>1, <1>3, <3>1, FilesOfDesk DEF Binds, SameRow
    <3>3. d.about = rows[n].basis
      BY <1>2, <3>2, AboutTheRow DEF ReviewInv
    <3>4. IsCheck(rows[n].checks[k])
      BY <1>2, RowFields DEF ReviewInv, RowsInv, AreChecks
    <3>5. /\ rows[n].checks[k].method = "human"
          /\ [view[n].checks[k] EXCEPT !.status = d.status] =
             [rows[n].checks[k] EXCEPT !.status = d.status]
          /\ [rows[n].checks[k] EXCEPT !.status = d.status].status = d.status
      BY <2>1, <3>2, <3>4 DEF Verdict, IsCheck
    <3>6. new.checks[k] = [view[n].checks[k] EXCEPT !.status = d.status]
      BY <1>4, <2>3
    <3> HIDE DEF new, d
    <3> QED
      BY <3>1, <3>2, <3>3, <3>5, <3>6
  <2> QED
    BY <2>2, <2>3
<1>6. BatchInv' /\ RowsInv' /\ DeskInv'
  BY <1>1 DEF ReviewInv, BatchInv, RowsInv, DeskInv
<1>7. ViewInv'
  <2> HIDE DEF new
  <2>1. view'[n] = new
    BY <1>2 DEF new
  <2>2. SameRow(n)'
    BY <1>1, <1>4, <2>1 DEF SameRow
  <2>3. \A k \in DOMAIN rows[n].checks :
          view'[n].checks[k] = rows[n].checks[k] \/ Verdict(n, k)'
    BY <1>1, <1>5, <2>1 DEF Verdict
  <2>4. ASSUME NEW m \in DOMAIN rows, m # n
        PROVE  /\ SameRow(m)'
               /\ \A k \in DOMAIN rows[m].checks :
                    view'[m].checks[k] = rows[m].checks[k] \/ Verdict(m, k)'
    <3>1. view'[m] = view[m]
      BY <1>2, <2>4 DEF ReviewInv, ViewInv
    <3> QED
      BY <1>1, <2>4, <3>1 DEF ReviewInv, ViewInv, SameRow, Verdict
  <2> QED
    BY <1>1, <1>2, <2>2, <2>3, <2>4 DEF ReviewInv, ViewInv
<1> QED
  BY <1>6, <1>7 DEF ReviewInv

LEMMA ReviewStep ==
  ASSUME ReviewInv, evaluator \in Evaluators, [Next]_reviewVars
  PROVE  ReviewInv' /\ evaluator' \in Evaluators
<1>1. CASE Evaluate
  BY <1>1, EvaluateStep DEF Evaluate
<1>2. ASSUME NEW fingerprint \in Evaluators, Revise(fingerprint)
      PROVE  ReviewInv' /\ evaluator' \in Evaluators
  BY <1>2 DEF Revise, ReviewInv, BatchInv, RowsInv, DeskInv, ViewInv, SameRow, Verdict
<1>3. ASSUME NEW n \in DOMAIN view, NEW k, NEW status, Decide(n, k, status)
      PROVE  ReviewInv' /\ evaluator' \in Evaluators
  BY <1>3, DecideStep DEF Decide
<1>4. ASSUME NEW n \in DOMAIN view, NEW ds \in Files, ApplyDecisions(n, ds)
      PROVE  ReviewInv' /\ evaluator' \in Evaluators
  BY <1>4, ApplyStep DEF ApplyDecisions
<1>5. ASSUME NEW given, NEW ds, Publish(given, ds)
      PROVE  ReviewInv' /\ evaluator' \in Evaluators
  BY <1>5 DEF Publish, ReviewInv, BatchInv, RowsInv, DeskInv, ViewInv, SameRow, Verdict
<1>6. CASE UNCHANGED reviewVars
  BY <1>6 DEF reviewVars, ReviewInv, BatchInv, RowsInv, DeskInv, ViewInv, SameRow, Verdict
<1> QED
  BY <1>1, <1>2, <1>3, <1>4, <1>5, <1>6 DEF Next

THEOREM ReviewInvariant == ReviewSpec => [](ReviewInv /\ evaluator \in Evaluators)
<1>1. Init => ReviewInv /\ evaluator \in Evaluators
  BY ReviewInit DEF Init
<1>2. ReviewInv /\ evaluator \in Evaluators /\ [Next]_reviewVars
      => (ReviewInv /\ evaluator \in Evaluators)'
  BY ReviewStep
<1> QED
  BY <1>1, <1>2, PTL DEF ReviewSpec

(* No view departs from the automatic evaluation except by what somebody   *)
(* decided on a human check of this very measurement.                      *)
THEOREM VerdictsAlwaysAboutThis == ReviewSpec => []VerdictsAreAboutThis
<1>1. ReviewInv => VerdictsAreAboutThis
  BY DEF ReviewInv, ViewInv, SameRow, Verdict, VerdictsAreAboutThis
<1> QED
  BY <1>1, ReviewInvariant, PTL

-----------------------------------------------------------------------------
(* Summaries: what they say of a case depends on its checks alone, and no  *)
(* failed or open check is hidden by another.                              *)

LEMMA SameStatuses ==
  ASSUME NEW row, NEW other, row.case = other.case,
         DOMAIN row.checks = DOMAIN other.checks,
         \A k \in DOMAIN row.checks : row.checks[k] = other.checks[k]
  PROVE  critical_status(row) = critical_status(other)
<1>1. Statuses(row, LAMBDA c : c.critical) = Statuses(other, LAMBDA c : c.critical)
  BY DEF Statuses
<1> QED
  BY <1>1 DEF critical_status

LEMMA SameSummary ==
  ASSUME NEW rs, NEW qs, DOMAIN rs = DOMAIN qs,
         \A n \in DOMAIN rs :
           /\ rs[n].case = qs[n].case
           /\ DOMAIN rs[n].checks = DOMAIN qs[n].checks
           /\ \A k \in DOMAIN rs[n].checks : rs[n].checks[k] = qs[n].checks[k]
  PROVE  CriticalSummary(rs) = CriticalSummary(qs)
<1> DEFINE critical(ts) == {n \in DOMAIN ts : ts[n].case.critical}
           cases(ts, status) ==
             {ts[n].case : n \in {k \in critical(ts) : critical_status(ts[k]) = status}}
           listed(ts, n, status) ==
             {<<ts[n].case, k>> : k \in {l \in DOMAIN ts[n].checks :
                ts[n].checks[l].critical /\ ts[n].checks[l].status = status}}
           checks(ts, status) == UNION {listed(ts, n, status) : n \in critical(ts)}
<1>1. critical(rs) = critical(qs)
  OBVIOUS
<1>2. \A n \in critical(rs) : critical_status(rs[n]) = critical_status(qs[n])
  BY SameStatuses
<1>3. ASSUME NEW status PROVE cases(rs, status) = cases(qs, status)
  BY <1>1, <1>2
<1>4. ASSUME NEW status PROVE checks(rs, status) = checks(qs, status)
  <2>1. \A n \in critical(rs) : listed(rs, n, status) = listed(qs, n, status)
    OBVIOUS
  <2> QED
    BY <1>1, <2>1
<1>5. /\ CriticalSummary(rs) = [status \in {"pass", "fail", "pending", "unavailable"} |->
           [cases |-> cases(rs, status), checks |-> checks(rs, status)]]
      /\ CriticalSummary(qs) = [status \in {"pass", "fail", "pending", "unavailable"} |->
           [cases |-> cases(qs, status), checks |-> checks(qs, status)]]
  BY DEF CriticalSummary
<1> HIDE DEF cases, checks
<1> QED
  BY <1>3, <1>4, <1>5

LEMMA FailureDecides ==
  ASSUME NEW row, row.case.critical, NEW k \in DOMAIN row.checks, row.checks[k].critical
  PROVE  /\ row.checks[k].status = "fail" => critical_status(row) = "fail"
         /\ row.checks[k].status \in {"fail", "pending"} => critical_status(row) # "pass"
<1> DEFINE statuses == Statuses(row, LAMBDA c : c.critical)
<1>1. row.checks[k].status \in statuses
  BY DEF Statuses
<1>2. critical_status(row) = Rollup(statuses)
  BY DEF critical_status
<1> HIDE DEF statuses
<1> QED
  BY <1>1, <1>2 DEF Rollup

\* "A critical failure does not hide other pending checks", nor do they hide it.
THEOREM FailuresAlwaysShown == ReviewSpec => []FailuresAreShown
<1>1. ASSUME ReviewInv PROVE FailuresAreShown
  <2> DEFINE summary == CriticalSummary(view)
             critical == {n \in DOMAIN view : view[n].case.critical}
             listed(n, status) ==
               {<<view[n].case, k>> : k \in {l \in DOMAIN view[n].checks :
                  view[n].checks[l].critical /\ view[n].checks[l].status = status}}
  <2>1. \A status \in {"pass", "fail", "pending", "unavailable"} :
          /\ summary[status].cases =
               {view[n].case : n \in {k \in critical : critical_status(view[k]) = status}}
          /\ summary[status].checks = UNION {listed(n, status) : n \in critical}
    BY DEF CriticalSummary
  <2>2. \A n, m \in DOMAIN view : view[n].case = view[m].case => n = m
    BY <1>1, ViewOfBatch, Entries DEF ReviewInv
  <2> SUFFICES ASSUME NEW n \in DOMAIN view, view[n].case.critical
               PROVE  LET c == view[n].case
                          with(status) == {k \in DOMAIN view[n].checks :
                            view[n].checks[k].critical /\ view[n].checks[k].status = status}
                      IN /\ with("fail") # {} => c \in summary["fail"].cases
                         /\ c \in summary["pass"].cases => with("fail") = {} /\ with("pending") = {}
                         /\ \A status \in {"fail", "pending"} : \A k \in with(status) :
                              <<c, k>> \in summary[status].checks
    BY DEF FailuresAreShown
  <2> HIDE DEF summary
  <2> DEFINE c == view[n].case
             with(status) == {k \in DOMAIN view[n].checks :
                               view[n].checks[k].critical /\ view[n].checks[k].status = status}
  <2>3. with("fail") # {} => c \in summary["fail"].cases
    BY <2>1, FailureDecides
  <2>4. c \in summary["pass"].cases => with("fail") = {} /\ with("pending") = {}
    <3>1. c \in summary["pass"].cases => critical_status(view[n]) = "pass"
      BY <2>1, <2>2
    <3> QED
      BY <3>1, FailureDecides
  <2>5. ASSUME NEW status \in {"fail", "pending"}, NEW k \in with(status)
        PROVE  <<c, k>> \in summary[status].checks
    <3>1. <<c, k>> \in listed(n, status) /\ n \in critical
      OBVIOUS
    <3> HIDE DEF listed, critical
    <3> QED
      BY <2>1, <3>1
  <2> QED
    BY <2>3, <2>4, <2>5
<1> QED
  BY <1>1, ReviewInvariant, PTL

-----------------------------------------------------------------------------
(* A published summary is the one its own batch and decisions give, under  *)
(* any evaluator's name.                                                   *)

Decided(id, decisions, k) == {d \in decisions : d.id = id /\ d.check = k}

Again(id, decisions, fingerprint) ==
  LET row == Evaluation([case |-> id.case, attempt |-> id.attempt], fingerprint)
  IN [row EXCEPT !.checks = [k \in DOMAIN row.checks |->
        IF Decided(id, decisions, k) = {} THEN row.checks[k]
        ELSE [row.checks[k] EXCEPT !.status =
                (CHOOSE d \in Decided(id, decisions, k) : TRUE).status]]]

Recomputed(ids, decisions, fingerprint) ==
  CriticalSummary([n \in DOMAIN ids |-> Again(ids[n], decisions, fingerprint)])

RevisionInv ==
  published # <<>> => \A fingerprint \in Evaluators :
    published.summary = Recomputed(published.batch, published.decisions, fingerprint)

(* Rows that are not refused say what the evaluator measured. *)
LEMMA NothingDecided ==
  ASSUME ReviewInv, NEW given \in {rows, view}, ~Refused(given), NEW n \in DOMAIN given
  PROVE  /\ n \in DOMAIN rows /\ n \in DOMAIN batch
         /\ given[n].case = batch[n].case /\ given[n].id = rows[n].id
         /\ DOMAIN given[n].checks = DOMAIN rows[n].checks
         /\ \A k \in DOMAIN rows[n].checks : given[n].checks[k] = rows[n].checks[k]
         /\ given[n] = [id |-> rows[n].id, basis |-> rows[n].basis,
                        case |-> rows[n].case, checks |-> given[n].checks]
<1>1. n \in DOMAIN rows /\ n \in DOMAIN view
  BY DEF ReviewInv, ViewInv
<1>2. PICK fingerprint \in Evaluators :
        n \in DOMAIN batch /\ rows[n] = Evaluation(batch[n], fingerprint)
  BY <1>1, ViewOfBatch
<1>3. /\ rows[n] = [id |-> rows[n].id, basis |-> rows[n].basis,
                    case |-> rows[n].case, checks |-> rows[n].checks]
      /\ rows[n].case = batch[n].case /\ AreChecks(rows[n].checks)
  BY <1>2, RowFields
<1>4. CASE given = rows
  BY <1>1, <1>2, <1>3, <1>4
<1>5. CASE given = view
  <2>1. SameRow(n)
    BY <1>1 DEF ReviewInv, ViewInv
  <2>2. ASSUME NEW k \in DOMAIN rows[n].checks
        PROVE  view[n].checks[k] = rows[n].checks[k]
    <3>1. CASE view[n].checks[k] = rows[n].checks[k]
      BY <3>1
    <3>2. CASE Verdict(n, k)
      <4>1. IsCheck(rows[n].checks[k]) /\ rows[n].checks[k].method = "human"
        BY <1>3, <3>2 DEF AreChecks, Verdict
      <4>2. view[n].checks[k].method = "human"
        BY <3>2, <4>1 DEF Verdict, IsCheck
      <4>3. view[n].checks[k].status = "pending"
        BY <1>1, <1>5, <2>1, <4>2 DEF Refused, SameRow
      <4>4. rows[n].checks[k].status = "pending"
        BY <4>1 DEF IsCheck
      <4>5. [rows[n].checks[k] EXCEPT !.status = "pending"] = rows[n].checks[k]
        BY <4>1, <4>4 DEF IsCheck
      <4> QED
        BY <3>2, <4>3, <4>5 DEF Verdict
    <3> QED
      BY <1>1, <3>1, <3>2 DEF ReviewInv, ViewInv
  <2>3. view[n] = [id |-> rows[n].id, basis |-> rows[n].basis,
                   case |-> rows[n].case, checks |-> view[n].checks]
        /\ DOMAIN view[n].checks = DOMAIN rows[n].checks
    BY <2>1 DEF SameRow
  <2>4. view[n].case = batch[n].case /\ view[n].id = rows[n].id
    BY <1>1, ViewOfBatch
  <2> QED
    BY <1>1, <1>2, <1>5, <2>2, <2>3, <2>4
<1> QED
  BY <1>4, <1>5

LEMMA AgainFields ==
  ASSUME NEW id, NEW decisions, NEW fingerprint
  PROVE  LET row == Evaluation([case |-> id.case, attempt |-> id.attempt], fingerprint)
             again == Again(id, decisions, fingerprint)
         IN /\ again.case = id.case
            /\ DOMAIN again.checks = DOMAIN row.checks
            /\ \A k \in DOMAIN row.checks : again.checks[k] =
                 IF Decided(id, decisions, k) = {} THEN row.checks[k]
                 ELSE [row.checks[k] EXCEPT !.status =
                         (CHOOSE d \in Decided(id, decisions, k) : TRUE).status]
<1> DEFINE row == Evaluation([case |-> id.case, attempt |-> id.attempt], fingerprint)
<1>1. row = [id |-> row.id, basis |-> row.basis, case |-> id.case, checks |-> row.checks]
  BY RowFields
<1>2. Again(id, decisions, fingerprint) =
        [row EXCEPT !.checks = [k \in DOMAIN row.checks |->
           IF Decided(id, decisions, k) = {} THEN row.checks[k]
           ELSE [row.checks[k] EXCEPT !.status =
                   (CHOOSE d \in Decided(id, decisions, k) : TRUE).status]]]
  BY DEF Again
<1> HIDE DEF row
<1>3. /\ Again(id, decisions, fingerprint).case = id.case
      /\ Again(id, decisions, fingerprint).checks =
           [k \in DOMAIN row.checks |->
              IF Decided(id, decisions, k) = {} THEN row.checks[k]
              ELSE [row.checks[k] EXCEPT !.status =
                      (CHOOSE d \in Decided(id, decisions, k) : TRUE).status]]
  BY <1>1, <1>2
<1> QED
  BY <1>3 DEF row

(* The one decision of a file on a check is the one that is applied. *)
LEMMA OneDecision ==
  ASSUME NEW row, NEW ds, Binds(row, Group(row, ds)), NEW k
  PROVE  LET mine == Group(row, ds)
             decided == Decided(row.id, Range(ds), k)
         IN /\ decided = {} <=> ~\E m \in DOMAIN mine : mine[m].check = k
            /\ decided # {} => (CHOOSE d \in decided : TRUE) =
                 mine[CHOOSE m \in DOMAIN mine : mine[m].check = k]
<1> DEFINE mine == Group(row, ds)
           decided == Decided(row.id, Range(ds), k)
<1>1. /\ DOMAIN mine = {m \in DOMAIN ds : ds[m].id = row.id}
      /\ \A m \in DOMAIN mine : mine[m] = ds[m]
  BY DEF Group
<1>2. \A i, j \in DOMAIN mine : mine[i].check = mine[j].check => i = j
  BY DEF Binds
<1>3. decided = {mine[m] : m \in {i \in DOMAIN mine : mine[i].check = k}}
  BY <1>1 DEF Range, Decided
<1> HIDE DEF mine, decided
<1>4. ASSUME NEW m \in DOMAIN mine, mine[m].check = k
      PROVE  decided = {mine[m]} /\ m = (CHOOSE i \in DOMAIN mine : mine[i].check = k)
  BY <1>2, <1>3, <1>4
<1>5. decided = {} <=> ~\E m \in DOMAIN mine : mine[m].check = k
  BY <1>3
<1>6. ASSUME decided # {}
      PROVE  (CHOOSE d \in decided : TRUE) =
               mine[CHOOSE m \in DOMAIN mine : mine[m].check = k]
  <2>1. PICK m \in DOMAIN mine : mine[m].check = k
    BY <1>5, <1>6
  <2>2. decided = {mine[m]} /\ m = (CHOOSE i \in DOMAIN mine : mine[i].check = k)
    BY <1>4, <2>1
  <2> QED
    BY <2>2
<1> QED
  BY <1>5, <1>6 DEF mine, decided

LEMMA ApplyFields ==
  ASSUME NEW row, NEW ds,
         row = [id |-> row.id, basis |-> row.basis, case |-> row.case, checks |-> row.checks]
  PROVE  LET new == Apply(row, ds)
         IN /\ new.case = row.case /\ DOMAIN new.checks = DOMAIN row.checks
            /\ \A k \in DOMAIN row.checks : new.checks[k] =
                 IF \E m \in DOMAIN ds : ds[m].check = k
                 THEN [row.checks[k] EXCEPT !.status =
                         ds[CHOOSE m \in DOMAIN ds : ds[m].check = k].status]
                 ELSE row.checks[k]
  BY DEF Apply

LEMMA PublishStep ==
  ASSUME ReviewInv, NEW given \in {rows, view}, NEW ds, Publish(given, ds)
  PROVE  RevisionInv'
<1> DEFINE ids == [k \in DOMAIN given |-> given[k].id]
<1>1. /\ ~Refused(given) /\ Accepted(given, ds)
      /\ published' = [batch |-> ids, decisions |-> Range(ds),
                       summary |-> CriticalSummary(Updated(given, ds))]
  BY DEF Publish
<1>2. SUFFICES ASSUME NEW fingerprint \in Evaluators
               PROVE  CriticalSummary(Updated(given, ds)) =
                        Recomputed(ids, Range(ds), fingerprint)
  BY <1>1 DEF RevisionInv
<1> DEFINE new(n) == Apply(given[n], Group(given[n], ds))
           again(n) == Again(given[n].id, Range(ds), fingerprint)
<1>3. ASSUME NEW n \in DOMAIN given
      PROVE  /\ new(n).case = again(n).case
             /\ DOMAIN new(n).checks = DOMAIN again(n).checks
             /\ \A k \in DOMAIN new(n).checks : new(n).checks[k] = again(n).checks[k]
  <2> DEFINE id == given[n].id
             row == Evaluation([case |-> id.case, attempt |-> id.attempt], fingerprint)
  <2>1. /\ n \in DOMAIN rows /\ n \in DOMAIN batch
        /\ given[n].case = batch[n].case /\ given[n].id = rows[n].id
        /\ DOMAIN given[n].checks = DOMAIN rows[n].checks
        /\ \A k \in DOMAIN rows[n].checks : given[n].checks[k] = rows[n].checks[k]
        /\ given[n] = [id |-> rows[n].id, basis |-> rows[n].basis,
                       case |-> rows[n].case, checks |-> given[n].checks]
    BY <1>1, NothingDecided
  <2>2. given[n] = [id |-> given[n].id, basis |-> given[n].basis,
                    case |-> given[n].case, checks |-> given[n].checks]
    BY <2>1
  <2>3. PICK one \in Evaluators : rows[n] = Evaluation(batch[n], one)
    BY <2>1 DEF ReviewInv, RowsInv
  <2>4. id.case = batch[n].case /\ id.attempt = batch[n].attempt
    BY <2>1, <2>3, RowFields
  <2>5. [case |-> id.case, attempt |-> id.attempt] = batch[n]
    BY <2>1, <2>4, Entries DEF ReviewInv
  <2>6. rows[n].checks = row.checks
    BY <2>3, <2>5, SameChecks
  <2>7. Binds(given[n], Group(given[n], ds))
    BY <1>1 DEF Accepted
  <2>8. /\ new(n).case = given[n].case /\ DOMAIN new(n).checks = DOMAIN given[n].checks
        /\ \A k \in DOMAIN given[n].checks : new(n).checks[k] =
             IF \E m \in DOMAIN Group(given[n], ds) : Group(given[n], ds)[m].check = k
             THEN [given[n].checks[k] EXCEPT !.status =
                     Group(given[n], ds)[CHOOSE m \in DOMAIN Group(given[n], ds) :
                                           Group(given[n], ds)[m].check = k].status]
             ELSE given[n].checks[k]
    BY <2>2, ApplyFields
  <2>9. /\ again(n).case = id.case
        /\ DOMAIN again(n).checks = DOMAIN row.checks
        /\ \A k \in DOMAIN row.checks : again(n).checks[k] =
             IF Decided(id, Range(ds), k) = {} THEN row.checks[k]
             ELSE [row.checks[k] EXCEPT !.status =
                     (CHOOSE d \in Decided(id, Range(ds), k) : TRUE).status]
    BY AgainFields
  <2> HIDE DEF new, again, row
  <2>10. ASSUME NEW k \in DOMAIN row.checks
         PROVE  new(n).checks[k] = again(n).checks[k]
    <3> DEFINE mine == Group(given[n], ds)
               decided == Decided(id, Range(ds), k)
               first == CHOOSE m \in DOMAIN mine : mine[m].check = k
    <3>1. /\ decided = {} <=> ~\E m \in DOMAIN mine : mine[m].check = k
          /\ decided # {} => (CHOOSE d \in decided : TRUE) = mine[first]
      BY <2>7, OneDecision
    <3>2. given[n].checks[k] = row.checks[k] /\ k \in DOMAIN given[n].checks
      BY <2>1, <2>6
    <3>3. new(n).checks[k] = IF \E m \in DOMAIN mine : mine[m].check = k
                             THEN [row.checks[k] EXCEPT !.status = mine[first].status]
                             ELSE row.checks[k]
      BY <2>8, <3>2
    <3>4. again(n).checks[k] =
            IF decided = {} THEN row.checks[k]
            ELSE [row.checks[k] EXCEPT !.status = (CHOOSE d \in decided : TRUE).status]
      BY <2>9
    <3> HIDE DEF mine, decided, first
    <3> QED
      BY <3>1, <3>3, <3>4
  <2> QED
    BY <2>1, <2>4, <2>6, <2>8, <2>9, <2>10
<1>4. /\ DOMAIN Updated(given, ds) = DOMAIN given
      /\ \A n \in DOMAIN given : Updated(given, ds)[n] = new(n)
  BY DEF Updated
<1> DEFINE anew == [n \in DOMAIN given |-> again(n)]
<1>5. Recomputed(ids, Range(ds), fingerprint) = CriticalSummary(anew)
  <2>1. anew = [n \in DOMAIN ids |-> Again(ids[n], Range(ds), fingerprint)]
    OBVIOUS
  <2> QED
    BY <2>1 DEF Recomputed
<1>6. /\ DOMAIN anew = DOMAIN given
      /\ \A n \in DOMAIN given : anew[n] = again(n)
  OBVIOUS
<1> HIDE DEF anew, again, new
<1>7. CriticalSummary(Updated(given, ds)) = CriticalSummary(anew)
  <2> DEFINE updated == Updated(given, ds)
  <2>1. /\ DOMAIN updated = DOMAIN anew
        /\ \A n \in DOMAIN updated :
             /\ updated[n].case = anew[n].case
             /\ DOMAIN updated[n].checks = DOMAIN anew[n].checks
             /\ \A k \in DOMAIN updated[n].checks :
                  updated[n].checks[k] = anew[n].checks[k]
    BY <1>3, <1>4, <1>6
  <2> HIDE DEF updated
  <2>2. CriticalSummary(updated) = CriticalSummary(anew)
    BY <2>1, SameSummary
  <2> QED
    BY <2>2 DEF updated
<1> QED
  BY <1>5, <1>7

LEMMA RevisionStep ==
  ASSUME ReviewInv, RevisionInv, [Next]_reviewVars
  PROVE  RevisionInv'
<1>1. CASE published' = published
  BY <1>1 DEF RevisionInv, Recomputed
<1>2. ASSUME NEW given \in {rows, view}, NEW ds, Publish(given, ds)
      PROVE  RevisionInv'
  BY <1>2, PublishStep
<1> QED
  BY <1>1, <1>2 DEF Next, reviewVars, Evaluate, Revise, Decide, ApplyDecisions

(* A published summary follows from the automatic records and the          *)
(* decisions published with it, and from nothing else.                     *)
THEOREM RevisionAlwaysItsDecisions == ReviewSpec => []RevisionIsItsDecisions
<1>1. Init => RevisionInv
  BY DEF Init, RevisionInv
<1>2. ReviewInv /\ RevisionInv /\ [Next]_reviewVars => RevisionInv'
  BY RevisionStep
<1>3. evaluator \in Evaluators /\ RevisionInv => RevisionIsItsDecisions
  BY DEF RevisionInv, Recomputed, Again, Decided, RevisionIsItsDecisions
<1> QED
  BY <1>1, <1>2, <1>3, ReviewInvariant, PTL DEF ReviewSpec

-----------------------------------------------------------------------------
(* What the parsers recover is a piece of the answer.                      *)

LEMMA LeastOf ==
  ASSUME NEW S, S \subseteq Nat, S # {}
  PROVE  Min(S) \in S /\ \A y \in S : Min(S) <= y
<1>1. PICK x \in S : \A y \in S : ~ (<<y, x>> \in OpToRel(<, Nat))
  BY NatLessThanWellFounded, WFMin
<1>2. OpToRel(<, Nat) = {ss \in Nat \X Nat : ss[1] < ss[2]}
  BY DEF OpToRel
<1>3. ASSUME NEW y \in S PROVE x <= y
  <2>1. <<y, x>> \notin {ss \in Nat \X Nat : ss[1] < ss[2]}
    BY <1>1, <1>2
  <2>2. <<y, x>> \in Nat \X Nat /\ x \in Nat /\ y \in Nat
    OBVIOUS
  <2>3. ~(<<y, x>>[1] < <<y, x>>[2])
    BY <2>1, <2>2
  <2> QED
    BY <2>2, <2>3
<1> QED
  BY <1>3 DEF Min

LEMMA GreatestOf ==
  ASSUME NEW n \in Nat, NEW S, S \subseteq 1 .. n, S # {}
  PROVE  Max(S) \in S /\ \A y \in S : y <= Max(S)
<1> DEFINE T == {n - y : y \in S}
<1>1. \A y \in S : y \in Nat /\ y <= n /\ n - y \in Nat /\ n - y \in T
  OBVIOUS
<1>2. T \subseteq Nat /\ T # {}
  BY <1>1
<1>3. Min(T) \in T /\ \A z \in T : Min(T) <= z
  BY <1>2, LeastOf
<1>4. PICK x \in S : Min(T) = n - x
  BY <1>3
<1> HIDE DEF T
<1>5. \A y \in S : n - x <= n - y
  BY <1>1, <1>3, <1>4
<1>6. \A y \in S : x >= y
  BY <1>1, <1>5
<1>7. Max(S) \in S /\ \A y \in S : Max(S) >= y
  BY <1>6 DEF Max
<1> QED
  BY <1>1, <1>7

LEMMA SeqDomain ==
  ASSUME NEW S, NEW t \in Seq(S)
  PROVE  /\ Len(t) \in Nat /\ DOMAIN t = 1 .. Len(t)
         /\ \A i \in DOMAIN t : i \in Nat /\ i \in 1 .. Len(t)
<1>1. Len(t) \in Nat /\ DOMAIN t = 1 .. Len(t)
  OBVIOUS
<1> QED
  BY <1>1

Piece(t, p) == \E i, j \in DOMAIN t : i <= j /\ p = SubSeq(t, i, j)

LEMMA PieceIsSeq ==
  ASSUME NEW S, NEW t \in Seq(S), NEW p, Piece(t, p)
  PROVE  p \in Seq(S) /\ p # <<>>
  BY DEF Piece

LEMMA PieceOfPiece ==
  ASSUME NEW S, NEW t \in Seq(S), NEW s, Piece(t, s), NEW p, Piece(s, p)
  PROVE  Piece(t, p)
<1>1. PICK i, j \in DOMAIN t : i <= j /\ s = SubSeq(t, i, j)
  BY DEF Piece
<1>2. PICK a, b \in DOMAIN s : a <= b /\ p = SubSeq(s, a, b)
  BY DEF Piece
<1>3. DOMAIN t = 1 .. Len(t) /\ Len(t) \in Nat
  OBVIOUS
<1>4. /\ i \in Int /\ j \in Int /\ 1 <= i /\ j <= Len(t)
      /\ s = [k \in 1 .. j - i + 1 |-> t[i + k - 1]]
  BY <1>1, <1>3
<1>5. DOMAIN s = 1 .. j - i + 1 /\ \A k \in 1 .. j - i + 1 : s[k] = t[i + k - 1]
  BY <1>4
<1>6. /\ a \in Int /\ b \in Int /\ 1 <= a /\ b <= j - i + 1
      /\ p = [k \in 1 .. b - a + 1 |-> s[a + k - 1]]
  <2>1. a \in 1 .. j - i + 1 /\ b \in 1 .. j - i + 1
    BY <1>2, <1>5
  <2>2. p = [k \in 1 .. b - a + 1 |-> s[a + k - 1]]
    <3>1. s \in Seq(S)
      BY PieceIsSeq
    <3>2. a \in 1 .. Len(s) /\ b \in 1 .. Len(s)
      BY <1>2, <3>1, SeqDomain
    <3> HIDE <1>1
    <3> QED
      BY <1>2, <3>1, <3>2
  <2> QED
    BY <1>4, <2>1, <2>2
<1> DEFINE first == i + a - 1
           last == i + b - 1
<1>7. /\ first \in Int /\ last \in Int /\ 1 <= first /\ first <= last /\ last <= Len(t)
      /\ last - first + 1 = b - a + 1
  BY <1>2, <1>3, <1>4, <1>6
<1>8. ASSUME NEW k \in 1 .. b - a + 1 PROVE s[a + k - 1] = t[first + k - 1]
  <2>1. a + k - 1 \in 1 .. j - i + 1 /\ i + (a + k - 1) - 1 = first + k - 1
    BY <1>4, <1>6
  <2> QED
    BY <1>5, <2>1
<1>9. SubSeq(t, first, last) = [k \in 1 .. last - first + 1 |-> t[first + k - 1]]
  <2> HIDE DEF first, last
  <2> QED
    BY <1>7
<1>10. p = SubSeq(t, first, last)
  BY <1>6, <1>7, <1>8, <1>9
<1>11. first \in DOMAIN t /\ last \in DOMAIN t
  BY <1>3, <1>7
<1> QED
  BY <1>7, <1>10, <1>11 DEF Piece

LEMMA StripIsPiece ==
  ASSUME NEW S, NEW t \in Seq(S), Strip(t) # <<>>
  PROVE  Piece(t, Strip(t))
<1> DEFINE solid == {i \in DOMAIN t : t[i] # "_"}
<1>1. solid # {} /\ Strip(t) = SubSeq(t, Min(solid), Max(solid))
  BY DEF Strip
<1>2. DOMAIN t = 1 .. Len(t) /\ Len(t) \in Nat
      /\ solid \subseteq 1 .. Len(t) /\ solid \subseteq Nat
  <2>1. solid \subseteq DOMAIN t
    OBVIOUS
  <2> HIDE DEF solid
  <2> QED
    BY <2>1, SeqDomain
<1> HIDE DEF solid
<1>3. Min(solid) \in solid /\ Max(solid) \in solid /\ Min(solid) <= Max(solid)
  BY <1>1, <1>2, LeastOf, GreatestOf
<1>4. solid \subseteq DOMAIN t
  BY DEF solid
<1> QED
  BY <1>1, <1>3, <1>4 DEF Piece

LEMMA StructuredIsSolid ==
  ASSUME NEW t, Structured(t)
  PROVE  /\ t # NoAnswer /\ Strip(t) # <<>>
         /\ ProductionDecode(t) = Type(t)
  BY DEF Structured, ProductionDecode, Decode

LEMMA EmptyStrips == Strip(<<>>) = <<>>
  BY DEF Strip

LEMMA FenceIsPiece ==
  ASSUME NEW S, NEW t \in Seq(S), Structured(FirstFence(t))
  PROVE  Piece(t, FirstFence(t))
<1> DEFINE marks == {i \in DOMAIN t : t[i] = "fence"}
           from == Min(marks)
           to == Min(marks \ {from})
           body == IF t[from + 1] = "json" THEN from + 2 ELSE from + 1
           inside == SubSeq(t, body, to - 1)
<1>1. Cardinality(marks) >= 2 /\ FirstFence(t) = Strip(inside)
  <2>1. marks \subseteq 1 .. Len(t) /\ IsFiniteSet(1 .. Len(t))
    BY FS_Interval
  <2>2. Cardinality(marks) \in Nat
    BY <2>1, FS_Subset, FS_CardinalityType
  <2> QED
    BY <2>2, StructuredIsSolid DEF FirstFence
<1>2. marks # {} /\ \A k : marks # {k}
  <2> HIDE DEF marks
  <2>1. ASSUME marks = {} PROVE FALSE
    <3>1. Cardinality(marks) = 0
      BY <2>1, FS_EmptySet
    <3> QED
      BY <1>1, <3>1
  <2>2. ASSUME NEW k, marks = {k} PROVE FALSE
    <3>1. Cardinality(marks) = 1
      BY <2>2, FS_Singleton
    <3> QED
      BY <1>1, <3>1
  <2> QED
    BY <2>1, <2>2
<1>3. marks \subseteq Nat /\ marks \subseteq 1 .. Len(t) /\ Len(t) \in Nat
      /\ DOMAIN t = 1 .. Len(t)
  OBVIOUS
<1> HIDE DEF marks
<1>4. from \in marks /\ \A k \in marks : from <= k
  BY <1>2, <1>3, LeastOf
<1>5. to \in marks /\ to # from
  <2>1. marks \ {from} \subseteq Nat /\ marks \ {from} # {}
    BY <1>2, <1>3
  <2> QED
    BY <2>1, LeastOf
<1>6. from \in 1 .. Len(t) /\ to \in 1 .. Len(t) /\ from < to
  <2>1. from \in 1 .. Len(t) /\ to \in 1 .. Len(t) /\ from <= to
    BY <1>3, <1>4, <1>5
  <2> HIDE DEF from, to
  <2> QED
    BY <1>5, <2>1
<1>7. body \in {from + 1, from + 2}
  OBVIOUS
<1>8. Strip(inside) # <<>>
  <2>1. Structured(Strip(inside))
    BY <1>1
  <2> QED
    BY <2>1, EmptyStrips, StructuredIsSolid
<1>9. body <= to - 1
  <2>1. ASSUME body > to - 1 PROVE FALSE
    <3> HIDE DEF from, to, body
    <3>1. inside = <<>>
      BY <1>6, <1>7, <2>1
    <3> QED
      BY <3>1, <1>8, EmptyStrips
  <2> HIDE DEF from, to, body
  <2> QED
    BY <1>6, <1>7, <2>1
<1>10. Piece(t, inside) /\ inside \in Seq(S)
  <2> HIDE DEF from, to, body
  <2>1. body \in 1 .. Len(t) /\ to - 1 \in 1 .. Len(t)
    BY <1>6, <1>7, <1>9
  <2>2. body \in DOMAIN t /\ to - 1 \in DOMAIN t
    BY <2>1
  <2> QED
    BY <1>9, <2>2, PieceIsSeq DEF Piece
<1> HIDE DEF inside
<1> QED
  BY <1>1, <1>8, <1>10, StripIsPiece, PieceOfPiece

LEMMA BlockIsPiece ==
  ASSUME NEW S, NEW t \in Seq(S), NEW opening, NEW closing,
         FirstBalanced(t, opening, closing) # NoAnswer
  PROVE  Piece(t, FirstBalanced(t, opening, closing))
<1> DEFINE starts == {i \in DOMAIN t : t[i] = opening}
           start == Min(starts)
<1>1. starts # {} /\ \E ends \in SUBSET {i \in DOMAIN t : i > start} :
        ends # {} /\ FirstBalanced(t, opening, closing) = SubSeq(t, start, Min(ends))
  BY DEF FirstBalanced
<1>2. PICK ends \in SUBSET {i \in DOMAIN t : i > start} :
        ends # {} /\ FirstBalanced(t, opening, closing) = SubSeq(t, start, Min(ends))
  BY <1>1
<1>3. start \in starts
  <2>1. starts \subseteq Nat
    BY SeqDomain
  <2> QED
    BY <1>1, <2>1, LeastOf
<1>4. Min(ends) \in ends
  <2>1. ends \subseteq DOMAIN t
    OBVIOUS
  <2>2. ends \subseteq Nat
    BY <2>1, SeqDomain
  <2> QED
    BY <1>2, <2>2, LeastOf
<1>5. start \in DOMAIN t /\ Min(ends) \in DOMAIN t /\ start <= Min(ends)
  <2>1. start \in DOMAIN t /\ Min(ends) \in DOMAIN t /\ Min(ends) > start
    BY <1>2, <1>3, <1>4
  <2>2. DOMAIN t \subseteq Nat
    OBVIOUS
  <2> HIDE DEF start
  <2> QED
    BY <2>1, <2>2
<1> QED
  BY <1>2, <1>5 DEF Piece

(* An object the parser has a use for is written in the answer as it is. *)
LEMMA UsableIsWritten ==
  ASSUME NEW S, NEW t \in Seq(S), parse_object(t).usable
  PROVE  HoldsObject(t)
<1> DEFINE content == Strip(t)
           tried == Candidates(content)
           good == {k \in DOMAIN tried : Structured(tried[k][2])}
           best == tried[Min(good)]
           value == best[2]
<1>1. /\ ~Blank(t) /\ good # {}
      /\ Type(value) = "dict"
  <2> DEFINE parsed == Recovered(Blank(t), tried, good)
  <2>1. parse_production_json(t) = parsed
    BY DEF parse_production_json
  <2>2. parsed.success /\ parsed.type = "dict"
    <3> HIDE DEF parsed
    <3> QED
      BY <2>1 DEF parse_object, Consumed
  <2> HIDE DEF tried, good
  <2> QED
    BY <2>2 DEF Recovered
<1>2. content # <<>> /\ Piece(t, content) /\ content \in Seq(S)
  BY <1>1, StripIsPiece, PieceIsSeq DEF Blank
<1>3. Min(good) \in good /\ Min(good) \in {1, 2, 3, 4}
  <2>1. DOMAIN tried = 1 .. 4
    BY DEF Candidates
  <2>2. good \subseteq Nat /\ good \subseteq {1, 2, 3, 4}
    BY <2>1
  <2> HIDE DEF good
  <2> QED
    BY <1>1, <2>2, LeastOf
<1>4. Structured(value)
  BY <1>3
<1>5. value \in {content, FirstFence(content), FirstBalanced(content, "{", "}"),
                 FirstBalanced(content, "[", "]")}
  <2>1. /\ tried[1][2] = content /\ tried[2][2] = FirstFence(content)
        /\ tried[3][2] = FirstBalanced(content, "{", "}")
        /\ tried[4][2] = FirstBalanced(content, "[", "]")
    BY DEF Candidates
  <2> HIDE DEF good, tried
  <2> QED
    BY <1>3, <2>1
<1> HIDE DEF value, content
<1>6. Piece(content, value)
  <2>1. CASE value = content
    <3>1. 1 \in DOMAIN content /\ Len(content) \in DOMAIN content /\ 1 <= Len(content)
          /\ content = SubSeq(content, 1, Len(content))
      BY <1>2
    <3> QED
      BY <2>1, <3>1 DEF Piece
  <2>2. CASE value = FirstFence(content)
    BY <1>2, <1>4, <2>2, FenceIsPiece
  <2>3. ASSUME NEW opening, NEW closing, value = FirstBalanced(content, opening, closing)
        PROVE  Piece(content, value)
    BY <1>2, <1>4, <2>3, BlockIsPiece, StructuredIsSolid
  <2> QED
    BY <1>5, <2>1, <2>2, <2>3
<1>7. Piece(t, value) /\ ProductionDecode(value) = "dict"
  BY <1>1, <1>2, <1>4, <1>6, PieceOfPiece, StructuredIsSolid
<1> QED
  BY <1>7 DEF HoldsObject, Piece

-----------------------------------------------------------------------------
(* Which critical checks there are, and when the automatic ones pass.      *)

LEMMA PartOf ==
  ASSUME NEW parts, NEW id \in DOMAIN AllOf(parts)
  PROVE  \E part \in parts : id \in DOMAIN part /\ AllOf(parts)[id] = part[id]
<1> DEFINE part == CHOOSE c \in parts : id \in DOMAIN c
<1>1. part \in parts /\ id \in DOMAIN part /\ AllOf(parts)[id] = part[id]
  BY DEF AllOf
<1> QED
  BY <1>1

LEMMA PartIs ==
  ASSUME NEW parts, NEW part \in parts, NEW id \in DOMAIN part,
         \A other \in parts : id \in DOMAIN other => other[id] = part[id]
  PROVE  id \in DOMAIN AllOf(parts) /\ AllOf(parts)[id] = part[id]
<1>1. id \in DOMAIN AllOf(parts)
  BY DEF AllOf
<1> QED
  BY <1>1, PartOf

LEMMA EachOf ==
  ASSUME NEW name, NEW over, NEW c
  PROVE  /\ \A id \in DOMAIN Each(name, over, c) :
              id[1] = name /\ id[2] \in over /\ Each(name, over, c)[id] = c
         /\ \A x \in over : <<name, x>> \in DOMAIN Each(name, over, c)
                            /\ Each(name, over, c)[<<name, x>>] = c
  BY DEF Each

LEMMA ContractOf ==
  ASSUME NEW case, NEW c
  PROVE  \A id \in DOMAIN Contract(case, c) :
           /\ id[1] = "critical" /\ id[2] = "1"
           /\ Contract(case, c)[id] = Critical(c, TRUE)
<1> DEFINE over == IF case.contract THEN {"1"} ELSE {}
           flagged == Critical(c, TRUE)
<1>1. Contract(case, c) = Each("critical", over, flagged)
  BY DEF Contract
<1>2. \A x \in over : x = "1"
  OBVIOUS
<1> HIDE DEF over, flagged
<1>3. \A id \in DOMAIN Each("critical", over, flagged) :
        id[1] = "critical" /\ id[2] \in over /\ Each("critical", over, flagged)[id] = flagged
  BY EachOf
<1> QED
  BY <1>1, <1>2, <1>3 DEF flagged

LEMMA FieldsOfChecks ==
  /\ \A status : LET c == Check("automatic", status)
                 IN c.method = "automatic" /\ c.status = status /\ ~c.critical
  /\ Human.method = "human" /\ Human.status = "pending" /\ ~Human.critical /\ ~Human.control
  /\ \A c, flag : IsCheck(c) =>
       LET d == Critical(c, flag)
       IN d.critical = flag /\ d.status = c.status /\ d.method = c.method
          /\ d.control = c.control
<1>1. ASSUME NEW c, NEW flag, IsCheck(c)
      PROVE  LET d == Critical(c, flag)
             IN d.critical = flag /\ d.status = c.status /\ d.method = c.method
                /\ d.control = c.control
  <2>1. Critical(c, flag) = [method |-> c.method, status |-> c.status,
                             critical |-> flag, control |-> c.control]
    BY <1>1 DEF IsCheck, Critical
  <2> QED
    BY <2>1
<1> QED
  BY <1>1 DEF Check, Human

LEMMA ExtractionEarned ==
  ASSUME NEW case, NEW parsed, NEW says,
         NEW k \in DOMAIN ExtractionChecks(case, parsed, says),
         ExtractionChecks(case, parsed, says)[k].critical
  PROVE  /\ ExtractionChecks(case, parsed, says)[k].method = "automatic"
         /\ ExtractionChecks(case, parsed, says)[k].status = "pass" => parsed.usable
<1> DEFINE output == Members(parsed, says)
           given(f) == f \in DOMAIN output
           correct(f) ==
             parsed.usable /\ IF f = "name" THEN given(f) /\ output[f] = "right"
                              ELSE ~given(f) \/ output[f] = "null"
           stale(f) == given(f) /\ ~correct(f) /\ output[f] = "old"
           exact == (\A f \in Fields : correct(f)) /\ DOMAIN output \subseteq Fields
           check(kind, f) ==
             CASE kind = "present" -> Automatic(given(f))
               [] kind = "correct" -> Automatic(correct(f))
               [] kind = "not_stale" -> Automatic(~stale(f))
               [] OTHER -> IF given(f) /\ f = "name" THEN Automatic(output[f] # "mistyped")
                           ELSE Check("automatic", "not_applicable")
           fields == [id \in {"present", "correct", "not_stale", "type"} \X Fields |->
                        check(id[1], id[2])]
           contract == Contract(case, Automatic(exact))
           checks == AllOf({fields, contract})
<1>1. ExtractionChecks(case, parsed, says) = checks
  BY DEF ExtractionChecks
<1>2. ASSUME NEW id \in DOMAIN fields PROVE ~fields[id].critical
  <2>1. \E status : fields[id] = Check("automatic", status)
    <3>1. fields[id] = check(id[1], id[2])
      OBVIOUS
    <3>2. ASSUME NEW kind, NEW f PROVE \E status : check(kind, f) = Check("automatic", status)
      BY DEF Automatic
    <3> HIDE DEF check
    <3> QED
      BY <3>1, <3>2
  <2> HIDE DEF fields
  <2> QED
    BY <2>1, FieldsOfChecks
<1>3. \A id \in DOMAIN contract : contract[id] = Critical(Automatic(exact), TRUE)
  <2> DEFINE sure == Automatic(exact)
  <2> HIDE DEF sure
  <2>1. \A id \in DOMAIN Contract(case, sure) :
          Contract(case, sure)[id] = Critical(sure, TRUE)
    BY ContractOf
  <2> QED
    BY <2>1 DEF sure
<1>4. Critical(Automatic(exact), TRUE).method = "automatic"
      /\ (Critical(Automatic(exact), TRUE).status = "pass" => exact)
  <2>1. /\ Critical(Automatic(exact), TRUE).status = Automatic(exact).status
        /\ Critical(Automatic(exact), TRUE).method = Automatic(exact).method
    <3>1. IsCheck(Automatic(exact))
      BY MakeCheck DEF Automatic
    <3> HIDE DEF exact
    <3> QED
      BY <3>1, FieldsOfChecks
  <2>2. /\ Automatic(exact).method = "automatic"
        /\ Automatic(exact).status = "pass" => exact
    BY DEF Automatic, Check
  <2> QED
    BY <2>1, <2>2
<1>5. exact => parsed.usable
  BY DEF Fields
<1>6. PICK part \in {fields, contract} : k \in DOMAIN part /\ checks[k] = part[k]
  <2>1. k \in DOMAIN AllOf({fields, contract})
    BY <1>1
  <2> HIDE DEF fields, contract
  <2> QED
    BY <2>1, PartOf
<1> HIDE DEF fields, contract, checks, exact
<1> QED
  BY <1>1, <1>2, <1>3, <1>4, <1>5, <1>6

LEMMA VoicemailEarned ==
  ASSUME NEW case, NEW parsed,
         NEW k \in DOMAIN VoicemailChecks(case, parsed),
         VoicemailChecks(case, parsed)[k].critical
  PROVE  /\ case.label # "none" /\ VoicemailChecks(case, parsed)[k].method = "automatic"
         /\ VoicemailChecks(case, parsed)[k].status = "pass" => parsed.value = case.label
<1> DEFINE verdict == Automatic(parsed.value = case.label)
           class == Each("classification", {"1"}, verdict)
           contract == Contract(case, verdict)
<1>1. VoicemailChecks(case, parsed) =
        IF case.label = "none" THEN Each("unlabelled_inspection", {"1"}, Human)
        ELSE AllOf({class, contract})
  BY DEF VoicemailChecks
<1>2. IsCheck(verdict) /\ ~verdict.critical /\ verdict.method = "automatic"
      /\ (verdict.status = "pass" => parsed.value = case.label)
  BY MakeCheck DEF Automatic, Check
<1>3. case.label # "none"
  <2>1. \A id \in DOMAIN Each("unlabelled_inspection", {"1"}, Human) :
          ~Each("unlabelled_inspection", {"1"}, Human)[id].critical
    BY EachOf, FieldsOfChecks
  <2> HIDE DEF class, contract
  <2> QED
    BY <1>1, <2>1
<1> HIDE DEF verdict
<1>4. /\ \A id \in DOMAIN class : class[id] = verdict
      /\ \A id \in DOMAIN contract : contract[id] = Critical(verdict, TRUE)
  <2>1. \A id \in DOMAIN class : class[id] = verdict
    BY EachOf
  <2>2. \A id \in DOMAIN contract : contract[id] = Critical(verdict, TRUE)
    BY ContractOf
  <2> QED
    BY <2>1, <2>2
<1>5. /\ Critical(verdict, TRUE).status = verdict.status
      /\ Critical(verdict, TRUE).method = verdict.method
  BY <1>2, FieldsOfChecks
<1> HIDE DEF class, contract
<1>6. PICK part \in {class, contract} :
        k \in DOMAIN part /\ AllOf({class, contract})[k] = part[k]
  BY <1>1, <1>3, PartOf
<1> QED
  BY <1>1, <1>2, <1>3, <1>4, <1>5, <1>6

LEMMA FactNames ==
  ASSUME NEW case, NEW id \in DOMAIN FactChecks(case)
  PROVE  id[1] \in {"required_fact", "unsupported_claims", "contradictions", "critical"}
         /\ (id[1] = "critical" => id[2] = "1")
<1> DEFINE fact == Each("required_fact", {"1"}, Critical(Human, TRUE))
           claims == Each("unsupported_claims", {"1"}, Human)
           contradictions == Each("contradictions", {"1"}, Human)
           contract == Contract(case, Human)
<1>1. FactChecks(case) = AllOf({fact, claims, contradictions, contract})
  BY DEF FactChecks
<1>2. /\ \A i \in DOMAIN fact : i[1] = "required_fact"
      /\ \A i \in DOMAIN claims : i[1] = "unsupported_claims"
      /\ \A i \in DOMAIN contradictions : i[1] = "contradictions"
      /\ \A i \in DOMAIN contract : i[1] = "critical" /\ i[2] = "1"
  <2>1. \A c : \A i \in DOMAIN Each("required_fact", {"1"}, c) : i[1] = "required_fact"
    BY EachOf
  <2>2. \A i \in DOMAIN claims : i[1] = "unsupported_claims"
    BY EachOf
  <2>3. \A i \in DOMAIN contradictions : i[1] = "contradictions"
    BY EachOf
  <2>4. \A i \in DOMAIN contract : i[1] = "critical" /\ i[2] = "1"
    BY ContractOf
  <2> QED
    BY <2>1, <2>2, <2>3, <2>4
<1> HIDE DEF fact, claims, contradictions, contract
<1>3. \E part \in {fact, claims, contradictions, contract} : id \in DOMAIN part
  BY <1>1, PartOf
<1> QED
  BY <1>2, <1>3

LEMMA SummaryEarned ==
  ASSUME NEW case, NEW parsed
  PROVE  LET checks == SummaryChecks(case, parsed)
             k == <<"nonblank", "1">>
         IN /\ k \in DOMAIN checks /\ checks[k].method = "automatic"
            /\ checks[k].critical = case.critical
            /\ checks[k].status = "pass" => parsed.usable
<1> DEFINE text == Automatic(parsed.usable)
           nonblank == Each("nonblank", {"1"}, Critical(text, case.critical))
           facts == FactChecks(case)
           sentences == IF case.task = "context_summary" THEN <<>>
                        ELSE Each("sentence_compliance", {"1"}, Human)
           k == <<"nonblank", "1">>
<1>1. SummaryChecks(case, parsed) = AllOf({nonblank, facts, sentences})
  BY DEF SummaryChecks
<1>2. IsCheck(text) /\ text.method = "automatic"
      /\ (text.status = "pass" => parsed.usable)
  BY MakeCheck DEF Automatic, Check
<1> HIDE DEF text
<1>3. k \in DOMAIN nonblank /\ nonblank[k] = Critical(text, case.critical)
  BY EachOf
<1>4. k \notin DOMAIN facts
  BY FactNames
<1>5. k \notin DOMAIN sentences
  BY EachOf
<1> HIDE DEF nonblank, facts, sentences, k
<1>6. k \in DOMAIN AllOf({nonblank, facts, sentences})
      /\ AllOf({nonblank, facts, sentences})[k] = Critical(text, case.critical)
  BY <1>3, <1>4, <1>5, PartIs
<1> QED
  BY <1>1, <1>2, <1>6, FieldsOfChecks DEF k

(* The checks of an answer other than of its structure have other names,   *)
(* and there is one check of the contract.                                 *)
Elsewhere(part) ==
  \A id \in DOMAIN part : id[1] # "qa_structure" /\ (id[1] = "critical" => id[2] = "1")

LEMMA EachElsewhere ==
  ASSUME NEW name, name \notin {"qa_structure", "critical"}, NEW over, NEW c
  PROVE  Elsewhere(Each(name, over, c))
  BY EachOf DEF Elsewhere

LEMMA QAEarned ==
  ASSUME NEW case, NEW parsed, NEW says
  PROVE  LET checks == QAChecks(case, parsed, says)
             k == <<"qa_structure", "1">>
         IN /\ k \in DOMAIN checks /\ checks[k].method = "automatic"
            /\ checks[k].critical = case.critical
            /\ checks[k].status = "pass" => parsed.usable
            /\ <<"critical", "matrix-critical">> \notin DOMAIN checks
<1> DEFINE output == QAOutput(parsed, says)
           tags == TagsOf(output["tags"])
           when(flag, checks) == IF flag THEN checks ELSE <<>>
           one(name, check) == Each(name, {"1"}, check)
           known(f) == output[f] \notin {"absent", "invalid"}
           match(f) == Automatic(output[f] = "match")
           structure == Automatic(StructureValid(parsed, output))
           valid == Critical(structure, case.critical)
           present == Critical(Automatic("E" \in tags), case.critical)
           absent == Critical(Automatic("F" \notin tags), case.critical)
           p1 == StructureChecks(output)
           p2 == one("qa_structure", valid)
           p3 == when(TagsOK(output), one("expected_tags_present", present))
           p4 == when(TagsOK(output), one("forbidden_tags_absent", absent))
           p5 == Each("tag_grounding", tags, Human)
           p6 == Each("unannotated", tags \cap {"U"}, Human)
           p7 == when(known("overall_sentiment"),
                      one("sentiment_match", match("overall_sentiment")))
           p8 == when(known("call_quality_score"),
                      one("score_in_range", match("call_quality_score")))
           p9 == FactChecks(case)
           p10 == when(known("summary"), one("sentence_compliance", Human))
           parts == {p1, p2, p3, p4, p5, p6, p7, p8, p9, p10}
           k == <<"qa_structure", "1">>
<1>1. QAChecks(case, parsed, says) = AllOf(parts)
  BY DEF QAChecks
<1>2. IsCheck(structure) /\ structure.method = "automatic"
      /\ (structure.status = "pass" => parsed.usable)
  BY MakeCheck DEF Automatic, Check, StructureValid
<1>3. Elsewhere(p1)
  <2>1. \A id \in DOMAIN p1 : id[1] = "structure"
    BY DEF StructureChecks
  <2> HIDE DEF p1
  <2> QED
    BY <2>1 DEF Elsewhere
<1>4. Elsewhere(p9)
  BY FactNames DEF Elsewhere
<1> HIDE DEF structure, match, tags, output
<1>5. /\ k \in DOMAIN p2 /\ p2[k] = valid
      /\ \A id \in DOMAIN p2 : id[1] = "qa_structure"
  BY EachOf
<1>6. Elsewhere(<<>>)
  BY DEF Elsewhere
<1> HIDE DEF present, absent
<1>7. Elsewhere(p3) /\ Elsewhere(p4)
  BY <1>6, EachElsewhere
<1>8. Elsewhere(p5) /\ Elsewhere(p6)
  BY EachElsewhere
<1>9. Elsewhere(p7) /\ Elsewhere(p8) /\ Elsewhere(p10)
  BY <1>6, EachElsewhere
<1> HIDE DEF p1, p2, p3, p4, p5, p6, p7, p8, p9, p10, valid
<1>10. \A part \in parts : part = p2 \/ Elsewhere(part)
  BY <1>3, <1>4, <1>7, <1>8, <1>9
<1>11. p2 \in parts
  OBVIOUS
<1> HIDE DEF parts
<1>12. \A part \in parts : k \in DOMAIN part => part[k] = p2[k]
  BY <1>10 DEF Elsewhere
<1>13. k \in DOMAIN AllOf(parts) /\ AllOf(parts)[k] = valid
  BY <1>5, <1>11, <1>12, PartIs
<1>14. <<"critical", "matrix-critical">> \notin DOMAIN AllOf(parts)
  BY <1>5, <1>10, PartOf DEF Elsewhere
<1>15. valid.method = "automatic" /\ valid.critical = case.critical
       /\ valid.status = structure.status
  BY <1>2, FieldsOfChecks DEF valid
<1> QED
  BY <1>1, <1>2, <1>13, <1>14, <1>15

LEMMA QuestionIsNew ==
  ASSUME NEW case, NEW parsed, NEW says
  PROVE  <<"critical", "matrix-critical">> \notin DOMAIN Checks(case, parsed, says)
<1> DEFINE k == <<"critical", "matrix-critical">>
<1>1. k \notin DOMAIN ExtractionChecks(case, parsed, says)
  <2>1. \E contract, fields :
          /\ ExtractionChecks(case, parsed, says) = AllOf({fields, contract})
          /\ \A id \in DOMAIN fields : id[1] # "critical"
          /\ \A id \in DOMAIN contract : id[2] = "1"
    <3> DEFINE output == Members(parsed, says)
               given(f) == f \in DOMAIN output
               correct(f) ==
                 parsed.usable /\ IF f = "name" THEN given(f) /\ output[f] = "right"
                                  ELSE ~given(f) \/ output[f] = "null"
               stale(f) == given(f) /\ ~correct(f) /\ output[f] = "old"
               exact == (\A f \in Fields : correct(f)) /\ DOMAIN output \subseteq Fields
               check(kind, f) ==
                 CASE kind = "present" -> Automatic(given(f))
                   [] kind = "correct" -> Automatic(correct(f))
                   [] kind = "not_stale" -> Automatic(~stale(f))
                   [] OTHER -> IF given(f) /\ f = "name" THEN Automatic(output[f] # "mistyped")
                               ELSE Check("automatic", "not_applicable")
               fields == [id \in {"present", "correct", "not_stale", "type"} \X Fields |->
                            check(id[1], id[2])]
               sure == Automatic(exact)
               contract == Contract(case, sure)
    <3>1. ExtractionChecks(case, parsed, says) = AllOf({fields, contract})
      BY DEF ExtractionChecks
    <3>2. \A id \in DOMAIN fields : id[1] # "critical"
      <4> HIDE DEF check
      <4> QED
        OBVIOUS
    <3>3. \A id \in DOMAIN contract : id[2] = "1"
      <4> HIDE DEF sure
      <4> QED
        BY ContractOf
    <3> HIDE DEF fields, contract
    <3> QED
      BY <3>1, <3>2, <3>3
  <2> QED
    BY <2>1, PartOf
<1>2. k \notin DOMAIN VoicemailChecks(case, parsed)
  <2> DEFINE verdict == Automatic(parsed.value = case.label)
             class == Each("classification", {"1"}, verdict)
             contract == Contract(case, verdict)
             inspection == Each("unlabelled_inspection", {"1"}, Human)
  <2>1. VoicemailChecks(case, parsed) =
          IF case.label = "none" THEN inspection ELSE AllOf({class, contract})
    BY DEF VoicemailChecks
  <2> HIDE DEF verdict
  <2>2. k \notin DOMAIN class /\ k \notin DOMAIN inspection
    BY EachOf
  <2>3. k \notin DOMAIN contract
    BY ContractOf
  <2> HIDE DEF class, contract, inspection, k
  <2> QED
    BY <2>1, <2>2, <2>3, PartOf
<1>3. k \notin DOMAIN SummaryChecks(case, parsed)
  <2> DEFINE text == Automatic(parsed.usable)
             nonblank == Each("nonblank", {"1"}, Critical(text, case.critical))
             facts == FactChecks(case)
             sentences == IF case.task = "context_summary" THEN <<>>
                          ELSE Each("sentence_compliance", {"1"}, Human)
  <2>1. SummaryChecks(case, parsed) = AllOf({nonblank, facts, sentences})
    BY DEF SummaryChecks
  <2> HIDE DEF text
  <2>2. k \notin DOMAIN nonblank
    BY EachOf
  <2>3. k \notin DOMAIN facts
    BY FactNames
  <2>4. k \notin DOMAIN sentences
    BY EachOf
  <2> HIDE DEF nonblank, facts, sentences, k
  <2> QED
    BY <2>1, <2>2, <2>3, <2>4, PartOf
<1>4. k \notin DOMAIN QAChecks(case, parsed, says)
  BY QAEarned
<1> HIDE DEF k
<1>5. k \notin DOMAIN Checks(case, parsed, says)
  BY <1>1, <1>2, <1>3, <1>4 DEF Checks
<1> QED
  BY <1>5 DEF k

(* Of a critical model case's critical checks, if it has any, there is one *)
(* that no reviewer decides and that passes only on an answer of use.      *)
LEMMA ModelEarned ==
  ASSUME NEW entry, entry.attempt.text \in Seq(STRING), entry.case.critical,
         NEW k,
         k \in DOMAIN ModelChecks(entry.case, entry.attempt,
                                  Parse(entry.case.task, Raw(entry.attempt))),
         ModelChecks(entry.case, entry.attempt,
                     Parse(entry.case.task, Raw(entry.attempt)))[k].critical
  PROVE  LET checks == ModelChecks(entry.case, entry.attempt,
                                   Parse(entry.case.task, Raw(entry.attempt)))
         IN \E l \in DOMAIN checks :
              /\ checks[l].critical /\ checks[l].method = "automatic"
              /\ checks[l].status = "pass" => Answered(entry.attempt) /\ HoldsAnswer(entry)
<1> DEFINE case == entry.case
           attempt == entry.attempt
           t == Raw(attempt)
           parsed == Parse(case.task, t)
           says == attempt.says
           checks == ModelChecks(case, attempt, parsed)
           structure == StructureChecks(QAOutput(parsed, says))
<1>1. Answered(attempt) /\ (checks = Checks(case, parsed, says) \/ checks = structure)
  BY DEF ModelChecks
<1>2. checks = Checks(case, parsed, says)
  <2>1. \A id \in DOMAIN structure : ~structure[id].critical
    <3> DEFINE output == QAOutput(parsed, says)
    <3>1. \A id \in DOMAIN structure :
            structure[id] = Automatic(output[id[2]] # "absent")
      BY DEF StructureChecks
    <3>2. \A ok : ~Automatic(ok).critical
      BY FieldsOfChecks DEF Automatic
    <3> HIDE DEF structure, output
    <3> QED
      BY <3>1, <3>2
  <2> HIDE DEF structure, checks, parsed
  <2>2. k \in DOMAIN checks /\ checks[k].critical
    BY DEF checks, parsed
  <2> QED
    BY <1>1, <2>1, <2>2
<1>3. \E S : t \in Seq(S)
  <2>1. NoAnswer \in Seq({"None"})
    BY DEF NoAnswer
  <2> QED
    BY <2>1 DEF Raw
<1>4. case.task \in {"extraction", "qa"} /\ parsed.usable => HoldsAnswer(entry)
  <2>1. case.task \in {"extraction", "qa"} => parsed = parse_object(t)
    BY DEF Parse
  <2> HIDE DEF parsed
  <2>2. ASSUME case.task \in {"extraction", "qa"}, parsed.usable PROVE HoldsObject(t)
    BY <1>3, <2>1, <2>2, UsableIsWritten
  <2> QED
    BY <2>2 DEF HoldsAnswer
<1>5. k \in DOMAIN checks /\ checks[k].critical
  OBVIOUS
<1>6. CASE case.task = "extraction"
  <2>1. checks = ExtractionChecks(case, parsed, says)
    BY <1>2, <1>6 DEF Checks
  <2> HIDE DEF checks, parsed
  <2> QED
    BY <1>1, <1>4, <1>5, <1>6, <2>1, ExtractionEarned DEF checks, parsed
<1>7. CASE case.task = "qa"
  <2>1. checks = QAChecks(case, parsed, says)
    BY <1>2, <1>7 DEF Checks
  <2> HIDE DEF checks, parsed
  <2>2. PICK l \in DOMAIN checks : /\ checks[l].critical = case.critical
                                   /\ checks[l].method = "automatic"
                                   /\ checks[l].status = "pass" => parsed.usable
    BY <2>1, QAEarned
  <2>3. checks[l].critical
    BY <2>2
  <2> QED
    BY <1>1, <1>4, <1>7, <2>2, <2>3 DEF checks, parsed
<1>8. CASE case.task = "voicemail"
  <2>1. checks = VoicemailChecks(case, parsed)
    BY <1>2, <1>8 DEF Checks
  <2>2. parsed = parse_voicemail(t)
    BY <1>8 DEF Parse
  <2>3. parsed.value # "none" => HoldsAnswer(entry)
    <3>1. parsed.value = parse_voicemail(t).value
      BY <2>2
    <3>2. parse_voicemail(t).value # "none" =>
            Range(Upper(t)) \cap {"CONVERSATION", "VOICEMAIL"} # {}
      BY DEF parse_voicemail
    <3> HIDE DEF parsed
    <3> QED
      BY <1>8, <3>1, <3>2 DEF HoldsAnswer
  <2> HIDE DEF checks, parsed
  <2> QED
    BY <1>1, <1>5, <2>1, <2>3, VoicemailEarned DEF checks, parsed
<1>9. CASE case.task \notin {"extraction", "qa", "voicemail"}
  <2>1. checks = SummaryChecks(case, parsed) /\ parsed = parse_summary(t)
    BY <1>2, <1>9 DEF Checks, Parse
  <2>2. parsed.usable => HoldsAnswer(entry)
    <3>1. ~Blank(t) => HoldsAnswer(entry)
      BY <1>9 DEF HoldsAnswer
    <3> DEFINE blank == Blank(t)
    <3>2. parsed = [path |-> IF blank THEN "empty" ELSE "text",
                    usable |-> ~blank, value |-> t, strict |-> ~blank]
      BY <2>1 DEF parse_summary
    <3> HIDE DEF parsed, blank
    <3>3. parsed.usable => ~blank
      BY <3>2
    <3> QED
      BY <3>1, <3>3 DEF blank
  <2> HIDE DEF checks, parsed
  <2>3. PICK l \in DOMAIN checks : /\ checks[l].critical = case.critical
                                   /\ checks[l].method = "automatic"
                                   /\ checks[l].status = "pass" => parsed.usable
    BY <2>1, SummaryEarned
  <2>4. checks[l].critical
    BY <2>3
  <2> QED
    BY <1>1, <2>2, <2>3, <2>4 DEF checks, parsed
<1> QED
  BY <1>6, <1>7, <1>8, <1>9

(* A roll-up passes when all it is over pass, and there is something.      *)
LEMMA PassMeans ==
  ASSUME NEW row
  PROVE  /\ critical_status(row) = "pass" =>
              /\ row.case.critical
              /\ \E k \in DOMAIN row.checks : row.checks[k].critical
              /\ \A k \in DOMAIN row.checks :
                   row.checks[k].critical => row.checks[k].status = "pass"
         /\ control_status(row) = "pass" =>
              \A k \in DOMAIN row.checks :
                row.checks[k].method = "human" => row.checks[k].status = "pass"
<1>1. \A statuses : Rollup(statuses) = "pass" => statuses = {"pass"}
  BY DEF Rollup
<1>2. ASSUME critical_status(row) = "pass"
      PROVE  /\ row.case.critical
             /\ \E k \in DOMAIN row.checks : row.checks[k].critical
             /\ \A k \in DOMAIN row.checks :
                  row.checks[k].critical => row.checks[k].status = "pass"
  <2> DEFINE statuses == {row.checks[k].status :
                            k \in {l \in DOMAIN row.checks : row.checks[l].critical}}
  <2>1. row.case.critical /\ Rollup(statuses) = "pass"
    BY <1>2 DEF critical_status, Statuses
  <2>2. statuses = {"pass"}
    BY <1>1, <2>1
  <2> QED
    BY <2>1, <2>2
<1>3. ASSUME control_status(row) = "pass",
             NEW k \in DOMAIN row.checks, row.checks[k].method = "human"
      PROVE  row.checks[k].status = "pass"
  <2> DEFINE statuses == {row.checks[m].status :
               m \in {l \in DOMAIN row.checks :
                        row.checks[l].control \/ row.checks[l].method = "human"}}
  <2>1. Rollup(statuses) = "pass"
    BY <1>3 DEF control_status, Statuses
  <2>2. statuses = {"pass"}
    BY <1>1, <2>1
  <2>3. row.checks[k].status \in statuses
    BY <1>3
  <2> QED
    BY <2>2, <2>3
<1> QED
  BY <1>2, <1>3

(* QA-026's control has a question for a reviewer.                         *)
LEMMA QuestionIsOpen ==
  ASSUME NEW entry, NEW fingerprint, entry.case.exercise = "QA-026"
  PROVE  LET checks == Evaluation(entry, fingerprint).checks
             k == <<"critical", "matrix-critical">>
         IN k \in DOMAIN checks /\ checks[k].method = "human" /\ checks[k].status = "pending"
<1> DEFINE case == entry.case
           parsed == Parse(case.task, Raw(entry.attempt))
           scored == Checks(case, parsed, entry.attempt.says)
           valid == StructureValid(parsed, QAOutput(parsed, entry.attempt.says))
           kept == [id \in {i \in DOMAIN scored : scored[i].method = "automatic"} |->
                      Critical(scored[id], FALSE)]
           asked == Critical(Human, TRUE)
           question == Each("critical", {"matrix-critical"}, asked)
           control == Each("control", {"negative_stimulus"},
                           Control(Automatic(valid /\ Stimulus(scored))))
           k == <<"critical", "matrix-critical">>
<1>1. Evaluation(entry, fingerprint).checks = AllOf({kept, question, control})
  BY DEF Evaluation, Measured, IsControl, ControlChecks, NegativeChecks
<1>2. k \notin DOMAIN kept
  <2>1. k \notin DOMAIN scored
    BY QuestionIsNew
  <2> HIDE DEF scored
  <2> QED
    BY <2>1
<1>3. asked.method = "human" /\ asked.status = "pending"
  BY MakeCheck, FieldsOfChecks
<1> HIDE DEF asked
<1>4. k \in DOMAIN question /\ question[k] = asked
  BY EachOf
<1>5. k \notin DOMAIN control
  BY EachOf
<1> HIDE DEF kept, question, control, k
<1>6. k \in DOMAIN AllOf({kept, question, control})
      /\ AllOf({kept, question, control})[k] = asked
  BY <1>2, <1>4, <1>5, PartIs
<1> QED
  BY <1>1, <1>3, <1>6 DEF k

(* A view of a row: the critical and the automatic checks are the row's.   *)
LEMMA ViewChecks ==
  ASSUME ReviewInv, NEW n \in DOMAIN view
  PROVE  /\ DOMAIN view[n].checks = DOMAIN rows[n].checks
         /\ \A k \in DOMAIN rows[n].checks :
              /\ view[n].checks[k].critical = rows[n].checks[k].critical
              /\ view[n].checks[k].method = rows[n].checks[k].method
              /\ rows[n].checks[k].method = "automatic" =>
                   view[n].checks[k] = rows[n].checks[k]
<1>1. PICK fingerprint \in Evaluators : rows[n] = Evaluation(batch[n], fingerprint)
  BY ViewOfBatch
<1>2. AreChecks(rows[n].checks)
  BY <1>1, RowFields
<1>3. SameRow(n) /\ n \in DOMAIN rows
  BY ViewOfBatch DEF ReviewInv, ViewInv
<1>4. ASSUME NEW k \in DOMAIN rows[n].checks
      PROVE  /\ view[n].checks[k].critical = rows[n].checks[k].critical
             /\ view[n].checks[k].method = rows[n].checks[k].method
             /\ rows[n].checks[k].method = "automatic" =>
                  view[n].checks[k] = rows[n].checks[k]
  <2> DEFINE c == rows[n].checks[k]
             v == view[n].checks[k]
  <2>1. v = c \/ (v = [c EXCEPT !.status = v.status] /\ c.method = "human")
    BY <1>3 DEF ReviewInv, ViewInv, Verdict
  <2>2. c = [method |-> c.method, status |-> c.status,
             critical |-> c.critical, control |-> c.control]
    BY <1>2 DEF AreChecks, IsCheck
  <2> HIDE DEF c, v
  <2>3. v = c \/ (v = [method |-> c.method, status |-> v.status, critical |-> c.critical,
                       control |-> c.control] /\ c.method = "human")
    BY <2>1, <2>2
  <2>4. v.critical = c.critical /\ v.method = c.method /\ (c.method = "automatic" => v = c)
    BY <2>3
  <2> QED
    BY <2>4 DEF c, v
<1> QED
  BY <1>3, <1>4 DEF SameRow

(* A critical model case whose answer holds nothing of use never passes,   *)
(* whatever reviewers decide, and QA-026's control passes only by one of   *)
(* them: PassIsEarned, of evaluate_model_output and evaluate_control_case. *)
THEOREM PassAlwaysEarned == ReviewSpec => []PassIsEarned
<1>1. ReviewInv => PassIsEarned
  <2> SUFFICES ASSUME ReviewInv, NEW n \in DOMAIN view
               PROVE  /\ ~IsControl(view[n].case) /\ critical_status(view[n]) = "pass" =>
                           Answered(batch[n].attempt) /\ HoldsAnswer(batch[n])
                      /\ view[n].case.exercise = "QA-026" /\ control_status(view[n]) = "pass" =>
                           \E d \in desk : /\ d.check[1] = "critical" /\ d.status = "pass"
                                           /\ d.about = rows[n].basis
    BY DEF PassIsEarned
  <2>1. /\ n \in DOMAIN rows /\ n \in DOMAIN batch /\ view[n].case = batch[n].case
        /\ batch[n].attempt.text \in Seq(STRING)
    BY ViewOfBatch, Entries DEF ReviewInv
  <2>2. PICK fingerprint \in Evaluators : rows[n] = Evaluation(batch[n], fingerprint)
    BY ViewOfBatch
  <2>3. ASSUME ~IsControl(view[n].case), critical_status(view[n]) = "pass"
        PROVE  Answered(batch[n].attempt) /\ HoldsAnswer(batch[n])
    <3> DEFINE entry == batch[n]
               checks == ModelChecks(entry.case, entry.attempt,
                                     Parse(entry.case.task, Raw(entry.attempt)))
    <3>1. rows[n].checks = checks
      BY <2>1, <2>2, <2>3 DEF Evaluation, Measured
    <3>2. PICK k \in DOMAIN view[n].checks : view[n].checks[k].critical
      BY <2>3, PassMeans
    <3>3. entry.case.critical
      BY <2>1, <2>3, PassMeans
    <3>4. k \in DOMAIN checks /\ checks[k].critical
      BY <3>1, <3>2, ViewChecks
    <3>5. PICK l \in DOMAIN checks :
            /\ checks[l].critical /\ checks[l].method = "automatic"
            /\ checks[l].status = "pass" => Answered(entry.attempt) /\ HoldsAnswer(entry)
      BY <2>1, <3>3, <3>4, ModelEarned
    <3> HIDE DEF checks
    <3>6. l \in DOMAIN view[n].checks /\ view[n].checks[l] = checks[l]
      BY <3>1, <3>5, ViewChecks
    <3>7. checks[l].status = "pass"
      BY <2>3, <3>5, <3>6, PassMeans
    <3> QED
      BY <3>5, <3>7
  <2>4. ASSUME view[n].case.exercise = "QA-026", control_status(view[n]) = "pass"
        PROVE  \E d \in desk : /\ d.check[1] = "critical" /\ d.status = "pass"
                               /\ d.about = rows[n].basis
    <3> DEFINE k == <<"critical", "matrix-critical">>
    <3>1. /\ k \in DOMAIN rows[n].checks
          /\ rows[n].checks[k].method = "human" /\ rows[n].checks[k].status = "pending"
      BY <2>1, <2>2, <2>4, QuestionIsOpen
    <3>2. k \in DOMAIN view[n].checks /\ view[n].checks[k].method = "human"
      BY <3>1, ViewChecks
    <3>3. view[n].checks[k].status = "pass"
      BY <2>4, <3>2, PassMeans
    <3>4. Verdict(n, k)
      BY <2>1, <3>1, <3>3 DEF ReviewInv, ViewInv
    <3>5. k[1] = "critical"
      OBVIOUS
    <3> HIDE DEF k
    <3> QED
      BY <3>3, <3>4, <3>5 DEF Verdict
  <2> QED
    BY <2>3, <2>4
<1> QED
  BY <1>1, ReviewInvariant, PTL

-----------------------------------------------------------------------------
(* The runtime summary's cut.                                             *)

(* A conversation as the assumption has it, and the calls still open after *)
(* message i of a range.                                                   *)
Orderly(messages) ==
  /\ messages \in Seq(Range(messages))
  /\ \A i \in DOMAIN messages : messages[i].settles =>
       messages[i].role \in {"tool", "developer"} /\ messages[i].calls = {}
  /\ \A i, j \in DOMAIN messages :
       i # j => messages[i].calls \cap messages[j].calls = {}

Settles(m, c) == m.settles /\ m.id = c

OpenCalls(messages, start, i) ==
  {c \in UNION {messages[j].calls : j \in start .. i} :
     \A j \in start .. i : c \in messages[j].calls =>
       \A l \in j + 1 .. i : ~Settles(messages[l], c)}

Place(messages, c) == CHOOSE j \in DOMAIN messages : c \in messages[j].calls

OpenAfter(messages, start, i) ==
  [c \in OpenCalls(messages, start, i) |-> Place(messages, c)]

AfterMessage(before, messages, i) ==
  LET m == messages[i]
      made == [c \in DOMAIN before \cup m.calls |->
                 IF c \in m.calls THEN i ELSE before[c]]
  IN IF m.role \in {"tool", "developer"} /\ m.settles
     THEN Restrict(made, DOMAIN made \ {m.id}) ELSE made

(* The next message opens its calls or settles one.                        *)
LEMMA NextOpen ==
  ASSUME NEW messages, Orderly(messages), NEW start \in Nat, start >= 1,
         NEW i \in DOMAIN messages, i >= start
  PROVE  OpenAfter(messages, start, i) =
           AfterMessage(OpenAfter(messages, start, i - 1), messages, i)
<1> DEFINE m == messages[i]
           old == OpenCalls(messages, start, i - 1)
           new == OpenCalls(messages, start, i)
           before == OpenAfter(messages, start, i - 1)
           made == [c \in DOMAIN before \cup m.calls |->
                      IF c \in m.calls THEN i ELSE before[c]]
<1>1. /\ DOMAIN messages = 1 .. Len(messages) /\ Len(messages) \in Nat
      /\ i \in Nat /\ start .. i = (start .. i - 1) \cup {i}
      /\ start .. i \subseteq DOMAIN messages
  BY DEF Orderly
<1>2. \A c : \A j \in start .. i : c \in messages[j].calls /\ c \in m.calls => j = i
  BY <1>1 DEF Orderly
<1>3. \A c \in m.calls : Place(messages, c) = i
  BY <1>1 DEF Orderly, Place
<1>4. DOMAIN before = old /\ \A c \in old : before[c] = Place(messages, c)
  BY DEF OpenAfter
<1>5. \A c : c \in old => c \notin m.calls
  BY <1>1, <1>2 DEF OpenCalls
<1>6. made = [c \in old \cup m.calls |-> Place(messages, c)]
  <2> HIDE DEF m, old, before
  <2> QED
    BY <1>3, <1>4
<1>7. CASE m.settles
  <2>1. m.role \in {"tool", "developer"} /\ m.calls = {}
    BY <1>7 DEF Orderly
  <2>2. new = old \ {m.id}
    <3>1. ASSUME NEW c \in new PROVE c \in old /\ c # m.id
      <4>1. PICK j \in start .. i - 1 : c \in messages[j].calls
        BY <1>1, <2>1 DEF OpenCalls
      <4>2. \A l \in j + 1 .. i : ~Settles(messages[l], c)
        BY <1>1, <4>1 DEF OpenCalls
      <4>3. i \in j + 1 .. i
        BY <1>1, <4>1
      <4>4. c # m.id
        BY <1>7, <4>2, <4>3 DEF Settles
      <4>5. ASSUME NEW k \in start .. i - 1, c \in messages[k].calls, NEW l \in k + 1 .. i - 1
            PROVE  ~Settles(messages[l], c)
        <5>1. k \in start .. i /\ l \in k + 1 .. i
          BY <1>1
        <5> QED
          BY <4>5, <5>1 DEF OpenCalls
      <4> QED
        BY <4>1, <4>4, <4>5 DEF OpenCalls
    <3>2. ASSUME NEW c \in old, c # m.id PROVE c \in new
      <4>1. c \in UNION {messages[j].calls : j \in start .. i}
        BY <1>1 DEF OpenCalls
      <4>2. ASSUME NEW k \in start .. i, c \in messages[k].calls, NEW l \in k + 1 .. i
            PROVE  ~Settles(messages[l], c)
        <5>1. k \in start .. i - 1
          BY <1>1, <2>1, <4>2
        <5>2. CASE l = i
          BY <3>2, <5>2 DEF Settles
        <5>3. CASE l # i
          <6>1. l \in k + 1 .. i - 1
            BY <1>1, <5>1, <5>3
          <6> QED
            BY <4>2, <5>1, <6>1 DEF OpenCalls
        <5> QED
          BY <5>2, <5>3
      <4> QED
        BY <4>1, <4>2 DEF OpenCalls
    <3> QED
      BY <3>1, <3>2
  <2>3. OpenAfter(messages, start, i) = Restrict(made, DOMAIN made \ {m.id})
    <3> HIDE DEF m, old, new, made
    <3>1. made = [c \in old |-> Place(messages, c)]
      BY <1>6, <2>1
    <3>2. OpenAfter(messages, start, i) = [c \in new |-> Place(messages, c)]
      BY DEF OpenAfter, new
    <3> QED
      BY <2>2, <3>1, <3>2 DEF Restrict
  <2> QED
    BY <1>7, <2>1, <2>3 DEF AfterMessage
<1>8. CASE ~m.settles
  <2>1. \A c : ~Settles(m, c)
    BY <1>8 DEF Settles
  <2>2. new = old \cup m.calls
    <3>1. ASSUME NEW c \in new, c \notin m.calls PROVE c \in old
      <4>1. PICK j \in start .. i - 1 : c \in messages[j].calls
        BY <1>1, <3>1 DEF OpenCalls
      <4>2. ASSUME NEW k \in start .. i - 1, c \in messages[k].calls, NEW l \in k + 1 .. i - 1
            PROVE  ~Settles(messages[l], c)
        <5>1. k \in start .. i /\ l \in k + 1 .. i
          BY <1>1
        <5> QED
          BY <4>2, <5>1 DEF OpenCalls
      <4> QED
        BY <4>1, <4>2 DEF OpenCalls
    <3>2. ASSUME NEW c \in old PROVE c \in new
      <4>1. c \in UNION {messages[j].calls : j \in start .. i}
        BY <1>1 DEF OpenCalls
      <4>2. ASSUME NEW k \in start .. i, c \in messages[k].calls, NEW l \in k + 1 .. i
            PROVE  ~Settles(messages[l], c)
        <5>1. k \in start .. i - 1
          BY <1>1, <1>5, <4>2
        <5>2. CASE l = i
          BY <2>1, <5>2
        <5>3. CASE l # i
          <6>1. l \in k + 1 .. i - 1
            BY <1>1, <5>1, <5>3
          <6> QED
            BY <4>2, <5>1, <6>1 DEF OpenCalls
        <5> QED
          BY <5>2, <5>3
      <4> QED
        BY <4>1, <4>2 DEF OpenCalls
    <3>3. ASSUME NEW c \in m.calls PROVE c \in new
      <4>1. c \in UNION {messages[j].calls : j \in start .. i}
        BY <1>1
      <4>2. \A k \in start .. i : c \in messages[k].calls => k + 1 .. i = {}
        BY <1>1, <1>2
      <4> QED
        BY <4>1, <4>2 DEF OpenCalls
    <3> QED
      BY <3>1, <3>2, <3>3
  <2>3. OpenAfter(messages, start, i) = made
    <3> HIDE DEF m, old, new, made
    <3>1. OpenAfter(messages, start, i) = [c \in new |-> Place(messages, c)]
      BY DEF OpenAfter, new
    <3> QED
      BY <1>6, <2>2, <3>1
  <2> QED
    BY <1>8, <2>3 DEF AfterMessage
<1> QED
  BY <1>7, <1>8

(* What the scan of select_summary_context has in its dict at the end.     *)
LEMMA PendingIsOpen ==
  ASSUME NEW messages, Orderly(messages), NEW start \in Nat, start >= 1,
         NEW end \in DOMAIN messages, end >= start
  PROVE  Pending(messages, start, end) = OpenAfter(messages, start, end)
<1> DEFINE Scan(f) == f = [i \in start - 1 .. end |->
                             IF i < start THEN <<>> ELSE AfterMessage(f[i - 1], messages, i)]
           after == [i \in start - 1 .. end |->
                       IF i < start THEN <<>> ELSE OpenAfter(messages, start, i)]
           scan == CHOOSE f : Scan(f)
<1>1. /\ DOMAIN messages = 1 .. Len(messages) /\ Len(messages) \in Nat /\ end \in Nat
      /\ start .. end \subseteq DOMAIN messages
  BY DEF Orderly
<1>2. OpenAfter(messages, start, start - 1) = <<>>
  <2>1. OpenCalls(messages, start, start - 1) = {}
    BY DEF OpenCalls
  <2> QED
    BY <2>1 DEF OpenAfter
<1>3. \A i \in start .. end : after[i - 1] = OpenAfter(messages, start, i - 1)
  BY <1>1, <1>2
<1>4. \A i \in start .. end : OpenAfter(messages, start, i) = AfterMessage(after[i - 1], messages, i)
  <2> TAKE i \in start .. end
  <2>1. i \in DOMAIN messages /\ i >= start
    BY <1>1
  <2>2. OpenAfter(messages, start, i) = AfterMessage(OpenAfter(messages, start, i - 1), messages, i)
    BY <2>1, NextOpen
  <2> HIDE DEF after
  <2> QED
    BY <1>3, <2>2
<1>5. Scan(after)
  BY <1>1, <1>4
<1>6. Scan(scan)
  <2> HIDE DEF Scan, after
  <2> QED
    BY <1>5
<1>7. \A i \in start - 1 .. end : scan[i] = after[i]
  <2> DEFINE off == {i \in start - 1 .. end : scan[i] # after[i]}
  <2> SUFFICES ASSUME off # {} PROVE FALSE
    OBVIOUS
  <2> HIDE DEF scan, after
  <2>1. off \subseteq Nat
    BY <1>1
  <2>2. Min(off) \in off /\ \A y \in off : Min(off) <= y
    BY <2>1, LeastOf
  <2> DEFINE i == Min(off)
  <2> HIDE DEF i
  <2>3. /\ i \in start - 1 .. end /\ scan[i] # after[i] /\ i \in Nat
        /\ i - 1 \notin off
    BY <2>1, <2>2 DEF i
  <2>4. /\ scan[i] = IF i < start THEN <<>> ELSE AfterMessage(scan[i - 1], messages, i)
        /\ after[i] = IF i < start THEN <<>> ELSE AfterMessage(after[i - 1], messages, i)
    BY <1>5, <1>6, <2>3
  <2>5. i >= start /\ i - 1 \in start - 1 .. end
    BY <1>1, <2>3, <2>4
  <2>6. scan[i - 1] = after[i - 1]
    BY <2>3, <2>5
  <2> QED
    BY <2>3, <2>4, <2>6
<1>8. scan[end] = OpenAfter(messages, start, end)
  <2> HIDE DEF scan
  <2> QED
    BY <1>1, <1>7
<1> QED
  BY <1>8 DEF Pending, AfterMessage

(* A call is open at the end of the range if the range made it and did not *)
(* settle it after.                                                        *)
StillOpen(messages, end, i) ==
  \E c \in messages[i].calls :
    ~\E j \in i + 1 .. end : messages[j].settles /\ messages[j].id = c

LEMMA OpenAreStillOpen ==
  ASSUME NEW messages, Orderly(messages), NEW start \in Nat, start >= 1,
         NEW end \in DOMAIN messages, end >= start
  PROVE  /\ \A c \in OpenCalls(messages, start, end) :
              /\ Place(messages, c) \in start .. end
              /\ StillOpen(messages, end, Place(messages, c))
         /\ \A i \in start .. end : StillOpen(messages, end, i) =>
              \E c \in OpenCalls(messages, start, end) : Place(messages, c) = i
<1>1. /\ DOMAIN messages = 1 .. Len(messages) /\ Len(messages) \in Nat
      /\ start .. end \subseteq DOMAIN messages
  BY DEF Orderly
<1>2. \A c : \A i, j \in DOMAIN messages :
        c \in messages[i].calls /\ c \in messages[j].calls => i = j
  BY DEF Orderly
<1>3. \A i \in DOMAIN messages : \A c \in messages[i].calls : Place(messages, c) = i
  BY <1>2 DEF Place
<1>4. ASSUME NEW c \in OpenCalls(messages, start, end)
      PROVE  /\ Place(messages, c) \in start .. end
             /\ StillOpen(messages, end, Place(messages, c))
  <2>1. PICK i \in start .. end : c \in messages[i].calls
    BY DEF OpenCalls
  <2>2. Place(messages, c) = i
    BY <1>1, <1>3, <2>1
  <2>3. \A l \in i + 1 .. end : ~Settles(messages[l], c)
    BY <2>1 DEF OpenCalls
  <2> QED
    BY <2>1, <2>2, <2>3 DEF StillOpen, Settles
<1>5. ASSUME NEW i \in start .. end, StillOpen(messages, end, i)
      PROVE  \E c \in OpenCalls(messages, start, end) : Place(messages, c) = i
  <2>1. PICK c \in messages[i].calls :
          ~\E j \in i + 1 .. end : messages[j].settles /\ messages[j].id = c
    BY <1>5 DEF StillOpen
  <2>2. \A j \in start .. end : c \in messages[j].calls => j = i
    BY <1>1, <1>2, <2>1
  <2>3. c \in OpenCalls(messages, start, end)
    BY <2>1, <2>2 DEF OpenCalls, Settles
  <2> QED
    BY <1>1, <1>3, <2>1, <2>3
<1> QED
  BY <1>4, <1>5

(* Where the selection ends.                                               *)
LEMMA SelectionEnds ==
  ASSUME NEW messages, Orderly(messages), NEW input,
         select_summary_context(messages, input) # NoSelection
  PROVE  LET sel == select_summary_context(messages, input)
             end == Len(messages) - 2
         IN /\ Len(messages) > 6 /\ sel.first \in 1 .. 2 /\ sel.last \in sel.first .. end
            /\ sel.first = 2 => messages[1].role = "system"
            /\ \A i \in sel.first .. sel.last : ~StillOpen(messages, end, i)
            /\ sel.last = end \/ StillOpen(messages, end, sel.last + 1)
<1> DEFINE start == IF messages[1].role = "system" THEN 2 ELSE 1
           end == Len(messages) - 2
           open == Pending(messages, start, end)
           last == IF open = <<>> THEN end ELSE EarliestOpen(open) - 1
           calls == OpenCalls(messages, start, end)
           places == {Place(messages, c) : c \in calls}
<1>1. /\ Len(messages) > 6 /\ ~(start > last)
      /\ select_summary_context(messages, input) = [first |-> start, last |-> last]
  <2>1. Len(messages) \in Nat
    BY DEF Orderly
  <2> HIDE DEF open
  <2> QED
    BY <2>1 DEF select_summary_context, open
<1>2. /\ start \in {1, 2} /\ start \in Nat /\ start >= 1
      /\ DOMAIN messages = 1 .. Len(messages)
      /\ end \in DOMAIN messages /\ end >= start /\ end \in Nat
      /\ start = 2 => messages[1].role = "system"
  BY <1>1 DEF Orderly
<1> HIDE DEF start, end
<1>3. open = [c \in calls |-> Place(messages, c)]
  BY <1>2, PendingIsOpen DEF OpenAfter
<1>4. /\ \A c \in calls : /\ Place(messages, c) \in start .. end
                         /\ StillOpen(messages, end, Place(messages, c))
      /\ \A i \in start .. end : StillOpen(messages, end, i) =>
           \E c \in calls : Place(messages, c) = i
  BY <1>2, OpenAreStillOpen
<1> HIDE DEF calls, open
<1>5. Range(open) = places /\ DOMAIN open = calls
  BY <1>3 DEF Range
<1>6. CASE calls = {}
  <2>1. open = <<>>
    BY <1>3, <1>6
  <2> QED
    BY <1>1, <1>2, <1>4, <1>6, <2>1 DEF end
<1>7. CASE calls # {}
  <2>1. open # <<>>
    BY <1>5, <1>7
  <2>2. places \subseteq Nat /\ places # {} /\ places \subseteq start .. end
    BY <1>2, <1>4, <1>7
  <2>3. Min(places) \in places /\ \A y \in places : Min(places) <= y
    BY <2>2, LeastOf
  <2>4. last = Min(places) - 1
    BY <1>5, <2>1 DEF EarliestOpen
  <2>5. StillOpen(messages, end, Min(places)) /\ Min(places) \in start .. end
    BY <1>4, <2>2, <2>3
  <2>6. \A i \in start .. last : ~StillOpen(messages, end, i)
    <3> SUFFICES ASSUME NEW i \in start .. last, StillOpen(messages, end, i) PROVE FALSE
      OBVIOUS
    <3> HIDE DEF places, last
    <3>1. i \in start .. end /\ i < Min(places)
      BY <1>2, <2>4, <2>5
    <3>2. i \in places
      BY <1>4, <3>1 DEF places
    <3> QED
      BY <2>3, <2>5, <1>2, <3>1, <3>2
  <2> HIDE DEF places, last
  <2> QED
    BY <1>1, <1>2, <2>4, <2>5, <2>6 DEF end
<1> QED
  BY <1>6, <1>7

(* Applied to the grown conversation: the system message, the summary, the *)
(* messages after the cut.                                                 *)
LEMMA AppliedKeeps ==
  ASSUME NEW messages, Orderly(messages), NEW grown, grown = Append(messages, Plain("user")),
         NEW first \in 1 .. 2, NEW last \in first .. Len(messages),
         first = 2 => messages[1].role = "system"
  PROVE  LET tail == SubSeq(grown, last + 1, Len(grown))
             applied == apply_context_summary(grown, last, FALSE)
         IN /\ \A i \in 1 .. first - 1 : messages[i].role = "system" /\ applied[i] = messages[i]
            /\ SubSeq(applied, Len(applied) - Len(tail) + 1, Len(applied)) = tail
<1> DEFINE S == Range(messages) \cup {Plain("user")}
           tail == SubSeq(grown, last + 1, Len(grown))
           applied == apply_context_summary(grown, last, FALSE)
           systems == {i \in DOMAIN grown : grown[i].role = "system"}
           kept == IF systems = {} THEN <<>> ELSE <<grown[Min(systems)]>>
           head == kept \o <<Summary>>
<1>1. messages \in Seq(S) /\ Len(messages) \in Nat /\ DOMAIN messages = 1 .. Len(messages)
  <2>1. messages \in Seq(Range(messages)) /\ Range(messages) \subseteq S
    BY DEF Orderly
  <2> HIDE DEF S
  <2> QED
    BY <2>1
<1>2. Plain("user") \in S /\ Summary \in S
  BY DEF Summary
<1> HIDE DEF S
<1>3. /\ grown \in Seq(S) /\ Len(grown) = Len(messages) + 1 /\ DOMAIN grown = 1 .. Len(grown)
      /\ \A i \in 1 .. Len(messages) : grown[i] = messages[i]
  BY <1>1, <1>2
<1>4. applied = head \o tail
  <2>1. ~(last < 1)
    BY <1>1
  <2> QED
    BY <2>1 DEF apply_context_summary
<1>5. systems \subseteq Nat
  BY <1>1, <1>3
<1>6. systems # {} => Min(systems) \in systems /\ \A y \in systems : Min(systems) <= y
  BY <1>5, LeastOf
<1>7. kept \in Seq(S) /\ (systems # {} => kept = <<grown[Min(systems)]>>)
  <2>1. systems \subseteq DOMAIN grown
    OBVIOUS
  <2> HIDE DEF systems
  <2>2. CASE systems # {}
    <3>1. kept = <<grown[Min(systems)]>>
      BY <2>2
    <3> HIDE DEF kept
    <3>2. Min(systems) \in DOMAIN grown
      BY <1>6, <2>1, <2>2
    <3> DEFINE oldest == grown[Min(systems)]
    <3>3. oldest \in S
      BY <1>3, <3>2
    <3> HIDE DEF oldest
    <3>4. <<oldest>> \in Seq(S)
      BY <3>3
    <3>5. kept \in Seq(S)
      BY <3>1, <3>4 DEF oldest
    <3> QED
      BY <3>1, <3>5
  <2>3. CASE systems = {}
    BY <2>3
  <2> QED
    BY <2>2, <2>3
<1> HIDE DEF kept, applied, systems
<1>8. head \in Seq(S) /\ tail \in Seq(S) /\ Len(head) = Len(kept) + 1
      /\ \A i \in 1 .. Len(kept) : head[i] = kept[i]
  <2>1. tail \in Seq(S)
    BY <1>1, <1>3
  <2> HIDE DEF tail
  <2> QED
    BY <1>2, <1>7, <2>1
<1> HIDE DEF head, tail
<1>9. /\ applied \in Seq(S) /\ Len(applied) = Len(head) + Len(tail)
      /\ \A i \in 1 .. Len(head) : applied[i] = head[i]
      /\ \A i \in 1 .. Len(tail) : applied[Len(head) + i] = tail[i]
      /\ Len(head) \in Nat /\ Len(tail) \in Nat
  <2>1. /\ head \o tail \in Seq(S) /\ Len(head \o tail) = Len(head) + Len(tail)
        /\ \A i \in 1 .. Len(head) + Len(tail) :
             (head \o tail)[i] = IF i <= Len(head) THEN head[i] ELSE tail[i - Len(head)]
    BY <1>8, ConcatProperties
  <2>2. Len(head) \in Nat /\ Len(tail) \in Nat
    BY <1>8
  <2> DEFINE h == Len(head)
             t == Len(tail)
  <2>3. /\ \A i \in 1 .. h : i \in 1 .. h + t /\ i <= h
        /\ \A i \in 1 .. t : h + i \in 1 .. h + t /\ ~(h + i <= h) /\ h + i - h = i
    <3> HIDE DEF h, t
    <3>1. h \in Nat /\ t \in Nat
      BY <2>2 DEF h, t
    <3> QED
      BY <3>1
  <2>4. \A i \in 1 .. h : applied[i] = head[i]
    BY <1>4, <2>1, <2>3
  <2>5. \A i \in 1 .. t : applied[h + i] = tail[i]
    <3> TAKE i \in 1 .. t
    <3>1. (head \o tail)[h + i] = tail[h + i - h]
      BY <2>1, <2>3
    <3> QED
      BY <1>4, <2>3, <3>1
  <2> QED
    BY <1>4, <2>1, <2>2, <2>4, <2>5
<1>10. ASSUME NEW i \in 1 .. first - 1
       PROVE  messages[i].role = "system" /\ applied[i] = messages[i]
  <2>1. i = 1 /\ messages[1].role = "system" /\ grown[1] = messages[1]
    BY <1>1, <1>3
  <2>2. 1 \in systems
    BY <1>1, <1>3, <2>1 DEF systems
  <2>3. Min(systems) = 1
    <3>1. Min(systems) \in systems /\ Min(systems) <= 1
      BY <1>6, <2>2
    <3>2. Min(systems) \in 1 .. Len(grown)
      BY <1>3, <3>1 DEF systems
    <3> QED
      BY <1>1, <1>3, <3>1, <3>2
  <2>4. kept = <<messages[1]>>
    BY <1>7, <2>1, <2>2, <2>3
  <2>5. head[1] = messages[1] /\ Len(head) = 2
    BY <1>8, <2>4
  <2> QED
    BY <1>9, <2>1, <2>5
<1>11. SubSeq(applied, Len(applied) - Len(tail) + 1, Len(applied)) = tail
  <2> DEFINE n == Len(head)
             k == Len(tail)
             end == SubSeq(applied, n + 1, n + k)
  <2>1. Len(applied) - Len(tail) + 1 = n + 1 /\ Len(applied) = n + k
    BY <1>9
  <2>2. n \in Nat /\ k \in Nat
    BY <1>9
  <2>3. \A i \in n + 1 .. n + k : applied[i] \in S
    <3> HIDE DEF n, k
    <3>1. DOMAIN applied = 1 .. n + k
      BY <1>9, <2>1
    <3> QED
      BY <1>9, <2>2, <3>1
  <2>4. \A i \in 1 .. k : applied[n + i] = tail[i]
    BY <1>9
  <2> HIDE DEF n, k
  <2>5. /\ end \in Seq(S) /\ Len(end) = IF n + 1 <= n + k THEN n + k - (n + 1) + 1 ELSE 0
        /\ \A i \in 1 .. n + k - (n + 1) + 1 : end[i] = applied[n + 1 + i - 1]
    BY <2>2, <2>3, SubSeqProperties
  <2> HIDE DEF end
  <2>6. Len(end) = k /\ \A i \in 1 .. k : end[i] = applied[n + i]
    BY <2>2, <2>5
  <2>7. end = tail
    BY <1>8, <2>4, <2>5, <2>6, SeqEqual DEF k
  <2> QED
    BY <2>1, <2>7 DEF end
<1> QED
  BY <1>10, <1>11 DEF applied, tail

(* The summary covers no call still open where the range could at most     *)
(* end, and no message is lost when it is applied                          *)
(* (select_summary_context, apply_context_summary).                        *)
THEOREM SummaryCutAlwaysSound == ReviewSpec => []SummaryCutIsSound
<1> DEFINE Inv == \E input \in Inputs : conversation = input.conversation
<1>1. Init => Inv
  BY DEF Init
<1>2. Inv /\ [Next]_reviewVars => Inv'
  <2> SUFFICES ASSUME Inv, [Next]_reviewVars PROVE conversation' = conversation
    OBVIOUS
  <2> QED
    BY DEF Next, reviewVars, Evaluate, Revise, Decide, ApplyDecisions, Publish
<1>3. Inv => SummaryCutIsSound
  <2> SUFFICES ASSUME Inv PROVE SummaryCutIsSound
    OBVIOUS
  <2> DEFINE m == conversation.messages
             input == conversation.input
             sel == select_summary_context(m, input)
             end == Len(m) - 2
             grown == Append(m, Plain("user"))
             tail == SubSeq(grown, sel.last + 1, Len(grown))
             applied == apply_context_summary(grown, sel.last, FALSE)
  <2>1. Orderly(m)
    BY ConversationsAssumption DEF Orderly
  <2> HIDE DEF m, input, Inv
  <2>2. CASE sel = NoSelection
    <3>1. sel.first .. sel.last = {}
      BY <2>2 DEF NoSelection
    <3> QED
      BY <2>2, <3>1 DEF SummaryCutIsSound, m, input
  <2>3. CASE sel # NoSelection
    <3>1. /\ sel.first \in 1 .. 2 /\ sel.last \in sel.first .. end /\ Len(m) > 6
          /\ sel.first = 2 => m[1].role = "system"
          /\ \A i \in sel.first .. sel.last : ~StillOpen(m, end, i)
          /\ sel.last = end \/ StillOpen(m, end, sel.last + 1)
      BY <2>1, <2>3, SelectionEnds
    <3> HIDE DEF sel
    <3>2. Len(m) \in Nat
      BY <2>1 DEF Orderly
    <3>3. sel.last \in sel.first .. Len(m)
      BY <3>1, <3>2
    <3>4. /\ \A i \in 1 .. sel.first - 1 : m[i].role = "system" /\ applied[i] = m[i]
          /\ SubSeq(applied, Len(applied) - Len(tail) + 1, Len(applied)) = tail
      BY <2>1, <3>1, <3>3, AppliedKeeps
    <3> HIDE DEF applied, tail, grown
    <3> QED
      BY <3>1, <3>4 DEF SummaryCutIsSound, StillOpen, m, input, sel, applied, tail, grown
  <2> QED
    BY <2>2, <2>3
<1> QED
  BY <1>1, <1>2, <1>3, PTL DEF ReviewSpec

-----------------------------------------------------------------------------
(* What the JSON grammar accepts, by what it reads of shorter texts.       *)

(* What json.loads reads of a text, given what it reads of others: the     *)
(* rules of Grammar.                                                       *)
Whats == {"value", "items", "members"}

Phrases == Whats \X Seq(STRING)

Reading(numerals, is, p) ==
  LET what == p[1]
      s == Strip(p[2])
      n == Len(s)
      inner == SubSeq(s, 2, n - 1)
      empty == Strip(inner) = <<>>
      value(q) == is[<<"value", q>>]
      pair(q) == \E k \in DOMAIN q :
                   /\ q[k] = ":" /\ IsString(Strip(SubSeq(q, 1, k - 1)))
                   /\ value(SubSeq(q, k + 1, Len(q)))
      split(rest, left(_)) ==
        \E k \in 2 .. n - 1 : s[k] = "," /\ left(SubSeq(s, 1, k - 1))
                                        /\ is[<<rest, SubSeq(s, k + 1, n)>>]
  IN \/ /\ what = "value"
        /\ \/ n = 1 /\ s[1] \in numerals
           \/ IsString(s)
           \/ n >= 2 /\ s[1] = "[" /\ s[n] = "]" /\ (empty \/ is[<<"items", inner>>])
           \/ n >= 2 /\ s[1] = "{" /\ s[n] = "}" /\ (empty \/ is[<<"members", inner>>])
     \/ what = "items" /\ (value(s) \/ split("items", value))
     \/ what = "members" /\ (s = <<"m">> \/ pair(s) \/ split("members", pair))

Sooner(w, q, what, t) ==
  Len(q) < Len(t) \/ (Len(q) <= Len(t) /\ w = "value" /\ what # "value")

LEMMA StripShortens ==
  ASSUME NEW S, NEW t \in Seq(S)
  PROVE  Strip(t) \in Seq(S) /\ Len(Strip(t)) <= Len(t)
<1>1. CASE Strip(t) = <<>>
  BY <1>1
<1>2. CASE Strip(t) # <<>>
  <2>1. Piece(t, Strip(t))
    BY <1>2, StripIsPiece
  <2>2. PICK i, j \in DOMAIN t : i <= j /\ Strip(t) = SubSeq(t, i, j)
    BY <2>1 DEF Piece
  <2> QED
    BY <2>2
<1> QED
  BY <1>1, <1>2

(* A reading rests on readings of shorter texts, and of values before      *)
(* lists of them; more numerals take no reading away.                      *)
LEMMA ReadingGrows ==
  ASSUME NEW few, NEW many, few \subseteq many, NEW f, NEW g,
         NEW what \in Whats, NEW t \in Seq(STRING),
         \A w \in Whats, q \in Seq(STRING) : Sooner(w, q, what, t) /\ f[<<w, q>>] => g[<<w, q>>],
         Reading(few, f, <<what, t>>)
  PROVE  Reading(many, g, <<what, t>>)
<1> DEFINE s == Strip(t)
           n == Len(s)
           inner == SubSeq(s, 2, n - 1)
<1>1. /\ s \in Seq(STRING) /\ n \in Nat /\ Len(t) \in Nat /\ n <= Len(t)
      /\ DOMAIN s = 1 .. n
  BY StripShortens
<1> HIDE DEF s
<1>2. ASSUME NEW q \in Seq(STRING), NEW a \in Int, NEW b \in Int, a >= 1, b <= Len(q)
      PROVE  /\ SubSeq(q, a, b) \in Seq(STRING)
             /\ Len(SubSeq(q, a, b)) \in Nat
             /\ Len(SubSeq(q, a, b)) <= Len(q)
             /\ Len(q) > 0 /\ (a > 1 \/ b < Len(q)) => Len(SubSeq(q, a, b)) < Len(q)
  BY <1>2
<1>3. n >= 2 => inner \in Seq(STRING) /\ Len(inner) < Len(t)
  BY <1>1, <1>2
<1>4. \A w \in Whats, q \in Seq(STRING) : Len(q) < Len(t) /\ f[<<w, q>>] => g[<<w, q>>]
  BY DEF Sooner
<1>5. \A k \in 2 .. n - 1 : /\ SubSeq(s, 1, k - 1) \in Seq(STRING) /\ SubSeq(s, k + 1, n) \in Seq(STRING)
                            /\ Len(SubSeq(s, 1, k - 1)) < Len(t) /\ Len(SubSeq(s, k + 1, n)) < Len(t)
  BY <1>1, <1>2
<1>6. ASSUME NEW q \in Seq(STRING), Len(q) <= Len(t), NEW k \in DOMAIN q, f[<<"value", SubSeq(q, k + 1, Len(q))>>]
      PROVE  g[<<"value", SubSeq(q, k + 1, Len(q))>>]
  <2>1. /\ Len(q) \in Nat /\ k \in 1 .. Len(q)
    BY <1>6
  <2>2. SubSeq(q, k + 1, Len(q)) \in Seq(STRING) /\ Len(SubSeq(q, k + 1, Len(q))) < Len(t)
    BY <1>1, <1>2, <1>6, <2>1
  <2> QED
    BY <1>4, <1>6, <2>2 DEF Whats
<1> HIDE DEF n, inner
<1>7. CASE what = "value"
  BY <1>3, <1>4, <1>7 DEF Reading, Whats, s, n, inner
<1>8. CASE what = "items"
  <2>1. f[<<"value", s>>] => g[<<"value", s>>]
    BY <1>1, <1>8 DEF Sooner, Whats, n
  <2> QED
    BY <1>4, <1>5, <1>8, <2>1 DEF Reading, Whats, s, n
<1>9. CASE what = "members"
  <2> DEFINE Pair(is, q) ==
               \E k \in DOMAIN q : /\ q[k] = ":" /\ IsString(Strip(SubSeq(q, 1, k - 1)))
                                  /\ is[<<"value", SubSeq(q, k + 1, Len(q))>>]
             Split(is) ==
               \E k \in 2 .. n - 1 : /\ s[k] = "," /\ Pair(is, SubSeq(s, 1, k - 1))
                                    /\ is[<<"members", SubSeq(s, k + 1, n)>>]
  <2>1. \A q \in Seq(STRING) : Len(q) <= Len(t) /\ Pair(f, q) => Pair(g, q)
    BY <1>6
  <2>2. s = <<"m">> \/ Pair(f, s) \/ Split(f)
    BY <1>9 DEF Reading, s, n
  <2>3. s = <<"m">> \/ Pair(g, s) \/ Split(g) => Reading(many, g, <<what, t>>)
    BY <1>9 DEF Reading, s, n
  <2>4. Pair(f, s) => Pair(g, s)
    BY <1>1, <2>1 DEF n
  <2>5. \A k \in 2 .. n - 1 : Pair(f, SubSeq(s, 1, k - 1)) => Pair(g, SubSeq(s, 1, k - 1))
    <3> HIDE DEF Pair
    <3> TAKE k \in 2 .. n - 1
    <3>1. SubSeq(s, 1, k - 1) \in Seq(STRING) /\ Len(SubSeq(s, 1, k - 1)) < Len(t)
      BY <1>5
    <3>2. Len(SubSeq(s, 1, k - 1)) <= Len(t)
      BY <1>1, <3>1
    <3> QED
      BY <2>1, <3>1, <3>2
  <2>6. Split(f) => Split(g)
    <3> HIDE DEF Pair
    <3> QED
      BY <1>4, <1>5, <2>5 DEF Whats
  <2> HIDE DEF Pair, Split
  <2> QED
    BY <2>2, <2>3, <2>4, <2>6
<1> QED
  BY <1>7, <1>8, <1>9 DEF Whats

(* There is a reading of all texts at once: the least that the rules give. *)
ReadingOf(numerals) ==
  CHOOSE is : is = [p \in Phrases |-> Reading(numerals, is, p)]

LEMMA ReadingExists ==
  ASSUME NEW numerals
  PROVE  ReadingOf(numerals) = [p \in Phrases |-> Reading(numerals, ReadingOf(numerals), p)]
<1> DEFINE In(R) == [p \in Phrases |-> p \in R]
           Closed(R) == \A p \in Phrases : Reading(numerals, In(R), p) => p \in R
           Least == {p \in Phrases : \A R \in SUBSET Phrases : Closed(R) => p \in R}
           Given == {p \in Phrases : Reading(numerals, In(Least), p)}
<1>1. ASSUME NEW R1, NEW R2, R1 \subseteq R2, NEW p \in Phrases,
             Reading(numerals, In(R1), p)
      PROVE  Reading(numerals, In(R2), p)
  <2>1. PICK what \in Whats, t \in Seq(STRING) : p = <<what, t>>
    BY DEF Phrases
  <2> DEFINE f == In(R1)
             g == In(R2)
  <2>2. \A w \in Whats, q \in Seq(STRING) : Sooner(w, q, what, t) /\ f[<<w, q>>] => g[<<w, q>>]
    BY <1>1 DEF Phrases
  <2>3. Reading(numerals, f, <<what, t>>)
    BY <1>1, <2>1
  <2> HIDE DEF f, g
  <2>4. Reading(numerals, g, <<what, t>>)
    BY <2>2, <2>3, ReadingGrows
  <2> QED
    BY <2>1, <2>4 DEF g
<1> HIDE DEF In
<1>2. \A R \in SUBSET Phrases : Closed(R) => Least \subseteq R
  OBVIOUS
<1>3. Given \subseteq Least
  <2> SUFFICES ASSUME NEW p \in Given, NEW R \in SUBSET Phrases, Closed(R) PROVE p \in R
    OBVIOUS
  <2> HIDE DEF Least
  <2>1. Reading(numerals, In(R), p)
    BY <1>1, <1>2
  <2> QED
    BY <2>1
<1>4. Least \subseteq Given
  <2>1. Given \in SUBSET Phrases
    OBVIOUS
  <2> HIDE DEF Least
  <2>2. Closed(Given)
    BY <1>1, <1>3
  <2> HIDE DEF Given, Closed
  <2> QED
    BY <1>2, <2>1, <2>2
<1> DEFINE f == In(Least)
<1>5. \A p \in Phrases : f[p] <=> Reading(numerals, f, p)
  <2> HIDE DEF Least
  <2> QED
    BY <1>3, <1>4 DEF In
<1>6. f = [p \in Phrases |-> Reading(numerals, f, p)]
  <2>1. f = [p \in Phrases |-> f[p]] /\ \A p \in Phrases : f[p] \in BOOLEAN
    BY DEF In
  <2> HIDE DEF f
  <2>2. \A p : Reading(numerals, f, p) \in BOOLEAN
    BY DEF Reading
  <2>3. \A p \in Phrases : f[p] = Reading(numerals, f, p)
    BY <1>5, <2>1, <2>2
  <2> QED
    BY <2>1, <2>3
<1> HIDE DEF f
<1> QED
  BY <1>6 DEF ReadingOf

LEMMA GrammarReads ==
  ASSUME NEW numerals, NEW t \in Seq(STRING)
  PROVE  Grammar(numerals)[t] = ReadingOf(numerals)[<<"value", t>>]
  BY DEF Grammar, ReadingOf, Reading, Phrases, Whats

(* What is read with few numerals is read with more.                       *)
LEMMA MoreNumerals ==
  ASSUME NEW few, NEW many, few \subseteq many, NEW text \in Seq(STRING),
         Grammar(few)[text]
  PROVE  Grammar(many)[text]
<1> DEFINE f == ReadingOf(few)
           g == ReadingOf(many)
           lost == {k \in Nat : \E t \in Seq(STRING), what \in Whats :
                      Len(t) = k /\ f[<<what, t>>] /\ ~g[<<what, t>>]}
<1>1. \A what \in Whats, t \in Seq(STRING) :
        /\ f[<<what, t>>] <=> Reading(few, f, <<what, t>>)
        /\ g[<<what, t>>] <=> Reading(many, g, <<what, t>>)
  <2> TAKE what \in Whats, t \in Seq(STRING)
  <2>1. <<what, t>> \in Phrases
    BY DEF Phrases
  <2>2. /\ f = [p \in Phrases |-> Reading(few, f, p)]
        /\ g = [p \in Phrases |-> Reading(many, g, p)]
    BY ReadingExists
  <2> HIDE DEF f, g
  <2>3. f[<<what, t>>] = Reading(few, f, <<what, t>>)
    BY <2>1, <2>2
  <2>4. g[<<what, t>>] = Reading(many, g, <<what, t>>)
    BY <2>1, <2>2
  <2> QED
    BY <2>3, <2>4
<1> HIDE DEF f, g
<1>2. lost = {}
  <2> SUFFICES ASSUME lost # {} PROVE FALSE
    OBVIOUS
  <2>1. Min(lost) \in lost /\ \A k \in lost : Min(lost) <= k
    BY LeastOf
  <2>2. PICK t \in Seq(STRING), what \in Whats :
          Len(t) = Min(lost) /\ f[<<what, t>>] /\ ~g[<<what, t>>]
    BY <2>1
  <2>3. \A w \in Whats, q \in Seq(STRING) : Len(q) < Len(t) /\ f[<<w, q>>] => g[<<w, q>>]
    <3> SUFFICES ASSUME NEW w \in Whats, NEW q \in Seq(STRING),
                        Len(q) < Len(t), f[<<w, q>>], ~g[<<w, q>>]
                 PROVE  FALSE
      OBVIOUS
    <3>1. Len(q) \in Nat /\ Len(t) \in Nat
      OBVIOUS
    <3>2. Len(q) \in lost
      BY <3>1
    <3> HIDE DEF lost
    <3>3. Len(t) <= Len(q)
      BY <2>1, <2>2, <3>2
    <3> QED
      BY <3>1, <3>3
  <2> HIDE DEF lost
  <2>4. ASSUME NEW q \in Seq(STRING), Len(q) <= Len(t), f[<<"value", q>>]
        PROVE  g[<<"value", q>>]
    <3>1. "value" \in Whats /\ Len(q) \in Nat /\ Len(t) \in Nat
      BY DEF Whats
    <3>2. \A w \in Whats, r \in Seq(STRING) :
            Sooner(w, r, "value", q) /\ f[<<w, r>>] => g[<<w, r>>]
      BY <2>3, <2>4, <3>1 DEF Sooner
    <3>3. Reading(few, f, <<"value", q>>)
      BY <1>1, <2>4, <3>1
    <3>4. Reading(many, g, <<"value", q>>)
      BY <3>1, <3>2, <3>3, ReadingGrows
    <3> QED
      BY <1>1, <3>1, <3>4
  <2>5. \A w \in Whats, q \in Seq(STRING) :
          Sooner(w, q, what, t) /\ f[<<w, q>>] => g[<<w, q>>]
    BY <2>3, <2>4 DEF Sooner
  <2>6. Reading(few, f, <<what, t>>)
    BY <1>1, <2>2
  <2>7. Reading(many, g, <<what, t>>)
    BY <2>5, <2>6, ReadingGrows
  <2> QED
    BY <1>1, <2>2, <2>7
<1>3. f[<<"value", text>>]
  BY GrammarReads DEF f
<1>4. g[<<"value", text>>]
  <2>1. "value" \in Whats /\ Len(text) \in Nat
    BY DEF Whats
  <2> QED
    BY <1>2, <1>3, <2>1
<1> QED
  BY <1>4, GrammarReads DEF g

LEMMA PieceEnds ==
  ASSUME NEW S, NEW t \in Seq(S), NEW a \in DOMAIN t, NEW b \in DOMAIN t, a <= b
  PROVE  LET s == SubSeq(t, a, b)
         IN /\ s \in Seq(S) /\ DOMAIN s = 1 .. Len(s) /\ Len(s) \in Nat /\ Len(s) >= 1
            /\ s[1] = t[a] /\ s[Len(s)] = t[b]
<1> DEFINE s == SubSeq(t, a, b)
<1>1. /\ a \in Int /\ b \in Int /\ 1 <= a /\ b <= Len(t) /\ Len(t) \in Nat
      /\ DOMAIN t = 1 .. Len(t)
  BY SeqDomain
<1>2. \A i \in a .. b : t[i] \in S
  BY <1>1
<1>3. /\ s \in Seq(S) /\ Len(s) = b - a + 1
      /\ \A i \in 1 .. b - a + 1 : s[i] = t[a + i - 1]
  BY <1>1, <1>2, SubSeqProperties
<1> HIDE DEF s
<1>4. DOMAIN s = 1 .. Len(s) /\ Len(s) \in Nat
  BY <1>3
<1>5. /\ 1 \in 1 .. b - a + 1 /\ a + 1 - 1 = a
      /\ b - a + 1 \in 1 .. b - a + 1 /\ a + (b - a + 1) - 1 = b
  BY <1>1
<1> QED
  BY <1>1, <1>3, <1>4, <1>5 DEF s

LEMMA StripTwice ==
  ASSUME NEW S, NEW t \in Seq(S)
  PROVE  Strip(Strip(t)) = Strip(t)
<1> DEFINE solid == {i \in DOMAIN t : t[i] # "_"}
           a == Min(solid)
           b == Max(solid)
           s == Strip(t)
           inside == {i \in DOMAIN s : s[i] # "_"}
<1>1. CASE solid = {}
  <2>1. s = <<>>
    BY <1>1 DEF Strip
  <2> QED
    BY <2>1, EmptyStrips
<1>2. CASE solid # {}
  <2>1. Len(t) \in Nat /\ DOMAIN t = 1 .. Len(t)
    OBVIOUS
  <2>2. solid \subseteq 1 .. Len(t) /\ solid \subseteq Nat
    <3>1. solid \subseteq DOMAIN t
      OBVIOUS
    <3> HIDE DEF solid
    <3> QED
      BY <3>1, SeqDomain
  <2>3. a \in solid /\ \A y \in solid : a <= y
    BY <1>2, <2>2, LeastOf
  <2>4. b \in solid /\ \A y \in solid : y <= b
    BY <1>2, <2>1, <2>2, GreatestOf
  <2>5. s = SubSeq(t, a, b)
    BY <1>2 DEF Strip
  <2> HIDE DEF a, b, s
  <2>6. /\ a \in DOMAIN t /\ b \in DOMAIN t /\ a <= b /\ t[a] # "_" /\ t[b] # "_"
    BY <2>3, <2>4 DEF solid
  <2> HIDE DEF solid
  <2>7. /\ s \in Seq(S) /\ DOMAIN s = 1 .. Len(s) /\ Len(s) \in Nat /\ Len(s) >= 1
        /\ s[1] = t[a] /\ s[Len(s)] = t[b]
    <3> DEFINE r == SubSeq(t, a, b)
    <3>1. /\ r \in Seq(S) /\ DOMAIN r = 1 .. Len(r) /\ Len(r) \in Nat /\ Len(r) >= 1
          /\ r[1] = t[a] /\ r[Len(r)] = t[b]
      BY <2>6, PieceEnds
    <3>2. s = r
      BY <2>5
    <3> HIDE DEF r, inside
    <3> QED
      BY <3>1, <3>2
  <2>8. /\ 1 \in DOMAIN s /\ Len(s) \in DOMAIN s /\ inside \subseteq DOMAIN s
        /\ DOMAIN s \subseteq Nat
    <3>1. inside \subseteq DOMAIN s
      OBVIOUS
    <3>2. DOMAIN s \subseteq Nat /\ 1 \in DOMAIN s /\ Len(s) \in DOMAIN s
      <4> DEFINE len == Len(s)
      <4>1. DOMAIN s = 1 .. len /\ len \in Nat /\ len >= 1
        BY <2>7
      <4> HIDE DEF len
      <4>2. 1 \in 1 .. len /\ len \in 1 .. len /\ 1 .. len \subseteq Nat
        BY <4>1
      <4> QED
        BY <4>1, <4>2 DEF len
    <3> QED
      BY <3>1, <3>2
  <2>9. 1 \in inside /\ Len(s) \in inside /\ inside \subseteq 1 .. Len(s) /\ inside \subseteq Nat
    BY <2>6, <2>7, <2>8
  <2>10. Strip(s) = SubSeq(s, Min(inside), Max(inside))
    BY <2>9 DEF Strip
  <2> HIDE DEF inside
  <2>11. Min(inside) = 1
    <3>1. Min(inside) \in inside /\ Min(inside) <= 1
      BY <2>9, LeastOf
    <3>2. Min(inside) \in 1 .. Len(s)
      BY <2>9, <3>1
    <3> QED
      BY <2>7, <3>1, <3>2
  <2>12. Max(inside) = Len(s)
    <3>1. Max(inside) \in inside /\ Len(s) <= Max(inside)
      BY <2>7, <2>9, GreatestOf
    <3>2. Max(inside) \in 1 .. Len(s)
      BY <2>9, <3>1
    <3> QED
      BY <2>7, <3>1, <3>2
  <2>13. SubSeq(s, 1, Len(s)) = s
    BY <2>7
  <2> QED
    BY <2>10, <2>11, <2>12, <2>13 DEF s
<1> QED
  BY <1>1, <1>2

LEMMA GrammarStrips ==
  ASSUME NEW numerals, NEW t \in Seq(STRING), Grammar(numerals)[t]
  PROVE  Grammar(numerals)[Strip(t)]
<1> DEFINE is == ReadingOf(numerals)
           s == Strip(t)
<1>1. s \in Seq(STRING) /\ Strip(s) = s
  BY StripShortens, StripTwice
<1>2. <<"value", t>> \in Phrases /\ <<"value", s>> \in Phrases
  BY <1>1 DEF Phrases, Whats
<1>3. /\ is[<<"value", t>>] = Reading(numerals, is, <<"value", t>>)
      /\ is[<<"value", s>>] = Reading(numerals, is, <<"value", s>>)
  <2>1. is = [p \in Phrases |-> Reading(numerals, is, p)]
    BY ReadingExists
  <2> HIDE DEF is, s
  <2> QED
    BY <1>2, <2>1
<1>4. Grammar(numerals)[t] = is[<<"value", t>>] /\ Grammar(numerals)[s] = is[<<"value", s>>]
  BY <1>1, GrammarReads
<1>5. Reading(numerals, is, <<"value", t>>) => Reading(numerals, is, <<"value", s>>)
  <2> HIDE DEF is
  <2> QED
    BY <1>1 DEF Reading
<1> QED
  BY <1>3, <1>4, <1>5

(* An answer that is a JSON object or list as it stands is used as it      *)
(* stands (parse_production_json).                                         *)
THEOREM StrictAlwaysItself == ReviewSpec => []StrictNeverReinterpreted
<1>1. BatchInv => StrictNeverReinterpreted
  <2> SUFFICES ASSUME BatchInv, NEW n \in DOMAIN batch, NEW t, t = batch[n].attempt.text,
                      StrictValid(t), StrictDecode(t) \in {"dict", "list"}
               PROVE  /\ parse_production_json(t).path = "direct"
                      /\ parse_production_json(t).value = Strip(t)
    BY DEF StrictNeverReinterpreted, Answers
  <2> DEFINE c == Strip(t)
             tried == Candidates(c)
             good == {k \in DOMAIN tried : Structured(tried[k][2])}
  <2>1. t \in Seq(STRING)
    BY InputsAssumption DEF BatchInv
  <2>2. c # <<>> /\ Grammar({"1"})[t] /\ Type(t) \in {"dict", "list"} /\ ~Blank(t)
    BY DEF StrictValid, StrictDecode, Decode, Blank
  <2>3. c \in Seq(STRING) /\ Strip(c) = c
    BY <2>1, StripShortens, StripTwice
  <2>4. Grammar({"1", "NaN"})[c]
    <3>1. Grammar({"1", "NaN"})[t]
      BY <2>1, <2>2, MoreNumerals
    <3> QED
      BY <2>1, <3>1, GrammarStrips
  <2>5. Type(c) = Type(t)
    BY <2>3 DEF Type
  <2>6. c # NoAnswer
    <3>1. Head(c) \in {"{", "["}
      BY <2>2 DEF Type
    <3>2. Head(NoAnswer) = "None"
      BY DEF NoAnswer
    <3> QED
      BY <3>1, <3>2
  <2>7. Structured(c)
    BY <2>2, <2>3, <2>4, <2>5, <2>6 DEF Structured, ProductionDecode, Decode
  <2> HIDE DEF c
  <2>8. DOMAIN tried = 1 .. 4 /\ tried[1] = <<"direct", c>>
    BY DEF Candidates
  <2> HIDE DEF tried
  <2>9. 1 \in good /\ good \subseteq Nat /\ good \subseteq 1 .. 4
    BY <2>7, <2>8
  <2>10. parse_production_json(t) = Recovered(FALSE, tried, good)
    <3>1. Blank(t) = FALSE
      BY <2>2 DEF Blank
    <3> QED
      BY <3>1 DEF parse_production_json, good, tried, c
  <2> HIDE DEF good
  <2>11. Min(good) = 1
    <3>1. Min(good) \in good /\ Min(good) <= 1
      BY <2>9, LeastOf
    <3>2. Min(good) \in 1 .. 4
      BY <2>9, <3>1
    <3> QED
      BY <3>1, <3>2
  <2>12. good # {}
    BY <2>9
  <2>13. Recovered(FALSE, tried, good) =
           [path |-> tried[1][1], success |-> TRUE,
            value |-> tried[1][2], type |-> Type(tried[1][2])]
    BY <2>11, <2>12 DEF Recovered
  <2> QED
    <3>1. parse_production_json(t) =
            [path |-> "direct", success |-> TRUE, value |-> c, type |-> Type(c)]
      <4>1. tried[1][1] = "direct" /\ tried[1][2] = c
        BY <2>8
      <4> QED
        BY <2>10, <2>13, <4>1
    <3> QED
      BY <3>1 DEF c
<1> QED
  BY <1>1, ReviewInvariant, PTL DEF ReviewInv

-----------------------------------------------------------------------------
(* The scan of _first_balanced for braces: outside strings, at depth d.    *)
At(d) == [depth |-> d, in_string |-> FALSE, escape_next |-> FALSE]
Within(d, escaped) == [depth |-> d, in_string |-> TRUE, escape_next |-> escaped]

(* How the scan goes on behind a place, character by character.            *)
Scans(scan, t, from) ==
  \A i \in Nat : from < i /\ i <= Len(t) =>
    scan[i] = Scanned(scan[i - 1], t[i], "{", "}")

\* What passes from the place x to the place y leaves no trace.
Passes(scan, x, y) ==
  \A d \in Nat : scan[x] = At(d) =>
    /\ scan[y] = At(d)
    /\ \A l \in Nat : x <= l /\ l <= y => scan[l].depth \in Nat /\ scan[l].depth >= d

LEMMA PassesOn ==
  ASSUME NEW scan, NEW x \in Nat, NEW y \in Nat, NEW z \in Nat, x <= y, y <= z,
         Passes(scan, x, y), Passes(scan, y, z)
  PROVE  Passes(scan, x, z)
<1> SUFFICES ASSUME NEW d \in Nat, scan[x] = At(d)
             PROVE  /\ scan[z] = At(d)
                    /\ \A l \in Nat : x <= l /\ l <= z =>
                         scan[l].depth \in Nat /\ scan[l].depth >= d
  BY DEF Passes
<1>1. /\ scan[y] = At(d)
      /\ \A l \in Nat : x <= l /\ l <= y => scan[l].depth \in Nat /\ scan[l].depth >= d
  BY DEF Passes
<1>2. /\ scan[z] = At(d)
      /\ \A l \in Nat : y <= l /\ l <= z => scan[l].depth \in Nat /\ scan[l].depth >= d
  BY <1>1 DEF Passes
<1>3. \A l \in Nat : l <= y \/ y <= l
  OBVIOUS
<1> QED
  BY <1>1, <1>2, <1>3

LEMMA PassesNothing ==
  ASSUME NEW scan, NEW x \in Nat
  PROVE  Passes(scan, x, x)
<1> SUFFICES ASSUME NEW d \in Nat, scan[x] = At(d), NEW l \in Nat, x <= l, l <= x
             PROVE  scan[l].depth \in Nat /\ scan[l].depth >= d
  BY DEF Passes
<1>1. l = x
  OBVIOUS
<1> QED
  BY <1>1 DEF At

(* What the scan does not look at outside strings.                         *)
Quiet(char) == char \notin {"\"", "\\", "{", "}"}

LEMMA PassesQuiet ==
  ASSUME NEW scan, NEW t, NEW from \in Nat, Scans(scan, t, from),
         NEW x \in Nat, from <= x, Len(t) \in Nat, x < Len(t), Quiet(t[x + 1])
  PROVE  Passes(scan, x, x + 1)
<1>1. scan[x + 1] = Scanned(scan[x], t[x + 1], "{", "}")
  <2>1. x + 1 \in Nat /\ from < x + 1 /\ x + 1 <= Len(t) /\ (x + 1) - 1 = x
    OBVIOUS
  <2>2. scan[x + 1] = Scanned(scan[(x + 1) - 1], t[x + 1], "{", "}")
    BY <2>1 DEF Scans
  <2> QED
    BY <2>1, <2>2
<1>2. ASSUME NEW d \in Nat, scan[x] = At(d) PROVE scan[x + 1] = At(d)
  <2>1. ~scan[x].escape_next /\ ~scan[x].in_string
    BY <1>2 DEF At
  <2> QED
    BY <1>1, <1>2, <2>1 DEF Scanned, Quiet
<1>3. \A l \in Nat : x <= l /\ l <= x + 1 => l = x \/ l = x + 1
  OBVIOUS
<1>4. \A d \in Nat : At(d).depth = d
  BY DEF At
<1> QED
  BY <1>2, <1>3, <1>4 DEF Passes

IsBlank(t, x, y) == \A l \in Nat : x < l /\ l <= y => t[l] = "_"

LEMMA PassesBlank ==
  ASSUME NEW scan, NEW t, NEW from \in Nat, Scans(scan, t, from), Len(t) \in Nat,
         NEW x \in Nat, NEW y \in Nat, from <= x, x <= y, y <= Len(t),
         IsBlank(t, x, y)
  PROVE  Passes(scan, x, y)
<1> DEFINE stuck == {z \in Nat : x <= z /\ z <= y /\ ~Passes(scan, x, z)}
<1>1. stuck = {}
  <2> SUFFICES ASSUME stuck # {} PROVE FALSE
    OBVIOUS
  <2>1. \E z \in stuck : \A k \in stuck : z <= k
    BY LeastOf
  <2>2. PICK z \in stuck : \A k \in stuck : z <= k
    BY <2>1
  <2>3. ~Passes(scan, x, z)
    OBVIOUS
  <2>11. z \in Nat /\ x <= z /\ z <= y
    OBVIOUS
  <2>4. z # x
    <3>1. Passes(scan, x, x)
      BY PassesNothing
    <3> QED
      BY <2>3, <3>1
  <2> DEFINE w == z - 1
  <2>5. /\ w \in Nat /\ x <= w /\ w <= y /\ from <= w /\ w < Len(t) /\ w + 1 = z /\ w <= z
        /\ ~(z <= w) /\ x < z
    BY <2>4, <2>11
  <2> HIDE DEF w
  <2>6. Passes(scan, x, w)
    <3>1. w \notin stuck
      <4> HIDE DEF stuck
      <4> QED
        BY <2>2, <2>5
    <3> QED
      BY <2>5, <3>1
  <2> HIDE DEF stuck
  <2>7. Quiet(t[w + 1])
    <3>1. t[z] = "_"
      BY <2>5, <2>11 DEF IsBlank
    <3>2. Quiet("_")
      BY DEF Quiet
    <3> QED
      BY <2>5, <3>1, <3>2
  <2>8. Passes(scan, w, w + 1)
    BY <2>5, <2>7, PassesQuiet
  <2>9. Passes(scan, w, z)
    BY <2>5, <2>8
  <2>10. Passes(scan, x, z)
    BY <2>5, <2>6, <2>9, <2>11, PassesOn
  <2> QED
    BY <2>3, <2>10
<1>2. x <= y /\ y <= y
  OBVIOUS
<1> QED
  BY <1>1, <1>2

-----------------------------------------------------------------------------
(* Windows of a text: what is behind place x up to place y.                *)
Window(t, x, y) == SubSeq(t, x + 1, y)

LEMMA WindowIs ==
  ASSUME NEW t \in Seq(STRING), NEW x \in Nat, NEW y \in Nat, x <= y, y <= Len(t)
  PROVE  /\ Window(t, x, y) \in Seq(STRING)
         /\ Len(Window(t, x, y)) = y - x
         /\ DOMAIN Window(t, x, y) = 1 .. y - x
         /\ \A k \in 1 .. y - x : Window(t, x, y)[k] = t[x + k]
<1>1. Len(t) \in Nat
  OBVIOUS
<1>2. \A i \in x + 1 .. y : t[i] \in STRING
  BY <1>1
<1>3. /\ Window(t, x, y) \in Seq(STRING)
      /\ Len(Window(t, x, y)) = IF x + 1 <= y THEN y - (x + 1) + 1 ELSE 0
      /\ \A i \in 1 .. y - (x + 1) + 1 : Window(t, x, y)[i] = t[x + 1 + i - 1]
  BY <1>1, <1>2, SubSeqProperties DEF Window
<1>4. Len(Window(t, x, y)) = y - x
  BY <1>3
<1>5. DOMAIN Window(t, x, y) = 1 .. Len(Window(t, x, y))
  BY <1>3
<1>6. ASSUME NEW k \in 1 .. y - x PROVE Window(t, x, y)[k] = t[x + k]
  <2>1. k \in 1 .. y - (x + 1) + 1 /\ x + 1 + k - 1 = x + k
    OBVIOUS
  <2> QED
    BY <1>3, <2>1
<1> QED
  BY <1>3, <1>4, <1>5, <1>6

\* SubSeq, for the provers a symbol of its own.
Part(s, i, j) == SubSeq(s, i, j)

LEMMA WindowOfWindow ==
  ASSUME NEW t \in Seq(STRING), NEW x \in Nat, NEW y \in Nat, x <= y, y <= Len(t),
         NEW a \in Nat, NEW b \in Nat, a <= b, b <= y - x
  PROVE  /\ Part(Window(t, x, y), a + 1, b) = Window(t, x + a, x + b)
         /\ x + a \in Nat /\ x + b \in Nat /\ x <= x + a /\ x + a <= x + b /\ x + b <= y
         /\ x + b <= Len(t)
<1> DEFINE w == Window(t, x, y)
           u == Window(w, a, b)
           v == Window(t, x + a, x + b)
<1>1. /\ x + a \in Nat /\ x + b \in Nat /\ x <= x + a /\ x + a <= x + b /\ x + b <= y
      /\ x + b <= Len(t) /\ Len(t) \in Nat /\ (x + b) - (x + a) = b - a
  OBVIOUS
<1>2. /\ w \in Seq(STRING) /\ Len(w) = y - x
      /\ \A k \in 1 .. y - x : w[k] = t[x + k]
  BY WindowIs
<1> HIDE DEF w
<1>3. /\ u \in Seq(STRING) /\ Len(u) = b - a /\ \A k \in 1 .. b - a : u[k] = w[a + k]
  BY <1>2, WindowIs
<1>4. /\ v \in Seq(STRING) /\ Len(v) = b - a /\ \A k \in 1 .. b - a : v[k] = t[x + a + k]
  <2> DEFINE p == x + a
             q == x + b
  <2>1. p \in Nat /\ q \in Nat /\ p <= q /\ q <= Len(t) /\ q - p = b - a
    BY <1>1
  <2> HIDE DEF p, q
  <2>2. /\ Window(t, p, q) \in Seq(STRING) /\ Len(Window(t, p, q)) = q - p
        /\ \A k \in 1 .. q - p : Window(t, p, q)[k] = t[p + k]
    BY <2>1, WindowIs
  <2> QED
    BY <2>1, <2>2 DEF p, q
<1> HIDE DEF u, v
<1>5. ASSUME NEW k \in 1 .. b - a PROVE u[k] = v[k]
  <2>1. a + k \in 1 .. y - x /\ x + (a + k) = x + a + k
    OBVIOUS
  <2> QED
    BY <1>2, <1>3, <1>4, <2>1
<1>6. u = v
  BY <1>3, <1>4, <1>5, SeqEqual
<1> QED
  BY <1>1, <1>6 DEF u, v, w, Window, Part

LEMMA WindowAt ==
  ASSUME NEW t \in Seq(STRING), NEW x \in Nat, NEW y \in Nat, x <= y, y <= Len(t),
         NEW u \in Nat, NEW v \in Nat, x <= u, u <= v, v <= y
  PROVE  Part(Window(t, x, y), u - x + 1, v - x) = Window(t, u, v)
<1> DEFINE a == u - x
           b == v - x
<1>1. a \in Nat /\ b \in Nat /\ a <= b /\ b <= y - x /\ x + a = u /\ x + b = v
  OBVIOUS
<1> HIDE DEF a, b
<1>2. Part(Window(t, x, y), a + 1, b) = Window(t, x + a, x + b)
  BY <1>1, WindowOfWindow
<1> QED
  BY <1>1, <1>2 DEF a, b

-----------------------------------------------------------------------------
(* Strings.                                                                *)
LEMMA ScannedIs ==
  ASSUME NEW d \in Nat
  PROVE  /\ Scanned(At(d), "\"", "{", "}") = Within(d, FALSE)
         /\ Scanned(At(d), "{", "{", "}") = At(d + 1)
         /\ Scanned(At(d + 1), "}", "{", "}") = At(d)
         /\ \A c : Quiet(c) => Scanned(At(d), c, "{", "}") = At(d)
         /\ \A c : Scanned(Within(d, TRUE), c, "{", "}") = Within(d, FALSE)
         /\ Scanned(Within(d, FALSE), "\\", "{", "}") = Within(d, TRUE)
         /\ Scanned(Within(d, FALSE), "\"", "{", "}") = At(d)
         /\ \A c : c # "\\" /\ c # "\"" => Scanned(Within(d, FALSE), c, "{", "}") = Within(d, FALSE)
<1>1. Scanned(At(d), "\"", "{", "}") = Within(d, FALSE)
  BY DEF Scanned, At, Within
<1>2. Scanned(At(d), "{", "{", "}") = At(d + 1)
  BY DEF Scanned, At
<1>3. Scanned(At(d + 1), "}", "{", "}") = At(d)
  <2>1. Scanned(At(d + 1), "}", "{", "}") = [At(d + 1) EXCEPT !.depth = @ - 1]
    BY DEF Scanned, At
  <2>2. (d + 1) - 1 = d
    OBVIOUS
  <2> QED
    BY <2>1, <2>2 DEF At
<1>4. \A c : Quiet(c) => Scanned(At(d), c, "{", "}") = At(d)
  BY DEF Scanned, At, Quiet
<1>5. \A c : Scanned(Within(d, TRUE), c, "{", "}") = Within(d, FALSE)
  BY DEF Scanned, Within
<1>6. Scanned(Within(d, FALSE), "\\", "{", "}") = Within(d, TRUE)
  BY DEF Scanned, Within
<1>7. Scanned(Within(d, FALSE), "\"", "{", "}") = At(d)
  BY DEF Scanned, Within, At
<1>8. \A c : c # "\\" /\ c # "\"" => Scanned(Within(d, FALSE), c, "{", "}") = Within(d, FALSE)
  BY DEF Scanned, Within
<1> QED
  BY <1>1, <1>2, <1>3, <1>4, <1>5, <1>6, <1>7, <1>8

(* The backslashes before k start at m.                                    *)
Slash(t, l) == t[l] = "\\"
RunFrom(t, k, first, m) ==
  /\ first <= m /\ m <= k
  /\ \A l \in Nat : m <= l /\ l < k => Slash(t, l)
  /\ m > first => ~Slash(t, m - 1)

LEMMA RunsStart ==
  ASSUME NEW t, NEW first \in Nat, NEW k \in Nat, first <= k
  PROVE  \E m \in Nat : RunFrom(t, k, first, m)
<1> DEFINE S == {m \in Nat : /\ first <= m /\ m <= k
                             /\ \A l \in Nat : m <= l /\ l < k => Slash(t, l)}
<1>1. k \in S
  OBVIOUS
<1>2. PICK m \in S : \A y \in S : m <= y
  <2>1. S \subseteq Nat /\ S # {}
    BY <1>1
  <2> HIDE DEF S
  <2> QED
    BY <2>1, LeastOf
<1>3. m \in Nat /\ first <= m /\ m <= k /\ \A l \in Nat : m <= l /\ l < k => Slash(t, l)
  OBVIOUS
<1>4. ASSUME m > first PROVE ~Slash(t, m - 1)
  <2> SUFFICES ASSUME Slash(t, m - 1) PROVE FALSE
    OBVIOUS
  <2> DEFINE p == m - 1
  <2>1. p \in Nat /\ first <= p /\ p <= k /\ p + 1 = m /\ ~(m <= p)
    BY <1>3, <1>4
  <2>2. Slash(t, p)
    OBVIOUS
  <2> HIDE DEF p
  <2>3. \A l \in Nat : p <= l /\ l < k => l = p \/ (m <= l /\ l < k)
    BY <2>1
  <2>4. p \in S
    BY <1>3, <2>1, <2>2, <2>3
  <2> HIDE DEF S
  <2> QED
    BY <1>2, <2>1, <2>4
<1> QED
  BY <1>3, <1>4 DEF RunFrom

LEMMA RunsStartOnce ==
  ASSUME NEW t, NEW first \in Nat, NEW k \in Nat, NEW m \in Nat, NEW p \in Nat,
         RunFrom(t, k, first, m), RunFrom(t, k, first, p)
  PROVE  m = p
<1>1. ASSUME NEW a \in Nat, NEW b \in Nat, a < b,
             RunFrom(t, k, first, a), RunFrom(t, k, first, b)
      PROVE  FALSE
  <2>1. first <= a /\ b <= k
    BY <1>1 DEF RunFrom
  <2>2. b - 1 \in Nat /\ a <= b - 1 /\ b - 1 < k /\ b > first
    BY <1>1, <2>1
  <2>3. Slash(t, b - 1)
    BY <1>1, <2>2 DEF RunFrom
  <2>4. ~Slash(t, b - 1)
    BY <1>1, <2>2 DEF RunFrom
  <2> QED
    BY <2>3, <2>4
<1>2. m < p \/ p < m \/ m = p
  OBVIOUS
<1> QED
  BY <1>1, <1>2

LEMMA EscapedByRun ==
  ASSUME NEW t, NEW first \in Nat, NEW k \in Nat, NEW m \in Nat, RunFrom(t, k, first, m)
  PROVE  Escaped(t, k, first) <=> (k - m) % 2 = 1
<1>1. first <= m /\ m <= k
  BY DEF RunFrom
<1>2. ASSUME (k - m) % 2 = 1 PROVE Escaped(t, k, first)
  <2> DEFINE n == k - m
  <2>1. n \in 1 .. k - first /\ k - n = m /\ n % 2 = 1
    BY <1>1, <1>2
  <2> HIDE DEF n
  <2>2. \A l \in m .. k - 1 : Slash(t, l)
    BY <1>1 DEF RunFrom
  <2>3. m > first => ~Slash(t, m - 1)
    BY DEF RunFrom
  <2>4. /\ \A l \in k - n .. k - 1 : t[l] = "\\"
        /\ k - n > first => t[k - n - 1] # "\\"
    BY <2>1, <2>2, <2>3 DEF Slash
  <2> QED
    BY <2>1, <2>4 DEF Escaped
<1>3. ASSUME Escaped(t, k, first) PROVE (k - m) % 2 = 1
  <2>1. PICK n \in 1 .. k - first :
          /\ n % 2 = 1
          /\ \A l \in k - n .. k - 1 : t[l] = "\\"
          /\ k - n > first => t[k - n - 1] # "\\"
    BY <1>3 DEF Escaped
  <2> DEFINE p == k - n
  <2>2. p \in Nat /\ first <= p /\ p <= k /\ k - p = n
    BY <1>1
  <2>3. /\ \A l \in p .. k - 1 : Slash(t, l)
        /\ p > first => ~Slash(t, p - 1)
    BY <2>1 DEF Slash
  <2> HIDE DEF p
  <2>4. \A l \in Nat : p <= l /\ l < k => l \in p .. k - 1
    BY <2>2
  <2>5. RunFrom(t, k, first, p)
    BY <2>2, <2>3, <2>4 DEF RunFrom
  <2>6. p = m
    BY <2>2, <2>5, RunsStartOnce
  <2> QED
    BY <2>1, <2>2, <2>6
<1> QED
  BY <1>2, <1>3

(* What escapes the next character.                                        *)
LEMMA EscapedNext ==
  ASSUME NEW t, NEW first \in Nat, NEW k \in Nat, first <= k
  PROVE  Escaped(t, k + 1, first) <=> (Slash(t, k) /\ ~Escaped(t, k, first))
<1>1. PICK m \in Nat : RunFrom(t, k, first, m)
  BY RunsStart
<1>2. first <= m /\ m <= k
  BY <1>1 DEF RunFrom
<1>3. CASE Slash(t, k)
  <2>1. \A l \in Nat : m <= l /\ l < k + 1 => l = k \/ (m <= l /\ l < k)
    BY <1>2
  <2>2. m <= k + 1
    BY <1>2
  <2>3. RunFrom(t, k + 1, first, m)
    BY <1>1, <1>2, <1>3, <2>1, <2>2 DEF RunFrom
  <2>4. Escaped(t, k + 1, first) <=> (k + 1 - m) % 2 = 1
    BY <2>3, EscapedByRun
  <2>5. Escaped(t, k, first) <=> (k - m) % 2 = 1
    BY <1>1, EscapedByRun
  <2>6. (k + 1 - m) % 2 = 1 <=> ~((k - m) % 2 = 1)
    BY <1>2
  <2> QED
    BY <1>3, <2>4, <2>5, <2>6
<1>4. CASE ~Slash(t, k)
  <2>1. RunFrom(t, k + 1, first, k + 1)
    <3>1. \A l \in Nat : ~(k + 1 <= l /\ l < k + 1)
      OBVIOUS
    <3>2. first <= k + 1 /\ k + 1 <= k + 1 /\ (k + 1) - 1 = k
      OBVIOUS
    <3> QED
      BY <1>4, <3>1, <3>2 DEF RunFrom
  <2>2. Escaped(t, k + 1, first) <=> ((k + 1) - (k + 1)) % 2 = 1
    BY <2>1, EscapedByRun
  <2>3. ~(((k + 1) - (k + 1)) % 2 = 1)
    OBVIOUS
  <2> QED
    BY <1>4, <2>2, <2>3
<1> QED
  BY <1>3, <1>4

(* One character of the scan, behind a place.                              *)
LEMMA ScansOne ==
  ASSUME NEW scan, NEW t, NEW from \in Nat, Scans(scan, t, from), Len(t) \in Nat,
         NEW x \in Nat, from <= x, x < Len(t)
  PROVE  scan[x + 1] = Scanned(scan[x], t[x + 1], "{", "}")
<1>1. x + 1 \in Nat /\ from < x + 1 /\ x + 1 <= Len(t) /\ (x + 1) - 1 = x
  OBVIOUS
<1>2. scan[x + 1] = Scanned(scan[(x + 1) - 1], t[x + 1], "{", "}")
  BY <1>1 DEF Scans
<1> QED
  BY <1>1, <1>2

LEMMA StringIs ==
  ASSUME NEW w, Len(w) \in Nat, IsString(w)
  PROVE  /\ Len(w) >= 2 /\ w[1] = "\"" /\ w[Len(w)] = "\"" /\ ~Escaped(w, Len(w), 2)
         /\ \A k \in 2 .. Len(w) - 1 : w[k] = "\"" => Escaped(w, k, 2)
  BY DEF IsString

(* Inside a string the scan knows what is escaped.                         *)
LEMMA WithinString ==
  ASSUME NEW scan, NEW t \in Seq(STRING), NEW from \in Nat, Scans(scan, t, from),
         NEW x \in Nat, NEW y \in Nat, from <= x, x <= y, y <= Len(t),
         IsString(Window(t, x, y)), NEW d \in Nat, scan[x] = At(d),
         NEW k \in Nat, 1 <= k, k < y - x
  PROVE  scan[x + k] = Within(d, Escaped(Window(t, x, y), k + 1, 2))
<1> DEFINE w == Window(t, x, y)
           Right(i) == scan[x + i] = Within(d, Escaped(w, i + 1, 2))
           wrong == {i \in Nat : 1 <= i /\ i < y - x /\ ~Right(i)}
<1>1. /\ Len(w) = y - x /\ \A i \in 1 .. y - x : w[i] = t[x + i]
  BY WindowIs
<1>2. Len(t) \in Nat /\ y - x \in Nat
  BY SeqDomain
<1>3. /\ y - x >= 2 /\ w[1] = "\"" /\ \A i \in 2 .. y - x - 1 : w[i] = "\"" => Escaped(w, i, 2)
  <2>1. IsString(w) /\ Len(w) \in Nat
    BY <1>1, <1>2
  <2> HIDE DEF w
  <2> QED
    BY <1>1, <2>1, StringIs
<1>4. \A i \in Nat : i < y - x => scan[x + i + 1] = Scanned(scan[x + i], w[i + 1], "{", "}")
  <2> SUFFICES ASSUME NEW i \in Nat, i < y - x
               PROVE  scan[x + i + 1] = Scanned(scan[x + i], w[i + 1], "{", "}")
    OBVIOUS
  <2> DEFINE z == x + i
  <2>1. z \in Nat /\ from <= z /\ z < Len(t) /\ i + 1 \in 1 .. y - x /\ x + (i + 1) = z + 1
    BY <1>2
  <2> HIDE DEF w, z
  <2>2. scan[z + 1] = Scanned(scan[z], t[z + 1], "{", "}")
    BY <1>2, <2>1, ScansOne
  <2>3. w[i + 1] = t[z + 1]
    BY <1>1, <2>1
  <2> QED
    BY <2>2, <2>3 DEF z
<1> HIDE DEF w
<1>5. Right(1)
  <2>1. scan[x + 1] = Scanned(scan[x], w[1], "{", "}")
    <3>3. y - x >= 2
      BY <1>3
    <3>4. 0 \in Nat /\ 0 < y - x
      BY <1>2, <3>3
    <3>1. scan[x + 0 + 1] = Scanned(scan[x + 0], w[0 + 1], "{", "}")
      BY <1>4, <3>4
    <3>2. x + 0 + 1 = x + 1 /\ x + 0 = x /\ 0 + 1 = 1
      OBVIOUS
    <3> QED
      BY <3>1, <3>2
  <2>2. scan[x + 1] = Within(d, FALSE)
    BY <1>3, <2>1, ScannedIs
  <2>3. Escaped(w, 1 + 1, 2) = FALSE
    BY DEF Escaped
  <2> QED
    BY <2>2, <2>3
<1>6. ASSUME NEW j \in Nat, 1 <= j, j + 1 < y - x, Right(j) PROVE Right(j + 1)
  <2> DEFINE i == j + 1
  <2>1. i \in Nat /\ i \in 2 .. y - x - 1 /\ x + j + 1 = x + i /\ 2 <= i /\ j < y - x
    BY <1>2, <1>6
  <2>2. scan[x + i] = Scanned(Within(d, Escaped(w, i, 2)), w[i], "{", "}")
    <3>1. scan[x + j] = Within(d, Escaped(w, i, 2))
      BY <1>6
    <3>2. scan[x + j + 1] = Scanned(scan[x + j], w[j + 1], "{", "}")
      BY <1>4, <2>1
    <3> QED
      BY <2>1, <3>1, <3>2
  <2> HIDE DEF i
  <2>3. Escaped(w, i + 1, 2) <=> (w[i] = "\\" /\ ~Escaped(w, i, 2))
    BY <2>1, EscapedNext DEF Slash
  <2>4. Escaped(w, i, 2) \in BOOLEAN /\ Escaped(w, i + 1, 2) \in BOOLEAN
    BY DEF Escaped
  <2>5. CASE Escaped(w, i, 2)
    <3>1. Escaped(w, i, 2) = TRUE /\ Escaped(w, i + 1, 2) = FALSE
      BY <2>3, <2>4, <2>5
    <3> QED
      BY <2>2, <3>1, ScannedIs DEF i
  <2>6. CASE ~Escaped(w, i, 2) /\ w[i] = "\\"
    <3>1. Escaped(w, i, 2) = FALSE /\ Escaped(w, i + 1, 2) = TRUE
      BY <2>3, <2>4, <2>6
    <3> QED
      BY <2>2, <2>6, <3>1, ScannedIs DEF i
  <2>7. CASE ~Escaped(w, i, 2) /\ w[i] # "\\"
    <3>1. Escaped(w, i, 2) = FALSE /\ Escaped(w, i + 1, 2) = FALSE
      BY <2>3, <2>4, <2>7
    <3>2. w[i] # "\""
      BY <1>3, <2>1, <2>7
    <3> QED
      BY <2>2, <2>7, <3>1, <3>2, ScannedIs DEF i
  <2> QED
    BY <2>5, <2>6, <2>7
<1> HIDE DEF Right
<1>7. wrong = {}
  <2> SUFFICES ASSUME wrong # {} PROVE FALSE
    OBVIOUS
  <2>1. \E i \in wrong : \A z \in wrong : i <= z
    BY LeastOf
  <2>2. PICK i \in wrong : \A z \in wrong : i <= z
    BY <2>1
  <2>3. ~Right(i)
    OBVIOUS
  <2>4. i \in Nat /\ 1 <= i /\ i < y - x
    OBVIOUS
  <2>5. i # 1
    BY <1>5, <2>3
  <2> DEFINE j == i - 1
  <2>6. j \in Nat /\ 1 <= j /\ j < y - x /\ j + 1 = i /\ j + 1 < y - x /\ ~(i <= j)
    BY <1>2, <2>4, <2>5
  <2> HIDE DEF j
  <2>7. Right(j)
    <3>1. j \notin wrong
      <4> HIDE DEF wrong
      <4> QED
        BY <2>2, <2>6
    <3> QED
      BY <2>6, <3>1
  <2>8. Right(j + 1)
    BY <1>6, <2>6, <2>7
  <2> QED
    BY <2>3, <2>6, <2>8
<1>8. Right(k)
  BY <1>7
<1> QED
  BY <1>8 DEF Right, w

LEMMA PassesString ==
  ASSUME NEW scan, NEW t \in Seq(STRING), NEW from \in Nat, Scans(scan, t, from),
         NEW x \in Nat, NEW y \in Nat, from <= x, x <= y, y <= Len(t),
         IsString(Window(t, x, y))
  PROVE  Passes(scan, x, y)
<1> SUFFICES ASSUME NEW d \in Nat, scan[x] = At(d)
             PROVE  /\ scan[y] = At(d)
                    /\ \A l \in Nat : x <= l /\ l <= y =>
                         scan[l].depth \in Nat /\ scan[l].depth >= d
  BY DEF Passes
<1> DEFINE w == Window(t, x, y)
<1>1. /\ Len(w) = y - x /\ \A i \in 1 .. y - x : w[i] = t[x + i]
  BY WindowIs
<1>2. Len(t) \in Nat /\ y - x \in Nat
  BY SeqDomain
<1>3. y - x >= 2 /\ w[y - x] = "\"" /\ ~Escaped(w, y - x, 2)
  <2>1. IsString(w) /\ Len(w) \in Nat
    BY <1>1, <1>2
  <2> HIDE DEF w
  <2> QED
    BY <1>1, <2>1, StringIs
<1>4. \A k \in Nat : 1 <= k /\ k < y - x => scan[x + k] = Within(d, Escaped(w, k + 1, 2))
  BY WithinString
<1> HIDE DEF w
<1>5. scan[y] = At(d)
  <2> DEFINE k == y - x - 1
             z == x + k
  <2>1. /\ k \in Nat /\ 1 <= k /\ k < y - x /\ k + 1 = y - x /\ z \in Nat
        /\ z + 1 = y /\ from <= z /\ z < Len(t) /\ y - x \in 1 .. y - x /\ x + (y - x) = y
    <3>1. y - x >= 2
      BY <1>3
    <3> QED
      BY <1>2, <3>1
  <2>2. Escaped(w, k + 1, 2) = FALSE
    <3>1. Escaped(w, y - x, 2) \in BOOLEAN
      BY DEF Escaped
    <3>2. Escaped(w, y - x, 2) = FALSE
      BY <1>3, <3>1
    <3> HIDE DEF k
    <3> QED
      BY <2>1, <3>2
  <2> HIDE DEF k
  <2>3. scan[z] = Within(d, FALSE)
    BY <1>4, <2>1, <2>2
  <2> HIDE DEF z
  <2>4. scan[z + 1] = Scanned(scan[z], t[z + 1], "{", "}")
    BY <1>2, <2>1, ScansOne
  <2>5. t[z + 1] = "\""
    BY <1>1, <1>3, <2>1
  <2> QED
    BY <2>1, <2>3, <2>4, <2>5, ScannedIs
<1>6. ASSUME NEW l \in Nat, x <= l, l <= y
      PROVE  scan[l].depth = d
  <2>1. CASE l = x
    BY <2>1 DEF At
  <2>2. CASE l = y
    BY <1>5, <2>2 DEF At
  <2>3. CASE l # x /\ l # y
    <3> DEFINE k == l - x
    <3>1. k \in Nat /\ 1 <= k /\ k < y - x /\ x + k = l
      BY <1>6, <2>3
    <3> HIDE DEF k
    <3>2. scan[x + k] = Within(d, Escaped(w, k + 1, 2))
      BY <1>4, <3>1
    <3> QED
      BY <3>1, <3>2 DEF Within
  <2> QED
    BY <2>1, <2>2, <2>3
<1>7. ASSUME NEW l \in Nat, x <= l, l <= y
      PROVE  scan[l].depth \in Nat /\ scan[l].depth >= d
  BY <1>6, <1>7
<1> QED
  BY <1>5, <1>7

-----------------------------------------------------------------------------
(* Texts of the grammar.                                                   *)
LEMMA StripWindow ==
  ASSUME NEW t \in Seq(STRING), NEW x \in Nat, NEW y \in Nat, x <= y, y <= Len(t)
  PROVE  \/ IsBlank(t, x, y)
         \/ \E a, b \in Nat : /\ x <= a /\ a < b /\ b <= y
                              /\ Strip(Window(t, x, y)) = Window(t, a, b)
                              /\ IsBlank(t, x, a) /\ IsBlank(t, b, y)
<1> DEFINE w == Window(t, x, y)
           solid == {i \in DOMAIN w : w[i] # "_"}
<1>1. /\ w \in Seq(STRING) /\ Len(w) = y - x /\ DOMAIN w = 1 .. y - x
      /\ \A i \in 1 .. y - x : w[i] = t[x + i]
  BY WindowIs
<1>2. Len(t) \in Nat /\ y - x \in Nat
  BY SeqDomain
<1> HIDE DEF w
<1>3. ASSUME NEW l \in Nat, x < l, l <= y, l - x \notin solid
      PROVE  t[l] = "_"
  <2>1. l - x \in 1 .. y - x /\ x + (l - x) = l
    <3> HIDE DEF solid
    <3> QED
      BY <1>3
  <2>2. w[l - x] = "_"
    BY <1>1, <1>3, <2>1
  <2> QED
    BY <1>1, <2>1, <2>2
<1>4. CASE solid = {}
  BY <1>3, <1>4 DEF IsBlank
<1>5. CASE solid # {}
  <2> DEFINE p == Min(solid)
             q == Max(solid)
  <2>1. solid \subseteq 1 .. y - x /\ solid \subseteq Nat
    <3>1. solid \subseteq DOMAIN w
      OBVIOUS
    <3> HIDE DEF solid
    <3> QED
      BY <1>1, <3>1
  <2>2. Strip(w) = SubSeq(w, p, q)
    BY <1>5 DEF Strip
  <2> HIDE DEF solid
  <2>3. p \in solid /\ \A i \in solid : p <= i
    BY <1>5, <2>1, LeastOf
  <2>4. q \in solid /\ \A i \in solid : i <= q
    BY <1>2, <1>5, <2>1, GreatestOf
  <2> HIDE DEF p, q
  <2>5. /\ p \in Nat /\ q \in Nat /\ 1 <= p /\ p <= q /\ q <= y - x
    BY <2>1, <2>3, <2>4
  <2> DEFINE m == p - 1
             a == x + m
             b == x + q
  <2>6. m \in Nat /\ m <= q /\ m + 1 = p /\ m < q
    BY <2>5
  <2>7. /\ a \in Nat /\ b \in Nat /\ x <= a /\ a < b /\ b <= y
    BY <1>2, <2>5, <2>6
  <2>8. SubSeq(w, m + 1, q) = Window(t, a, b)
    <3>1. a <= b /\ b - x = q /\ a - x + 1 = m + 1
      BY <2>5, <2>6
    <3> HIDE DEF m, a, b
    <3>2. Part(Window(t, x, y), a - x + 1, b - x) = Window(t, a, b)
      BY <2>7, <3>1, WindowAt
    <3>3. Part(w, m + 1, q) = Window(t, a, b)
      BY <3>1, <3>2 DEF w
    <3> QED
      BY <3>3 DEF Part
  <2>9. \A l \in Nat : x < l /\ l <= a => ~(p <= l - x)
    BY <2>5
  <2>10. \A l \in Nat : b < l /\ l <= y => ~(l - x <= q)
    BY <2>5
  <2>11. IsBlank(t, x, a)
    <3> SUFFICES ASSUME NEW l \in Nat, x < l, l <= a PROVE t[l] = "_"
      BY DEF IsBlank
    <3>1. l - x \notin solid
      BY <2>3, <2>9
    <3>2. l <= y
      BY <2>7
    <3> QED
      BY <1>3, <3>1, <3>2
  <2>12. IsBlank(t, b, y)
    <3> SUFFICES ASSUME NEW l \in Nat, b < l, l <= y PROVE t[l] = "_"
      BY DEF IsBlank
    <3>1. l - x \notin solid
      BY <2>4, <2>10
    <3>2. x < l
      BY <2>7
    <3> QED
      BY <1>3, <3>1, <3>2
  <2>13. Strip(Window(t, x, y)) = Window(t, a, b)
    <3> HIDE DEF a, b
    <3> QED
      BY <2>2, <2>6, <2>8 DEF w, m
  <2> HIDE DEF a, b
  <2> QED
    BY <2>7, <2>11, <2>12, <2>13
<1> QED
  BY <1>4, <1>5

(* Space around what passes passes too.                                    *)
LEMMA PassesStripped ==
  ASSUME NEW scan, NEW t \in Seq(STRING), NEW from \in Nat, Scans(scan, t, from),
         NEW x \in Nat, NEW y \in Nat, from <= x, x <= y, y <= Len(t),
         \A a, b \in Nat : /\ x <= a /\ a < b /\ b <= y
                           /\ Strip(Window(t, x, y)) = Window(t, a, b)
                           => Passes(scan, a, b)
  PROVE  Passes(scan, x, y)
<1>1. Len(t) \in Nat
  BY SeqDomain
<1>2. CASE IsBlank(t, x, y)
  BY <1>1, <1>2, PassesBlank
<1>3. ASSUME NEW a \in Nat, NEW b \in Nat, x <= a, a < b, b <= y,
             Strip(Window(t, x, y)) = Window(t, a, b), IsBlank(t, x, a), IsBlank(t, b, y)
      PROVE  Passes(scan, x, y)
  <2>1. from <= b /\ a <= b /\ a <= Len(t) /\ b <= Len(t) /\ x <= b
    BY <1>1, <1>3
  <2>2. Passes(scan, x, a)
    BY <1>1, <1>3, <2>1, PassesBlank
  <2>3. Passes(scan, b, y)
    BY <1>1, <1>3, <2>1, PassesBlank
  <2>4. Passes(scan, a, b)
    BY <1>3
  <2>5. Passes(scan, x, b)
    BY <1>3, <2>1, <2>2, <2>4, PassesOn
  <2> QED
    BY <1>3, <2>1, <2>3, <2>5, PassesOn
<1> QED
  BY <1>2, <1>3, StripWindow

(* What passes on both sides of a character outside strings.               *)
LEMMA PassesBeside ==
  ASSUME NEW scan, NEW t, NEW from \in Nat, Scans(scan, t, from), Len(t) \in Nat,
         NEW x \in Nat, NEW p \in Nat, NEW y \in Nat, from <= x, x <= p, p < y, y <= Len(t),
         Passes(scan, x, p), Quiet(t[p + 1]), Passes(scan, p + 1, y)
  PROVE  Passes(scan, x, y)
<1>1. /\ from <= p /\ p < Len(t) /\ p + 1 \in Nat /\ p <= p + 1 /\ p + 1 <= y /\ x <= p + 1
  OBVIOUS
<1>2. Passes(scan, p, p + 1)
  BY <1>1, PassesQuiet
<1>3. Passes(scan, x, p + 1)
  BY <1>1, <1>2, PassesOn
<1> QED
  BY <1>1, <1>3, PassesOn

(* Braces around what passes.                                              *)
Opens(t, p) == t[p] = "{"
Closes(t, p) == t[p] = "}"

LEMMA BracesPass ==
  ASSUME NEW scan, NEW t, NEW from \in Nat, Scans(scan, t, from), Len(t) \in Nat,
         NEW x \in Nat, NEW p \in Nat, from <= x, x + 1 <= p, p < Len(t),
         Opens(t, x + 1), Passes(scan, x + 1, p), Closes(t, p + 1)
  PROVE  /\ Passes(scan, x, p + 1)
         /\ \A d \in Nat : scan[x] = At(d) =>
              \A l \in Nat : x + 1 <= l /\ l <= p =>
                scan[l].depth \in Nat /\ scan[l].depth >= d + 1
<1>1. x < Len(t) /\ from <= p /\ x <= p
  OBVIOUS
<1>2. /\ scan[x + 1] = Scanned(scan[x], "{", "{", "}")
      /\ scan[p + 1] = Scanned(scan[p], "}", "{", "}")
  <2>1. /\ scan[x + 1] = Scanned(scan[x], t[x + 1], "{", "}")
        /\ scan[p + 1] = Scanned(scan[p], t[p + 1], "{", "}")
    BY <1>1, ScansOne
  <2> QED
    BY <2>1 DEF Opens, Closes
<1>3. ASSUME NEW d \in Nat, scan[x] = At(d)
      PROVE  /\ scan[p + 1] = At(d)
             /\ \A l \in Nat : x + 1 <= l /\ l <= p =>
                  scan[l].depth \in Nat /\ scan[l].depth >= d + 1
  <2> DEFINE e == d + 1
  <2>1. scan[x + 1] = At(e)
    BY <1>2, <1>3, ScannedIs
  <2>2. e \in Nat
    OBVIOUS
  <2> HIDE DEF e
  <2>3. /\ scan[p] = At(e)
        /\ \A l \in Nat : x + 1 <= l /\ l <= p =>
             scan[l].depth \in Nat /\ scan[l].depth >= e
    BY <2>1, <2>2 DEF Passes
  <2>4. scan[p + 1] = At(d)
    BY <1>2, <2>3, ScannedIs DEF e
  <2> QED
    BY <2>3, <2>4 DEF e
<1>4. Passes(scan, x, p + 1)
  <2> SUFFICES ASSUME NEW d \in Nat, scan[x] = At(d)
               PROVE  /\ scan[p + 1] = At(d)
                      /\ \A l \in Nat : x <= l /\ l <= p + 1 =>
                           scan[l].depth \in Nat /\ scan[l].depth >= d
    BY DEF Passes
  <2>1. \A l \in Nat : x <= l /\ l <= p + 1 =>
          l = x \/ (x + 1 <= l /\ l <= p) \/ l = p + 1
    OBVIOUS
  <2>2. At(d).depth = d
    BY DEF At
  <2>3. scan[p + 1] = At(d)
    BY <1>3
  <2>4. \A l \in Nat : x + 1 <= l /\ l <= p => scan[l].depth \in Nat /\ scan[l].depth >= d
    <3>1. \A l \in Nat : x + 1 <= l /\ l <= p => scan[l].depth \in Nat /\ scan[l].depth >= d + 1
      BY <1>3
    <3> QED
      BY <3>1
  <2>5. d >= d
    OBVIOUS
  <2> QED
    BY <2>1, <2>2, <2>3, <2>4, <2>5
<1> QED
  BY <1>3, <1>4

-----------------------------------------------------------------------------
(* A reading passes if all that it rests on do.                            *)
ReadingsPass(is, scan, t, x, y, what) ==
  \A w \in Whats, a, b \in Nat :
    /\ x <= a /\ a <= b /\ b <= y
    /\ b - a < y - x \/ (w = "value" /\ what # "value")
    /\ is[<<w, Window(t, a, b)>>]
    => Passes(scan, a, b)

LEMMA ColonPasses ==
  ASSUME NEW scan, NEW t \in Seq(STRING), NEW from \in Nat, Scans(scan, t, from),
         NEW is, NEW x \in Nat, NEW y \in Nat, from <= x, x <= y, y <= Len(t),
         \A a, b \in Nat : x < a /\ a <= b /\ b <= y /\ is[<<"value", Window(t, a, b)>>]
                           => Passes(scan, a, b),
         NEW k \in DOMAIN Window(t, x, y), Window(t, x, y)[k] = ":",
         IsString(Strip(SubSeq(Window(t, x, y), 1, k - 1))),
         is[<<"value", SubSeq(Window(t, x, y), k + 1, Len(Window(t, x, y)))>>]
  PROVE  Passes(scan, x, y)
<1> DEFINE w == Window(t, x, y)
           p == x + (k - 1)
           q == p + 1
<1>1. /\ k \in 1 .. y - x /\ Len(w) = y - x
      /\ \A i \in 1 .. y - x : w[i] = t[x + i]
  BY WindowIs
<1>2. Len(t) \in Nat
  BY SeqDomain
<1>3. /\ p \in Nat /\ q \in Nat /\ x <= p /\ p <= y /\ q <= y /\ x < q /\ from <= p /\ p < y
      /\ x - x + 1 = 1 /\ p - x = k - 1 /\ q - x + 1 = k + 1 /\ x + k = p + 1
      /\ p <= Len(t) /\ x <= q
  <2> HIDE DEF w
  <2>1. k \in Nat /\ 1 <= k /\ k <= y - x
    BY <1>1
  <2> QED
    BY <1>2, <2>1
<1> HIDE DEF p, q
<1>4. Part(w, 1, k - 1) = Window(t, x, p)
  <2>1. Part(w, x - x + 1, p - x) = Window(t, x, p)
    BY <1>3, WindowAt
  <2> QED
    BY <1>3, <2>1
<1>5. Part(w, k + 1, Len(w)) = Window(t, q, y)
  <2>1. Part(w, q - x + 1, y - x) = Window(t, q, y)
    BY <1>3, WindowAt
  <2> HIDE DEF w
  <2> QED
    BY <1>1, <1>3, <2>1
<1>6. Passes(scan, x, p)
  <2>1. IsString(Strip(Window(t, x, p)))
    <3>1. Part(w, 1, k - 1) = SubSeq(w, 1, k - 1)
      BY DEF Part
    <3> QED
      BY <1>4, <3>1
  <2>2. ASSUME NEW a \in Nat, NEW b \in Nat, x <= a, a < b, b <= p,
               Strip(Window(t, x, p)) = Window(t, a, b)
        PROVE  Passes(scan, a, b)
    <3>1. IsString(Window(t, a, b))
      BY <2>1, <2>2
    <3>2. from <= a /\ a <= b /\ b <= Len(t)
      BY <1>2, <1>3, <2>2
    <3> QED
      BY <3>1, <3>2, PassesString
  <2> QED
    BY <1>3, <2>2, PassesStripped
<1>7. Passes(scan, q, y)
  <2>1. is[<<"value", Window(t, q, y)>>]
    <3>1. Part(w, k + 1, Len(w)) = SubSeq(w, k + 1, Len(w))
      BY DEF Part
    <3> QED
      BY <1>5, <3>1
  <2> QED
    BY <1>3, <2>1
<1>8. Quiet(t[p + 1])
  <2>1. Quiet(":")
    BY DEF Quiet
  <2>2. t[x + k] = ":"
    BY <1>1
  <2> QED
    BY <1>3, <2>1, <2>2
<1> QED
  BY <1>2, <1>3, <1>6, <1>7, <1>8, PassesBeside DEF q

LEMMA InnerPasses ==
  ASSUME NEW scan, NEW t \in Seq(STRING), NEW from \in Nat, Scans(scan, t, from),
         NEW is, NEW w \in Whats, NEW a \in Nat, NEW b \in Nat, from <= a, b <= Len(t),
         \A u, v \in Nat : a < u /\ u <= v /\ v < b /\ is[<<w, Window(t, u, v)>>]
                           => Passes(scan, u, v),
         b - a >= 2,
         \/ Strip(Part(Window(t, a, b), 2, b - a - 1)) = <<>>
         \/ is[<<w, Part(Window(t, a, b), 2, b - a - 1)>>]
  PROVE  Passes(scan, a + 1, b - 1)
<1> DEFINE u == a + 1
           v == b - 1
<1>1. /\ Len(t) \in Nat /\ u \in Nat /\ v \in Nat /\ a < u /\ u <= v /\ v < b /\ v <= Len(t)
      /\ u - a + 1 = 2 /\ v - a = b - a - 1 /\ from <= u /\ a <= b /\ a <= u /\ v <= b
  BY SeqDomain
<1> HIDE DEF u, v
<1>2. Part(Window(t, a, b), 2, b - a - 1) = Window(t, u, v)
  <2>1. Part(Window(t, a, b), u - a + 1, v - a) = Window(t, u, v)
    BY <1>1, WindowAt
  <2> QED
    BY <1>1, <2>1
<1>3. CASE Strip(Window(t, u, v)) = <<>>
  <2>1. ASSUME NEW c \in Nat, NEW d \in Nat, u <= c, c < d, d <= v,
               Strip(Window(t, u, v)) = Window(t, c, d)
        PROVE  Passes(scan, c, d)
    <3>1. c <= d /\ d <= Len(t) /\ d - c # 0
      BY <1>1, <2>1
    <3>2. Len(Window(t, c, d)) = d - c
      BY <3>1, WindowIs
    <3>3. Len(Window(t, c, d)) = 0
      BY <1>3, <2>1
    <3> QED
      BY <3>1, <3>2, <3>3
  <2> QED
    BY <1>1, <2>1, PassesStripped
<1>4. CASE is[<<w, Window(t, u, v)>>]
  BY <1>1, <1>4
<1> QED
  BY <1>2, <1>3, <1>4 DEF u, v

LEMMA OneMorePasses ==
  ASSUME NEW scan, NEW t \in Seq(STRING), NEW from \in Nat, Scans(scan, t, from),
         NEW numerals, \A numeral \in numerals : Quiet(numeral),
         NEW is, NEW what \in Whats, NEW x \in Nat, NEW y \in Nat, from <= x, x <= y,
         y <= Len(t), ReadingsPass(is, scan, t, x, y, what),
         Reading(numerals, is, <<what, Window(t, x, y)>>)
  PROVE  Passes(scan, x, y)
<1> SUFFICES ASSUME NEW a \in Nat, NEW b \in Nat, x <= a, a < b, b <= y,
                    Strip(Window(t, x, y)) = Window(t, a, b)
             PROVE  Passes(scan, a, b)
  BY PassesStripped
<1> DEFINE s == Window(t, a, b)
           n == b - a
           inner == Part(s, 2, n - 1)
           Pair(q) == \E k \in DOMAIN q :
                        /\ q[k] = ":" /\ IsString(Strip(SubSeq(q, 1, k - 1)))
                        /\ is[<<"value", SubSeq(q, k + 1, Len(q))>>]
           Comma(k) == s[k] = ","
<1>1. Len(t) \in Nat /\ n \in Nat /\ n >= 1 /\ b <= Len(t) /\ a <= b /\ from <= a /\ a < Len(t)
  BY SeqDomain
<1>2. /\ s \in Seq(STRING) /\ Len(s) = n /\ \A k \in 1 .. n : s[k] = t[a + k]
  BY <1>1, WindowIs
<1>3. ASSUME NEW w \in Whats, NEW u \in Nat, NEW v \in Nat, a <= u, u <= v, v <= b,
             v - u < b - a \/ (w = "value" /\ what # "value"), is[<<w, Window(t, u, v)>>]
      PROVE  Passes(scan, u, v)
  <2>1. x <= u /\ v <= y /\ (v - u < b - a => v - u < y - x)
    BY <1>1, <1>3
  <2> QED
    BY <1>3, <2>1 DEF ReadingsPass
<1>4. \/ n = 1 /\ s[1] \in numerals
      \/ IsString(s)
      \/ n >= 2 /\ s[1] = "[" /\ s[n] = "]" /\ (Strip(inner) = <<>> \/ is[<<"items", inner>>])
      \/ n >= 2 /\ s[1] = "{" /\ s[n] = "}" /\ (Strip(inner) = <<>> \/ is[<<"members", inner>>])
      \/ what # "value" /\ is[<<"value", s>>]
      \/ what # "value" /\ Pair(s)
      \/ s = <<"m">>
      \/ \E k \in 2 .. n - 1 : /\ Comma(k)
                               /\ is[<<"value", Part(s, 1, k - 1)>>] \/ Pair(Part(s, 1, k - 1))
                               /\ \E w \in Whats : is[<<w, Part(s, k + 1, n)>>]
  <2>1. Strip(<<what, Window(t, x, y)>>[2]) = s /\ <<what, Window(t, x, y)>>[1] = what
    OBVIOUS
  <2> HIDE DEF s
  <2> QED
    BY <1>2, <2>1 DEF Reading, Part, Whats
<1> HIDE DEF Pair, Comma
<1>5. ASSUME NEW q, NEW u \in Nat, NEW v \in Nat, a <= u, u <= v, v <= b,
             q = Window(t, u, v), Pair(q)
      PROVE  Passes(scan, u, v)
  <2>1. PICK k \in DOMAIN q :
          /\ q[k] = ":" /\ IsString(Strip(SubSeq(q, 1, k - 1)))
          /\ is[<<"value", SubSeq(q, k + 1, Len(q))>>]
    BY <1>5 DEF Pair
  <2>2. from <= u /\ v <= Len(t)
    BY <1>1, <1>5
  <2>3. ASSUME NEW c \in Nat, NEW d \in Nat, u < c, c <= d, d <= v, is[<<"value", Window(t, c, d)>>]
        PROVE  Passes(scan, c, d)
    <3>1. a <= c /\ d <= b /\ d - c < b - a
      BY <1>1, <1>5, <2>3
    <3> QED
      BY <1>3, <2>3, <3>1 DEF Whats
  <2> QED
    BY <1>5, <2>1, <2>2, <2>3, ColonPasses
<1>6. ASSUME n = 1, Quiet(s[1]) PROVE Passes(scan, a, b)
  <2>1. Quiet(t[a + 1]) /\ b = a + 1
    BY <1>1, <1>2, <1>6
  <2> QED
    BY <1>1, <2>1, PassesQuiet
<1>7. CASE n = 1 /\ s[1] \in numerals
  BY <1>6, <1>7
<1>8. CASE s = <<"m">>
  <2>1. Len(s) = 1 /\ s[1] = "m"
    BY <1>8
  <2>2. Quiet("m")
    BY DEF Quiet
  <2> QED
    BY <1>2, <1>6, <2>1, <2>2
<1>9. CASE IsString(s)
  BY <1>1, <1>9, PassesString
<1>10. CASE what # "value" /\ is[<<"value", s>>]
  <2>1. a <= a /\ b <= b
    OBVIOUS
  <2> QED
    BY <1>1, <1>3, <1>10, <2>1 DEF Whats
<1>11. CASE what # "value" /\ Pair(s)
  <2>1. a <= a /\ b <= b
    OBVIOUS
  <2> QED
    BY <1>1, <1>5, <1>11, <2>1
<1>12. ASSUME n >= 2, NEW w \in Whats, Strip(inner) = <<>> \/ is[<<w, inner>>]
       PROVE  Passes(scan, a + 1, b - 1)
  <2>1. ASSUME NEW u \in Nat, NEW v \in Nat, a < u, u <= v, v < b, is[<<w, Window(t, u, v)>>]
        PROVE  Passes(scan, u, v)
    <3>1. a <= u /\ v <= b /\ v - u < b - a
      BY <1>1, <2>1
    <3> QED
      BY <1>3, <2>1, <3>1
  <2> QED
    BY <1>1, <1>12, <2>1, InnerPasses
<1>13. n >= 2 => /\ b - 1 \in Nat /\ a + 1 <= b - 1 /\ b - 1 < Len(t) /\ b - 1 + 1 = b
                 /\ 1 \in 1 .. n /\ n \in 1 .. n /\ a + n = b /\ a < b - 1
                 /\ from <= b - 1 /\ a <= b - 1 /\ from <= a + 1 /\ a + 1 \in Nat
                 /\ b - 1 <= Len(t)
  BY <1>1
<1>14. CASE n >= 2 /\ s[1] = "[" /\ s[n] = "]" /\ (Strip(inner) = <<>> \/ is[<<"items", inner>>])
  <2>1. Quiet("[") /\ Quiet("]")
    BY DEF Quiet
  <2>2. Quiet(t[a + 1]) /\ Quiet(t[b - 1 + 1])
    BY <1>2, <1>13, <1>14, <2>1
  <2>3. Passes(scan, a + 1, b - 1)
    BY <1>12, <1>14 DEF Whats
  <2>4. n >= 2
    BY <1>14
  <2>5. Passes(scan, a, a + 1) /\ Passes(scan, b - 1, b)
    <3>1. Passes(scan, a, a + 1)
      BY <1>1, <2>2, PassesQuiet
    <3>2. Passes(scan, b - 1, b - 1 + 1)
      BY <1>1, <1>13, <2>2, <2>4, PassesQuiet
    <3> QED
      BY <1>13, <2>4, <3>1, <3>2
  <2>6. Passes(scan, a, b - 1)
    <3>1. a <= a + 1
      OBVIOUS
    <3> QED
      BY <1>13, <2>3, <2>4, <2>5, <3>1, PassesOn
  <2>7. b - 1 <= b
    OBVIOUS
  <2> QED
    BY <1>13, <2>4, <2>5, <2>6, <2>7, PassesOn
<1>15. CASE n >= 2 /\ s[1] = "{" /\ s[n] = "}" /\ (Strip(inner) = <<>> \/ is[<<"members", inner>>])
  <2>1. Passes(scan, a + 1, b - 1)
    BY <1>12, <1>15 DEF Whats
  <2>2. n >= 2
    BY <1>15
  <2>3. Opens(t, a + 1) /\ Closes(t, b - 1 + 1)
    BY <1>2, <1>13, <1>15 DEF Opens, Closes
  <2>4. Passes(scan, a, b - 1 + 1)
    BY <1>1, <1>13, <2>1, <2>2, <2>3, BracesPass
  <2> QED
    BY <1>13, <2>2, <2>4
<1>16. ASSUME NEW k \in 2 .. n - 1, Comma(k),
              is[<<"value", Part(s, 1, k - 1)>>] \/ Pair(Part(s, 1, k - 1)),
              NEW w \in Whats, is[<<w, Part(s, k + 1, n)>>]
       PROVE  Passes(scan, a, b)
  <2> DEFINE p == a + (k - 1)
             q == p + 1
  <2>1. /\ p \in Nat /\ q \in Nat /\ a <= p /\ p < b /\ p <= b /\ q <= b /\ a <= q /\ p - a < b - a
        /\ b - q < b - a /\ a - a + 1 = 1 /\ p - a = k - 1 /\ q - a + 1 = k + 1
        /\ k \in 1 .. n /\ a + k = p + 1 /\ a <= a /\ b <= b
    BY <1>1
  <2> HIDE DEF p, q
  <2>2. Part(s, 1, k - 1) = Window(t, a, p)
    <3>1. Part(s, a - a + 1, p - a) = Window(t, a, p)
      BY <1>1, <2>1, WindowAt
    <3> QED
      BY <2>1, <3>1
  <2>3. Part(s, k + 1, n) = Window(t, q, b)
    <3>1. Part(s, q - a + 1, b - a) = Window(t, q, b)
      BY <1>1, <2>1, WindowAt
    <3> QED
      BY <2>1, <3>1
  <2>4. Passes(scan, a, p)
    <3>1. CASE is[<<"value", Part(s, 1, k - 1)>>]
      BY <1>3, <2>1, <2>2, <3>1 DEF Whats
    <3>2. CASE Pair(Part(s, 1, k - 1))
      BY <1>5, <2>1, <2>2, <3>2
    <3> QED
      BY <1>16, <3>1, <3>2
  <2>5. Passes(scan, q, b)
    BY <1>3, <1>16, <2>1, <2>3
  <2>6. Quiet(t[p + 1])
    <3>1. Quiet(",")
      BY DEF Quiet
    <3>2. s[k] = ","
      BY <1>16 DEF Comma
    <3>3. s[k] = t[p + 1]
      BY <1>2, <2>1
    <3> QED
      BY <3>1, <3>2, <3>3
  <2> QED
    BY <1>1, <2>1, <2>4, <2>5, <2>6, PassesBeside DEF q
<1> QED
  BY <1>4, <1>7, <1>8, <1>9, <1>10, <1>11, <1>14, <1>15, <1>16

LEMMA ReadingPasses ==
  ASSUME NEW scan, NEW t \in Seq(STRING), NEW from \in Nat, Scans(scan, t, from),
         NEW numerals, \A numeral \in numerals : Quiet(numeral),
         NEW what \in Whats, NEW x \in Nat, NEW y \in Nat, from <= x, x <= y,
         y <= Len(t), ReadingOf(numerals)[<<what, Window(t, x, y)>>]
  PROVE  Passes(scan, x, y)
<1> DEFINE is == ReadingOf(numerals)
           Lost(w, a, b) == /\ from <= a /\ a <= b /\ b <= Len(t)
                            /\ is[<<w, Window(t, a, b)>>] /\ ~Passes(scan, a, b)
           lost == {k \in Nat : \E w \in Whats, a, b \in Nat : k = b - a /\ Lost(w, a, b)}
<1>1. ASSUME NEW w \in Whats, NEW a \in Nat, NEW b \in Nat, a <= b, b <= Len(t),
             is[<<w, Window(t, a, b)>>]
      PROVE  Reading(numerals, is, <<w, Window(t, a, b)>>)
  <2>1. Window(t, a, b) \in Seq(STRING)
    BY <1>1, WindowIs
  <2>2. <<w, Window(t, a, b)>> \in Phrases
    BY <2>1 DEF Phrases
  <2>3. is = [p \in Phrases |-> Reading(numerals, is, p)]
    BY ReadingExists
  <2> HIDE DEF is
  <2> QED
    BY <1>1, <2>2, <2>3
<1> HIDE DEF is
<1>2. lost = {}
  <2> SUFFICES ASSUME lost # {} PROVE FALSE
    OBVIOUS
  <2>1. \E k \in lost : \A l \in lost : k <= l
    <3>1. lost \subseteq Nat
      OBVIOUS
    <3> HIDE DEF lost
    <3> QED
      BY <3>1, LeastOf
  <2>2. PICK k \in lost : \A l \in lost : k <= l
    BY <2>1
  <2>3. PICK w \in Whats, a \in Nat, b \in Nat : k = b - a /\ Lost(w, a, b)
    BY <2>2
  <2>4. ASSUME NEW v \in Whats, NEW c \in Nat, NEW d \in Nat, d - c < b - a, Lost(v, c, d)
        PROVE  FALSE
    <3>1. c <= d
      BY <2>4
    <3>2. d - c \in Nat
      BY <3>1
    <3>3. d - c \in lost
      BY <2>4, <3>2
    <3> HIDE DEF lost, Lost
    <3>4. k <= d - c
      BY <2>2, <3>3
    <3> QED
      BY <2>3, <2>4, <3>4
  <2>5. /\ from <= a /\ a <= b /\ b <= Len(t)
        /\ is[<<w, Window(t, a, b)>>] /\ ~Passes(scan, a, b)
    BY <2>3
  <2>6. ASSUME NEW v \in Whats, NEW c \in Nat, NEW d \in Nat, a <= c, c <= d, d <= b,
               d - c < b - a, is[<<v, Window(t, c, d)>>]
        PROVE  Passes(scan, c, d)
    <3>1. from <= c /\ d <= Len(t)
      <4>1. Len(t) \in Nat
        BY SeqDomain
      <4> QED
        BY <2>5, <2>6, <4>1
    <3> QED
      BY <2>4, <2>6, <3>1
  <2> HIDE DEF lost, Lost
  <2>7. ASSUME NEW c \in Nat, NEW d \in Nat, a <= c, c <= d, d <= b, is[<<"value", Window(t, c, d)>>]
        PROVE  Passes(scan, c, d)
    <3>1. from <= c /\ d <= Len(t) /\ d - c <= b - a
      <4>1. Len(t) \in Nat
        BY SeqDomain
      <4> QED
        BY <2>5, <2>7, <4>1
    <3>2. ReadingsPass(is, scan, t, c, d, "value")
      <4> SUFFICES ASSUME NEW v \in Whats, NEW e \in Nat, NEW f \in Nat, c <= e, e <= f, f <= d,
                          f - e < d - c, is[<<v, Window(t, e, f)>>]
                   PROVE  Passes(scan, e, f)
        BY DEF ReadingsPass
      <4>1. a <= e /\ f <= b /\ f - e < b - a
        BY <2>7, <3>1
      <4> QED
        BY <2>6, <4>1
    <3>3. Reading(numerals, is, <<"value", Window(t, c, d)>>)
      BY <1>1, <2>7, <3>1 DEF Whats
    <3>4. "value" \in Whats
      BY DEF Whats
    <3> QED
      BY <2>7, <3>1, <3>2, <3>3, <3>4, OneMorePasses
  <2>8. ReadingsPass(is, scan, t, a, b, w)
    <3> SUFFICES ASSUME NEW v \in Whats, NEW e \in Nat, NEW f \in Nat, a <= e, e <= f, f <= b,
                        f - e < b - a \/ (v = "value" /\ w # "value"), is[<<v, Window(t, e, f)>>]
                 PROVE  Passes(scan, e, f)
      BY DEF ReadingsPass
    <3>1. CASE f - e < b - a
      BY <2>6, <3>1
    <3>2. CASE v = "value"
      BY <2>7, <3>2
    <3> QED
      BY <3>1, <3>2
  <2>9. Reading(numerals, is, <<w, Window(t, a, b)>>)
    BY <1>1, <2>5
  <2> QED
    BY <2>5, <2>8, <2>9, OneMorePasses
<1>3. y - x \in Nat
  OBVIOUS
<1>4. is[<<what, Window(t, x, y)>>]
  BY DEF is
<1> QED
  BY <1>2, <1>3, <1>4

-----------------------------------------------------------------------------
(* The block from the first brace.                                         *)
Solid(t, p) == t[p] # "_"

LEMMA StripsToItself ==
  ASSUME NEW t \in Seq(STRING), NEW x \in Nat, NEW y \in Nat, x < y, y <= Len(t),
         Solid(t, x + 1), Solid(t, y)
  PROVE  Strip(Window(t, x, y)) = Window(t, x, y)
<1>1. Len(t) \in Nat /\ x <= y /\ x + 1 \in Nat /\ x < x + 1 /\ x + 1 <= y /\ y <= y
  BY SeqDomain
<1>2. ~IsBlank(t, x, y)
  BY <1>1 DEF IsBlank, Solid
<1>3. PICK a \in Nat, b \in Nat :
        /\ x <= a /\ a < b /\ b <= y
        /\ Strip(Window(t, x, y)) = Window(t, a, b)
        /\ IsBlank(t, x, a) /\ IsBlank(t, b, y)
  <2>1. y <= Len(t)
    OBVIOUS
  <2> QED
    BY <1>1, <1>2, <2>1, StripWindow
<1>4. a = x
  <2>1. ~(x + 1 <= a)
    BY <1>1, <1>3 DEF IsBlank, Solid
  <2>2. x <= a
    BY <1>3
  <2> QED
    BY <2>1, <2>2
<1>5. b = y
  <2>1. ~(b < y)
    BY <1>1, <1>3 DEF IsBlank, Solid
  <2>2. b <= y
    BY <1>3
  <2> QED
    BY <2>1, <2>2
<1> QED
  BY <1>3, <1>4, <1>5

(* The scan of _first_balanced is what its steps make it.                  *)
Step(scan, t, start, opening, closing, i) ==
  IF i < start THEN At(0) ELSE Scanned(scan[i - 1], t[i], opening, closing)

ScanOf(t, start, opening, closing) ==
  CHOOSE scan : scan = [i \in 0 .. Len(t) |-> Step(scan, t, start, opening, closing, i)]

LEMMA ScanExists ==
  ASSUME NEW t, Len(t) \in Nat, NEW start \in Nat, start >= 1, NEW opening, NEW closing
  PROVE  ScanOf(t, start, opening, closing) =
           [i \in 0 .. Len(t) |->
              Step(ScanOf(t, start, opening, closing), t, start, opening, closing, i)]
<1> DEFINE Next1(g, i) == Step(g, t, start, opening, closing, i)
           Upto(n, g) == g = [i \in 0 .. n |-> Next1(g, i)]
           short == {n \in Nat : \A g : ~Upto(n, g)}
<1>1. short = {}
  <2> SUFFICES ASSUME short # {} PROVE FALSE
    OBVIOUS
  <2>1. \E n \in short : \A k \in short : n <= k
    BY LeastOf
  <2>2. PICK n \in short : \A k \in short : n <= k
    BY <2>1
  <2>3. n \in Nat /\ \A g : ~Upto(n, g)
    OBVIOUS
  <2>4. n # 0
    <3> DEFINE g == [i \in 0 .. 0 |-> At(0)]
    <3>1. \A i \in 0 .. 0 : g[i] = Next1(g, i)
      BY DEF Step
    <3>2. g = [i \in 0 .. 0 |-> g[i]]
      OBVIOUS
    <3> HIDE DEF g, Next1
    <3>3. Upto(0, g)
      BY <3>1, <3>2
    <3> QED
      BY <2>3, <3>3
  <2> DEFINE m == n - 1
  <2>5. m \in Nat /\ m + 1 = n /\ ~(n <= m)
    BY <2>3, <2>4
  <2> HIDE DEF m
  <2>6. m \notin short
    <3> HIDE DEF short
    <3> QED
      BY <2>2, <2>5
  <2>7. PICK g : Upto(m, g)
    BY <2>5, <2>6
  <2> DEFINE h == [i \in 0 .. n |-> IF i = n THEN Next1(g, n) ELSE g[i]]
  <2>8. \A i \in 0 .. n : Next1(h, i) = Next1(g, i)
    <3> TAKE i \in 0 .. n
    <3>1. CASE i < start
      BY <3>1 DEF Step
    <3>2. CASE ~(i < start)
      <4>1. i - 1 \in 0 .. n /\ i - 1 # n
        BY <2>3, <3>2
      <4>2. h[i - 1] = g[i - 1]
        BY <4>1
      <4> HIDE DEF h
      <4> QED
        BY <3>2, <4>2 DEF Step
    <3> QED
      BY <3>1, <3>2
  <2> HIDE DEF Next1
  <2>9. \A i \in 0 .. n : h[i] = Next1(h, i)
    <3> TAKE i \in 0 .. n
    <3>1. CASE i = n
      <4>1. h[i] = Next1(g, i)
        BY <3>1
      <4> HIDE DEF h
      <4> QED
        BY <2>8, <4>1
    <3>2. CASE i # n
      <4>1. i \in 0 .. m
        BY <2>3, <2>5, <3>2
      <4>2. g[i] = Next1(g, i)
        BY <2>7, <4>1
      <4>3. h[i] = g[i]
        BY <3>2
      <4> HIDE DEF h
      <4> QED
        BY <2>8, <4>2, <4>3
    <3> QED
      BY <3>1, <3>2
  <2>10. h = [i \in 0 .. n |-> h[i]]
    OBVIOUS
  <2> HIDE DEF h
  <2>11. Upto(n, h)
    BY <2>9, <2>10
  <2> QED
    BY <2>3, <2>11
<1>2. \E g : Upto(Len(t), g)
  <2> HIDE DEF Upto
  <2> QED
    BY <1>1
<1> QED
  BY <1>2 DEF ScanOf

LEMMA ScanGoesOn ==
  ASSUME NEW t, Len(t) \in Nat, NEW x \in Nat, x < Len(t)
  PROVE  LET scan == ScanOf(t, x + 1, "{", "}")
         IN scan[x] = At(0) /\ Scans(scan, t, x)
<1> DEFINE scan == ScanOf(t, x + 1, "{", "}")
           start == x + 1
<1>1. start \in Nat /\ start >= 1 /\ x < start /\ x \in 0 .. Len(t)
  OBVIOUS
<1>2. scan = [i \in 0 .. Len(t) |-> Step(scan, t, start, "{", "}", i)]
  <2> DEFINE opening == "{"
             closing == "}"
  <2> HIDE DEF start, opening, closing
  <2>1. ScanOf(t, start, opening, closing) =
          [i \in 0 .. Len(t) |-> Step(ScanOf(t, start, opening, closing), t, start, opening, closing, i)]
    BY <1>1, ScanExists
  <2> QED
    BY <2>1 DEF start, opening, closing
<1> HIDE DEF scan, start
<1>3. \A i \in 0 .. Len(t) : scan[i] = Step(scan, t, start, "{", "}", i)
  BY <1>2
<1>4. scan[x] = At(0)
  BY <1>1, <1>3 DEF Step
<1>5. ASSUME NEW i \in Nat, x < i, i <= Len(t)
      PROVE  scan[i] = Scanned(scan[i - 1], t[i], "{", "}")
  <2>1. i \in 0 .. Len(t) /\ ~(i < start)
    BY <1>5 DEF start
  <2> QED
    BY <1>3, <2>1 DEF Step
<1> QED
  BY <1>4, <1>5 DEF Scans, scan

LEMMA BlockRecovered ==
  ASSUME NEW t \in Seq(STRING), NEW numerals, \A numeral \in numerals : Quiet(numeral),
         NEW x \in Nat, NEW y \in Nat, x < y, y <= Len(t), Opens(t, x + 1), Closes(t, y),
         \A k \in Nat : 1 <= k /\ k <= x => ~Opens(t, k),
         Grammar(numerals)[Window(t, x, y)]
  PROVE  FirstBalanced(t, "{", "}") = Window(t, x, y)
<1> DEFINE is == ReadingOf(numerals)
           scan == ScanOf(t, x + 1, "{", "}")
           w == Window(t, x, y)
           inner == Part(w, 2, y - x - 1)
<1>1. /\ Len(t) \in Nat /\ x < Len(t) /\ x <= y /\ x <= x
  <2>1. Len(t) \in Nat
    BY SeqDomain
  <2> QED
    BY <2>1
<1>2. scan[x] = At(0) /\ Scans(scan, t, x)
  BY <1>1, ScanGoesOn
<1>3. /\ w \in Seq(STRING) /\ Len(w) = y - x /\ \A k \in 1 .. y - x : w[k] = t[x + k]
  BY <1>1, WindowIs
<1> HIDE DEF scan
<1>4. Strip(w) = w
  <2>1. Solid(t, x + 1) /\ Solid(t, y)
    BY DEF Opens, Closes, Solid
  <2> QED
    BY <2>1, StripsToItself
<1>5. Reading(numerals, is, <<"value", w>>)
  <2>1. is[<<"value", w>>]
    BY <1>3, GrammarReads
  <2>2. <<"value", w>> \in Phrases
    BY <1>3 DEF Phrases, Whats
  <2>3. is = [p \in Phrases |-> Reading(numerals, is, p)]
    BY ReadingExists
  <2> HIDE DEF is, w
  <2> QED
    BY <2>1, <2>2, <2>3
<1>6. w[1] = "{"
  <2>1. 1 \in 1 .. y - x
    BY <1>1
  <2>2. w[1] = t[x + 1]
    BY <1>3, <2>1
  <2> QED
    BY <2>2 DEF Opens
<1>7. y - x >= 2 /\ (Strip(inner) = <<>> \/ is[<<"members", inner>>])
  <2>1. ~(w[1] \in numerals)
    <3>1. ~Quiet("{")
      BY DEF Quiet
    <3> QED
      BY <1>6, <3>1
  <2>2. ~IsString(w)
    BY <1>6 DEF IsString
  <2>3. <<"value", w>>[1] = "value" /\ <<"value", w>>[2] = w
    OBVIOUS
  <2> HIDE DEF w
  <2>4. \/ Len(w) = 1 /\ w[1] \in numerals
        \/ IsString(w)
        \/ w[1] = "["
        \/ Len(w) >= 2 /\ (Strip(Part(w, 2, Len(w) - 1)) = <<>> \/ is[<<"members", Part(w, 2, Len(w) - 1)>>])
    BY <1>4, <1>5, <2>3 DEF Reading, Part
  <2> QED
    BY <1>3, <1>6, <2>1, <2>2, <2>4
<1>8. Passes(scan, x + 1, y - 1)
  <2>1. ASSUME NEW u \in Nat, NEW v \in Nat, x < u, u <= v, v < y, is[<<"members", Window(t, u, v)>>]
        PROVE  Passes(scan, u, v)
    <3>1. x <= u /\ v <= Len(t)
      BY <1>1, <2>1
    <3> QED
      BY <1>2, <2>1, <3>1, ReadingPasses DEF Whats
  <2>2. "members" \in Whats
    BY DEF Whats
  <2> HIDE DEF is
  <2> QED
    BY <1>1, <1>2, <1>7, <2>1, <2>2, InnerPasses
<1> DEFINE p == y - 1
<1>9. p \in Nat /\ x + 1 <= p /\ p + 1 = y /\ p < Len(t) /\ x < p
  <2>1. y - x >= 2
    BY <1>7
  <2> QED
    BY <1>1, <2>1
<1> HIDE DEF p
<1>10. /\ Passes(scan, x, p + 1)
       /\ \A d \in Nat : scan[x] = At(d) =>
            \A l \in Nat : x + 1 <= l /\ l <= p =>
              scan[l].depth \in Nat /\ scan[l].depth >= d + 1
  <2>1. Closes(t, p + 1) /\ Passes(scan, x + 1, p)
    BY <1>8, <1>9 DEF p
  <2> QED
    BY <1>1, <1>2, <1>9, <2>1, BracesPass
<1>11. /\ scan[y].depth = 0
       /\ \A l \in Nat : x + 1 <= l /\ l <= p => scan[l].depth # 0
  <2>1. scan[y] = At(0)
    BY <1>2, <1>9, <1>10 DEF Passes
  <2>2. \A l \in Nat : x + 1 <= l /\ l <= p => scan[l].depth \in Nat /\ scan[l].depth >= 0 + 1
    BY <1>2, <1>10
  <2> QED
    BY <2>1, <2>2 DEF At
<1> DEFINE starts == {i \in DOMAIN t : t[i] = "{"}
           ends == {i \in DOMAIN t : i > x + 1 /\ t[i] = "}" /\ scan[i].depth = 0}
<1>12. DOMAIN t = 1 .. Len(t)
  BY SeqDomain
<1>13. x + 1 \in 1 .. Len(t) /\ y \in 1 .. Len(t) /\ x + 1 < y
  BY <1>1, <1>9
<1>14. starts # {} /\ Min(starts) = x + 1
  <2>1. starts = {i \in 1 .. Len(t) : Opens(t, i)}
    BY <1>12 DEF Opens
  <2> HIDE DEF starts
  <2>2. x + 1 \in starts /\ starts \subseteq Nat
    BY <1>13, <2>1
  <2>3. Min(starts) \in starts /\ Min(starts) <= x + 1
    BY <2>2, LeastOf
  <2>4. PICK m \in starts : m = Min(starts)
    BY <2>3
  <2>5. m \in 1 .. Len(t) /\ Opens(t, m)
    BY <2>1
  <2>6. ~(1 <= m /\ m <= x)
    BY <2>5
  <2>7. m = x + 1
    BY <2>3, <2>4, <2>5, <2>6
  <2> QED
    BY <2>2, <2>4, <2>7
<1>15. ends # {} /\ Min(ends) = y
  <2>1. ends = {i \in 1 .. Len(t) : i > x + 1 /\ Closes(t, i) /\ scan[i].depth = 0}
    BY <1>12 DEF Closes
  <2> HIDE DEF ends
  <2>2. y > x + 1
    BY <1>13
  <2>3. y \in ends
    BY <1>11, <1>13, <2>1, <2>2
  <2>4. ends \subseteq Nat
    BY <2>1
  <2>5. Min(ends) \in ends /\ Min(ends) <= y
    BY <2>3, <2>4, LeastOf
  <2>6. PICK m \in ends : m = Min(ends)
    BY <2>5
  <2>7. m \in Nat /\ m > x + 1 /\ scan[m].depth = 0
    BY <2>1
  <2>8. ~(x + 1 <= m /\ m <= p)
    BY <1>11, <2>7
  <2>9. m = y
    BY <1>9, <2>5, <2>6, <2>7, <2>8
  <2> QED
    BY <2>3, <2>6, <2>9
<1>16. FirstBalanced(t, "{", "}") =
         LET start == Min(starts)
             sc == ScanOf(t, start, "{", "}")
             es == {i \in DOMAIN t : i > start /\ t[i] = "}" /\ sc[i].depth = 0}
         IN IF starts = {} THEN NoAnswer
            ELSE IF es = {} THEN NoAnswer ELSE SubSeq(t, start, Min(es))
  BY DEF FirstBalanced, ScanOf, Step, At
<1> HIDE DEF starts
<1>17. FirstBalanced(t, "{", "}") =
         IF ends = {} THEN NoAnswer ELSE SubSeq(t, x + 1, Min(ends))
  BY <1>14, <1>16 DEF scan
<1> HIDE DEF ends
<1> QED
  BY <1>15, <1>17 DEF Window

FirstBlock(t) == FirstBalanced(t, "{", "}")

LEMMA NoFence ==
  ASSUME NEW t, "fence" \notin Range(t)
  PROVE  FirstFence(t) = NoAnswer
<1> DEFINE marks == {i \in DOMAIN t : t[i] = "fence"}
<1>1. marks = {}
  BY DEF Range
<1>2. Cardinality(marks) < 2
  BY <1>1, FS_EmptySet
<1> HIDE DEF marks
<1>3. \E body : FirstFence(t) = IF Cardinality(marks) < 2 THEN NoAnswer ELSE body
  BY DEF FirstFence, marks
<1> QED
  BY <1>2, <1>3

(* The first structured candidate is the third.                            *)
LEMMA ThirdRecovered ==
  ASSUME NEW t, ~Blank(t), NEW block,
         ~Structured(Strip(t)), FirstFence(Strip(t)) = NoAnswer,
         FirstBlock(Strip(t)) = block, Structured(block), Type(block) = "dict"
  PROVE  parse_object(t).usable /\ parse_object(t).value = block
<1> DEFINE c == Strip(t)
           tried == Candidates(c)
           good == {k \in DOMAIN tried : Structured(tried[k][2])}
           parsed == parse_production_json(t)
<1>1. DOMAIN tried = 1 .. 4
  BY DEF Candidates
<1>2. tried[1][2] = c /\ tried[2][2] = NoAnswer /\ tried[3][2] = block
  <2>1. tried[1][2] = c /\ tried[2][2] = FirstFence(c) /\ tried[3][2] = FirstBlock(c)
    BY DEF Candidates, FirstBlock
  <2> HIDE DEF tried
  <2> QED
    BY <2>1
<1>3. parsed = Recovered(FALSE, tried, good)
  <2>1. Blank(t) = FALSE
    BY DEF Blank
  <2> QED
    BY <2>1 DEF parse_production_json
<1>4. ~Structured(NoAnswer) /\ ~Structured(c)
  BY DEF Structured
<1>5. parse_object(t) = Consumed(parsed)
  BY DEF parse_object
<1> HIDE DEF tried, c, parsed
<1>6. 1 \notin good /\ 2 \notin good /\ 3 \in good /\ good \subseteq 1 .. 4
  <2>1. 1 \notin good /\ 2 \notin good
    BY <1>2, <1>4
  <2>2. 3 \in 1 .. 4
    OBVIOUS
  <2>3. 3 \in good
    BY <1>1, <1>2, <2>2
  <2> QED
    BY <1>1, <2>1, <2>3
<1> HIDE DEF good
<1>7. Min(good) = 3
  <2>1. good \subseteq Nat
    BY <1>6
  <2>2. Min(good) \in good /\ Min(good) <= 3
    BY <1>6, <2>1, LeastOf
  <2>3. PICK m \in good : m = Min(good)
    BY <2>2
  <2>4. m \in 1 .. 4 /\ m # 1 /\ m # 2 /\ m <= 3
    BY <1>6, <2>2, <2>3
  <2>5. m = 3
    BY <2>4
  <2> QED
    BY <2>3, <2>5
<1>8. good # {}
  BY <1>6
<1>9. Recovered(FALSE, tried, good) =
        [path |-> tried[3][1], success |-> TRUE, value |-> block, type |-> "dict"]
  BY <1>2, <1>7, <1>8 DEF Recovered
<1>10. parsed.success = TRUE /\ parsed.type = "dict" /\ parsed.value = block
  <2> DEFINE path == tried[3][1]
  <2>1. parsed = [path |-> path, success |-> TRUE, value |-> block, type |-> "dict"]
    BY <1>3, <1>9
  <2> HIDE DEF path
  <2> QED
    BY <2>1
<1>11. Consumed(parsed) = [path |-> parsed.path, usable |-> TRUE, value |-> block]
  BY <1>10 DEF Consumed
<1> QED
  BY <1>5, <1>11

LEMMA BlockOfContent ==
  ASSUME NEW t \in Seq(STRING), NEW numerals, \A numeral \in numerals : Quiet(numeral),
         NEW i \in DOMAIN t, NEW j \in DOMAIN t, i < j, Opens(t, i), Closes(t, j),
         \A k \in 1 .. i - 1 : ~Opens(t, k), Grammar(numerals)[SubSeq(t, i, j)]
  PROVE  /\ FirstBlock(Strip(t)) = SubSeq(t, i, j)
         /\ Strip(t) # <<>> /\ Range(Strip(t)) \subseteq Range(t)
<1> DEFINE c == Strip(t)
           block == SubSeq(t, i, j)
           len == Len(t)
<1>1. DOMAIN t = 1 .. len /\ len \in Nat /\ len <= Len(t)
  BY SeqDomain
<1>2. Solid(t, i) /\ Solid(t, j)
  BY DEF Opens, Closes, Solid
<1>3. t = Window(t, 0, len)
  BY DEF Window
<1> HIDE DEF c, block, len
<1>4. /\ i \in Nat /\ j \in Nat /\ 1 <= i /\ i < j /\ j <= len
      /\ \A k \in Nat : 1 <= k /\ k < i => ~Opens(t, k)
  <2>1. i \in Nat /\ j \in Nat /\ 1 <= i /\ i < j /\ j <= len
    BY <1>1
  <2>2. \A k \in Nat : 1 <= k /\ k < i => k \in 1 .. i - 1
    BY <2>1
  <2> QED
    BY <2>1, <2>2
<1>5. ~IsBlank(t, 0, len)
  <2>1. 0 < i /\ i <= len
    BY <1>1, <1>4
  <2> QED
    BY <1>2, <1>4, <2>1 DEF IsBlank, Solid
<1>6. PICK a \in Nat, b \in Nat :
        /\ 0 <= a /\ a < b /\ b <= len
        /\ Strip(Window(t, 0, len)) = Window(t, a, b)
        /\ IsBlank(t, 0, a) /\ IsBlank(t, b, len)
  <2>1. 0 \in Nat /\ 0 <= len
    BY <1>1
  <2> QED
    BY <1>1, <1>5, <2>1, StripWindow
<1>7. c = Window(t, a, b)
  BY <1>3, <1>6 DEF c
<1>8. a < i
  <2>1. ~(0 < i /\ i <= a)
    BY <1>2, <1>4, <1>6 DEF IsBlank, Solid
  <2> QED
    BY <1>4, <1>6, <2>1
<1>9. j <= b
  <2>1. ~(b < j /\ j <= len)
    BY <1>2, <1>4, <1>6 DEF IsBlank, Solid
  <2> QED
    BY <1>4, <1>6, <2>1
<1> DEFINE x == i - 1 - a
           y == j - a
           u == i - 1
<1>10. /\ x \in Nat /\ y \in Nat /\ x < y /\ y <= b - a /\ a + (x + 1) = i /\ a + y = j
       /\ u \in Nat /\ a <= u /\ u <= j /\ u - a + 1 = x + 1 /\ u + 1 = i /\ a <= b
       /\ x + 1 \in 1 .. b - a /\ y \in 1 .. b - a
  BY <1>4, <1>6, <1>8, <1>9
<1> HIDE DEF x, y, u
<1>11. b <= Len(t)
  BY <1>6 DEF len
<1>12. /\ c \in Seq(STRING) /\ Len(c) = b - a /\ DOMAIN c = 1 .. b - a
       /\ \A k \in 1 .. b - a : c[k] = t[a + k]
  BY <1>7, <1>10, <1>11, WindowIs
<1>13. block = Window(c, x, y)
  <2>1. Part(Window(t, a, b), u - a + 1, j - a) = Window(t, u, j)
    BY <1>4, <1>9, <1>10, <1>11, WindowAt
  <2>2. Part(c, x + 1, y) = Window(t, u, j)
    BY <1>7, <1>10, <2>1 DEF y
  <2>3. Window(t, u, j) = block
    BY <1>10 DEF Window, block
  <2> QED
    BY <2>2, <2>3 DEF Part, Window
<1>14. Opens(c, x + 1) /\ Closes(c, y)
  <2>1. c[x + 1] = t[i] /\ c[y] = t[j]
    BY <1>10, <1>12
  <2> QED
    BY <2>1 DEF Opens, Closes
<1>15. \A k \in Nat : 1 <= k /\ k <= x => ~Opens(c, k)
  <2> SUFFICES ASSUME NEW k \in Nat, 1 <= k, k <= x PROVE ~Opens(c, k)
    OBVIOUS
  <2>1. k \in 1 .. b - a /\ a + k \in Nat /\ 1 <= a + k /\ a + k < i
    BY <1>10
  <2>2. c[k] = t[a + k]
    BY <1>12, <2>1
  <2>3. ~Opens(t, a + k)
    BY <1>4, <2>1
  <2> QED
    BY <2>2, <2>3 DEF Opens
<1>16. FirstBlock(c) = block
  <2>1. Grammar(numerals)[Window(c, x, y)]
    BY <1>13 DEF block
  <2>2. y <= Len(c)
    BY <1>10, <1>12
  <2> QED
    BY <1>10, <1>12, <1>13, <1>14, <1>15, <2>1, <2>2, BlockRecovered DEF FirstBlock
<1>17. Range(c) \subseteq Range(t)
  <2>1. \A k \in 1 .. b - a : a + k \in DOMAIN t
    BY <1>1, <1>6
  <2> QED
    BY <1>12, <2>1 DEF Range
<1>18. c # <<>>
  <2>1. Len(c) # 0
    BY <1>10, <1>12
  <2> QED
    BY <2>1
<1> QED
  BY <1>16, <1>17, <1>18 DEF c, block

LEMMA StrictlyBefore ==
  ASSUME NEW t \in Seq(STRING), NEW i \in DOMAIN t, NEW j \in DOMAIN t, i <= j, i # j
  PROVE  i < j
<1>1. i \in Nat /\ j \in Nat
  BY SeqDomain
<1> QED
  BY <1>1

LEMMA NotNone ==
  ASSUME NEW t, NEW i \in DOMAIN t, t[i] # "None"
  PROVE  t # NoAnswer
BY DEF NoAnswer

LEMMA BlockNotNone ==
  ASSUME NEW t \in Seq(STRING), NEW i \in DOMAIN t, NEW j \in DOMAIN t, i < j,
         t[i] # "None"
  PROVE  SubSeq(t, i, j) # NoAnswer
<1>1. i \in Nat /\ j \in Nat /\ 1 <= i /\ i < j /\ j <= Len(t)
  BY SeqDomain
<1>2. 1 \in DOMAIN SubSeq(t, i, j) /\ SubSeq(t, i, j)[1] = t[i]
  BY <1>1
<1> QED
  BY <1>2, NotNone

LEMMA DecodedObject ==
  ASSUME NEW s, ProductionDecode(s) = "dict"
  PROVE  \E numerals : /\ \A numeral \in numerals : Quiet(numeral)
                       /\ Grammar(numerals)[s]
                       /\ Type(s) = "dict"
<1> DEFINE numerals == {"1", "NaN"}
<1>1. Decode(s, numerals) = "dict"
  BY DEF ProductionDecode
<1>2. "invalid" # "dict"
  OBVIOUS
<1>3. \A numeral \in numerals : Quiet(numeral)
  BY DEF Quiet
<1> HIDE DEF numerals
<1>4. Grammar(numerals)[s] /\ Type(s) = "dict"
  BY <1>1, <1>2 DEF Decode
<1> QED
  BY <1>3, <1>4

LEMMA ObjectRecovered ==
  ASSUME NEW t \in Seq(STRING), "fence" \notin Range(t), ~Structured(Strip(t)),
         NEW i \in DOMAIN t, NEW j \in DOMAIN t, i <= j, i # j, Opens(t, i), Closes(t, j),
         \A k \in 1 .. i - 1 : ~Opens(t, k), t[i] # "None",
         ProductionDecode(SubSeq(t, i, j)) = "dict"
  PROVE  parse_object(t).usable /\ parse_object(t).value = SubSeq(t, i, j)
<1>1. i < j
  BY StrictlyBefore
<1>2. PICK numerals : /\ \A numeral \in numerals : Quiet(numeral)
                      /\ Grammar(numerals)[SubSeq(t, i, j)]
                      /\ Type(SubSeq(t, i, j)) = "dict"
  BY DecodedObject
<1>3. /\ FirstBlock(Strip(t)) = SubSeq(t, i, j)
      /\ Strip(t) # <<>> /\ Range(Strip(t)) \subseteq Range(t)
  BY <1>1, <1>2, BlockOfContent
<1>4. FirstFence(Strip(t)) = NoAnswer
  BY <1>3, NoFence
<1>5. ~Blank(t)
  BY <1>3, NotNone DEF Blank
<1>6. Structured(SubSeq(t, i, j))
  BY <1>1, BlockNotNone DEF Structured
<1> QED
  BY <1>2, <1>3, <1>4, <1>5, <1>6, ThirdRecovered

(* Whatever surrounds it, a well-formed object that starts at the answer's *)
(* first brace is recovered as it is, unless the whole answer or a fence   *)
(* is structured (_first_balanced, parse_production_json).                 *)
THEOREM FirstObjectAlwaysRecovered == ReviewSpec => []FirstObjectRecovered
<1>1. BatchInv => FirstObjectRecovered
  <2> SUFFICES ASSUME BatchInv, NEW n \in DOMAIN batch, NEW t, t = batch[n].attempt.text,
                      "fence" \notin Range(t), ~Structured(Strip(t)),
                      NEW i \in DOMAIN t, NEW j \in DOMAIN t,
                      t[i] = "{" /\ t[j] = "}" /\ i <= j
                      /\ (\A k \in 1 .. i - 1 : t[k] # "{"),
                      ProductionDecode(SubSeq(t, i, j)) = "dict"
               PROVE  parse_object(t).usable /\ parse_object(t).value = SubSeq(t, i, j)
    BY DEF FirstObjectRecovered, Answers
  <2>1. t \in Seq(STRING)
    BY InputsAssumption DEF BatchInv
  <2>2. Opens(t, i) /\ Closes(t, j) /\ \A k \in 1 .. i - 1 : ~Opens(t, k)
    BY DEF Opens, Closes
  <2>3. i # j /\ t[i] # "None"
    BY DEF Opens
  <2> QED
    BY <2>1, <2>2, <2>3, ObjectRecovered
<1> QED
  BY <1>1, ReviewInvariant, PTL DEF ReviewInv
=============================================================================
