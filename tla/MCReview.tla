------------------------------ MODULE MCReview ------------------------------
(***************************************************************************)
(* Review over short answers put together from every token, the answers    *)
(* each kind of case turns on, and the conversations of seven messages     *)
(* whose calls are settled or not in every way.                            *)
(***************************************************************************)
EXTENDS Review, TLC

CONSTANTS e1, e2, MaxText

TwoEvaluators == {e1, e2}
Symmetric == Permutations(TwoEvaluators)

-----------------------------------------------------------------------------
Tokens == {"{", "}", "[", "]", "\"", "\\", "1", "_", "x", "fence"}
Fragments ==
  {<<>>, <<"{", "}">>, <<"{", "m", "}">>, <<"{", "\"", "}", "\"", ":", "1", "}">>,
   <<"{", "\"", "\\", "\"", "}", "\"", ":", "1", "}">>,
   <<"[", "1", ",", "{", "}", "]">>, <<"[", "NaN", "]">>, <<"x">>, <<"\"">>, <<"{">>,
   <<"fence">>, <<"fence", "json">>, <<"\\">>, <<"\"", "\\", "\"", "}", "\"">>}
Texts ==
  UNION {[1 .. n -> Tokens] : n \in 0 .. MaxText}
    \cup {a \o b \o c : a \in Fragments, b \in Fragments, c \in Fragments}

-----------------------------------------------------------------------------
Case(task, exercise, label) ==
  [task |-> task, exercise |-> exercise, label |-> label,
   critical |-> TRUE, contract |-> TRUE, gold |-> TRUE]
ModelCase(task) == Case(task, "model", "none")

Attempt(text, says) ==
  [state |-> "finalized", status |-> "success", response |-> TRUE,
   present |-> TRUE, text |-> text, says |-> says]

Object == <<"{", "m", "}">>
Fenced == <<"x", "fence", "json">> \o Object \o <<"fence">>
Said(t, o, c, s) ==
  [tags |-> t, overall_sentiment |-> o, call_quality_score |-> c, summary |-> s]
Right == Said("expected", "match", "match", "text")
Wrong == Said("forbidden", "other", "other", "text")

Extractions ==
  {Attempt(Object, says) : says \in
     {[name |-> "right"], [name |-> "old"], [name |-> "wrong", due |-> "null"],
      [name |-> "mistyped", due |-> "wrong"], [name |-> "right", extra |-> "x"]}}
    \cup {Attempt(Fenced, [name |-> "right", due |-> "null"]),
          Attempt(<<"[", "1", "]">>, <<>>), Attempt(<<"x">>, <<>>)}
QAs ==
  {Attempt(Object, says) : says \in
     {Right, Wrong, [tags |-> "expected"],
      Said("both", "match", "invalid", "text"),
      Said("unannotated", "match", "match", "text"),
      Said("malformed", "invalid", "match", "invalid"),
      Said("invalid", "match", "other", "text")}}
    \cup {Attempt(<<"x">>, <<>>), Attempt(<<"{", "}">>, <<>>)}
Voicemails ==
  {Attempt(t, <<>>) : t \in {<<"CONVERSATION">>, <<"x", "voicemail">>,
     <<"VOICEMAIL", "_">>, <<"voicemail", "conversation">>, <<"x">>, <<>>}}
Silences ==
  {[Attempt(<<"x">>, <<>>) EXCEPT !.state = s] : s \in {"unfinalized", "not_attempted"}}
    \cup {[Attempt(<<"x">>, <<>>) EXCEPT !.status = "timeout", !.response = FALSE],
          [Attempt(<<"x">>, <<>>) EXCEPT !.present = FALSE],
          Attempt(<<"_">>, <<>>)}

One(case, attempts) == {<<[case |-> case, attempt |-> a]>> : a \in attempts}

ReviewedBatches ==
  One(ModelCase("qa"), {Attempt(Object, Right), Attempt(Object, Wrong)})
    \cup One(ModelCase("summary"), {Attempt(<<"x">>, <<>>), Attempt(<<"_">>, <<>>)})
    \cup One(Case("qa", "QA-026", "none"), {Attempt(Object, Wrong), Attempt(Object, Right)})
    \cup {<<[case |-> ModelCase("summary"), attempt |-> Attempt(<<"x">>, <<>>)],
            [case |-> ModelCase("voicemail"), attempt |-> Attempt(<<"x">>, <<>>)]>>}
IsReviewed(b) == b \in ReviewedBatches

MCBatches ==
  ReviewedBatches
    \cup One(ModelCase("extraction"), {Attempt(t, [name |-> "right"]) : t \in Texts \cup {NoAnswer}})
    \cup One(ModelCase("extraction"), Extractions \cup Silences)
    \cup One([ModelCase("extraction") EXCEPT !.contract = FALSE], Extractions)
    \cup One(ModelCase("qa"), QAs \cup Silences)
    \cup One([ModelCase("qa") EXCEPT !.gold = FALSE, !.critical = FALSE], QAs)
    \cup One(Case("voicemail", "model", "CONVERSATION"), Voicemails \cup Silences)
    \cup One(ModelCase("voicemail"), Voicemails)
    \cup One(ModelCase("summary"), Silences)
    \cup One(ModelCase("context_summary"), Silences \cup {Attempt(<<"x">>, <<>>)})
    \cup One(Case("extraction", "response_contract", "fence"), {Attempt(Fenced, <<>>), Attempt(Object, <<>>)})

-----------------------------------------------------------------------------
Enabled == [compaction_enabled |-> TRUE, has_previous_node |-> TRUE, is_realtime |-> FALSE]
Kinds == <<Plain("system"), Plain("opaque"), Answer("tool", "a", TRUE),
           Answer("tool", "a", FALSE), Answer("developer", "b", TRUE),
           Calls({"a"}), Calls({"b"}), Calls({"a", "b"})>>
\* In the range each id is called at most once, and only the head is system's.
Drawn ==
  {r \in [1 .. 5 -> 1 .. 8] :
     /\ \A i \in 2 .. 5 : r[i] # 1
     /\ \A i \in 1 .. 5, j \in 1 .. 5 : i < j /\ r[i] > 5 /\ r[j] > 5 => r[i] # r[j] /\ r[i] + r[j] = 13}
Ranges == {[i \in 1 .. 5 |-> Kinds[r[i]]] : r \in Drawn}
Tails == {<<Plain("user"), Answer("tool", "a", TRUE)>>, <<Plain("system"), Plain("user")>>}
MCConversations ==
  {[messages |-> r \o t, input |-> Enabled] : r \in Ranges, t \in Tails}
    \cup {[messages |-> <<Calls({"a"}), Answer("tool", "a", TRUE)>> \o [i \in 1 .. n |-> Plain("user")],
           input |-> [compaction_enabled |-> c, has_previous_node |-> p, is_realtime |-> r]] :
            n \in 3 .. 6, c \in BOOLEAN, p \in BOOLEAN, r \in BOOLEAN}
Trivial == [messages |-> <<Plain("user")>>, input |-> Enabled]

MCInputs ==
  {[batch |-> b, conversation |-> Trivial] : b \in MCBatches}
    \cup {[batch |-> <<>>, conversation |-> c] : c \in MCConversations}
=============================================================================
