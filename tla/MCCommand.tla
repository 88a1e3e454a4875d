----------------------------- MODULE MCCommand -----------------------------
(***************************************************************************)
(* The commands over two captured QA requests among four observations and  *)
(* three curated cases, with one way of editing the inputs per check that  *)
(* is to notice it.                                                        *)
(***************************************************************************)
EXTENDS Command

CONSTANTS c1, c2

TwoCodes == {c1, c2}
AllCommands == {"candidate-smoke", "candidate-suite", "qa-replay-compare"}
TwoReplies == {"answer", "timeout"}

GoodSettings(c) ==
  [loopback |-> TRUE, repetitions |-> 1, concurrency |-> 1,
   exploratory |-> TRUE, smoke_label |-> TRUE]

-----------------------------------------------------------------------------
Line(id, contract, output) ==
  [id |-> id, index |-> <<id, "t">>, trace |-> "t", type |-> "GENERATION", whole |-> TRUE,
   name |-> <<contract, id>>, messages |-> <<"asked", id>>, output |-> output]
Row(id, contract) ==
  [id |-> id, job |-> contract, name |-> <<contract, id>>, trace |-> "t", whole |-> TRUE]

Source == <<Line("u", "other", "none"), Line("q2", "qa", "out2"),
            Line("s", "summary", "none"), Line("q1", "qa", "out1")>>
Selection == <<Row("q1", "qa"), Row("s", "summary"), Row("q2", "qa")>>
MCCounts == [c \in {"qa", "summary"} |-> IF c = "qa" THEN 2 ELSE 1]
MCQAIds == <<"q1", "q2">>

-----------------------------------------------------------------------------
CuratedCase(id, task, exercise) ==
  [id |-> id, alloc |-> [task |-> task, exercise |-> exercise],
   messages |-> <<"asked", id>>, valid |-> TRUE]
Ex == CuratedCase("ex1", "extraction", "model")
ExControl == CuratedCase("ex2", "extraction", "response_contract")
Vm == CuratedCase("vm1", "voicemail", "model")
File(task, lines) == [task |-> task, lines |-> lines]
CuratedFiles == <<File("extraction", <<Ex, ExControl>>), File("voicemail", <<Vm>>)>>
MCInventory ==
  [k \in 1 .. 3 |-> LET case == <<Ex, ExControl, Vm>>[k]
                    IN [id |-> case.id, alloc |-> case.alloc]]
MCFrozen == {Ex, ExControl, Vm}
MCSmokeIds == <<"vm1">>

-----------------------------------------------------------------------------
MCCanonical == [source |-> Source, selection |-> Selection, curated |-> CuratedFiles]
\* A baseline is reworded, a captured request replaced, a line repeated; rows
\* are swapped; a curated case is reworded, and lines are out of order.
MCVersions ==
  {MCCanonical,
   [MCCanonical EXCEPT !.source[4].output = "reworded"],
   [MCCanonical EXCEPT !.source[2].messages = <<"asked", "other">>,
                       !.curated[2].lines[1].messages = <<"asked", "other">>],
   [MCCanonical EXCEPT !.source = Append(@, Line("q1", "qa", "out1")),
                       !.curated[1].lines = <<ExControl, Ex>>],
   [MCCanonical EXCEPT !.selection = <<@[3], @[2], @[1]>>]}
=============================================================================
