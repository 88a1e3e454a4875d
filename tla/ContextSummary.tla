--------------------------- MODULE ContextSummary ---------------------------
(***************************************************************************)
(* adapters.py: which messages of a conversation the runtime summary       *)
(* covers, and what becomes of the conversation when it is applied.  A     *)
(* message has a role, the calls it makes, and for an answer to a call its *)
(* id and whether it settles the call; an opaque message has role          *)
(* "opaque".  Indices are TLA+'s, from 1.                                  *)
(***************************************************************************)
EXTENDS Integers, Sequences, FiniteSets, FiniteSetsExt, Functions

Plain(role) == [role |-> role, calls |-> {}, id |-> "none", settles |-> FALSE]
Calls(ids) == [Plain("assistant") EXCEPT !.calls = ids]

\* _pending: a tool's answer IN_PROGRESS, or of an async tool just started,
\* does not settle the call; nor does a developer message that finishes none.
Answer(role, id, settles) ==
  [Plain(role) EXCEPT !.id = id, !.settles = settles]

NoSelection == [first |-> 1, last |-> 0]    \* SummarySelection((), -1)

\* The calls open before each message of the range, under the index of the
\* last message that made a call of that id: the dict `pending`.
Pending(messages, start, end) ==
  LET open[i \in start - 1 .. end] ==
        IF i < start THEN <<>>
        ELSE LET m == messages[i]
                 made == [c \in DOMAIN open[i - 1] \cup m.calls |->
                            IF c \in m.calls THEN i ELSE open[i - 1][c]]
             IN IF m.role \in {"tool", "developer"} /\ m.settles
                THEN Restrict(made, DOMAIN made \ {m.id}) ELSE made
  IN open[end]

\* Faulty variant: the range ends before the latest open call.
LatestOpen(open) == Max(Range(open))

EarliestOpen(open) == Min(Range(open))

select_summary_context(messages, input) ==
  LET start == IF messages[1].role = "system" THEN 2 ELSE 1
      end == Len(messages) - 2
      open == Pending(messages, start, end)
      last == IF open = <<>> THEN end ELSE EarliestOpen(open) - 1
  IN IF \/ ~input.compaction_enabled \/ ~input.has_previous_node
        \/ input.is_realtime \/ Len(messages) <= 6
     THEN NoSelection
     ELSE IF start > last THEN NoSelection
     ELSE [first |-> start, last |-> last]

Summary == Plain("user")                    \* "Conversation summary: ..."

\* apply_context_summary, on the conversation as it is by then.
apply_context_summary(current, last, blank) ==
  LET systems == {i \in DOMAIN current : current[i].role = "system"}
      kept == IF systems = {} THEN <<>> ELSE <<current[Min(systems)]>>
  IN IF blank \/ last < 1 THEN current
     ELSE kept \o <<Summary>> \o SubSeq(current, last + 1, Len(current))
=============================================================================
