-------------------------- MODULE ExecutionLedger --------------------------
(***************************************************************************)
(* What the evidence of a run promises its reader, with no file system in  *)
(* sight: for each execution a numbered series of attempts, closed at most *)
(* once by an outcome that names the last of them.  Evidence is only ever  *)
(* added, except that a power loss may take some of it, and then what is   *)
(* left is again such a ledger.                                            *)
(***************************************************************************)
EXTENDS Integers

CONSTANTS
  Keys, Results,
  Indices     \* the numbers an attempt may have

VARIABLES
  attempts,   \* recorded attempts: [key, index, result]
  outcomes    \* closed executions: [key, index of the attempt that counts]

ledger == <<attempts, outcomes>>

Recorded(k) == {a.index : a \in {b \in attempts : b.key = k}}
Closed(k) == \E o \in outcomes : o.key = k

Record(k, i, r) ==
  /\ ~Closed(k)
  /\ i \notin Recorded(k)
  /\ i = 0 \/ i - 1 \in Recorded(k)
  /\ attempts' = attempts \cup {[key |-> k, index |-> i, result |-> r]}
  /\ UNCHANGED outcomes

Close(k, i) ==
  /\ ~Closed(k)
  /\ i \in Recorded(k) /\ i + 1 \notin Recorded(k)
  /\ outcomes' = outcomes \cup {[key |-> k, index |-> i]}
  /\ UNCHANGED attempts

\* Of each execution a power loss leaves the first attempts, and an outcome
\* only with all the attempts it closed.
Lose ==
  /\ attempts' \in SUBSET attempts /\ outcomes' \in SUBSET outcomes
  /\ \A a \in attempts, b \in attempts' :
       a.key = b.key /\ a.index < b.index => a \in attempts'
  /\ \A a \in attempts, o \in outcomes' : a.key = o.key => a \in attempts'

Init == attempts = {} /\ outcomes = {}

Next ==
  \/ \E k \in Keys, i \in Indices :
       \/ \E r \in Results : Record(k, i, r)
       \/ Close(k, i)
  \/ Lose

Spec == Init /\ [][Next]_ledger
=============================================================================
