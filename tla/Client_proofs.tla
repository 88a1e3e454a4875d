--------------------------- MODULE Client_proofs ---------------------------
(***************************************************************************)
(* Proofs about Client: who cancels, how often is sent, what is recorded.  *)
(***************************************************************************)
EXTENDS Client, TLAPS

-----------------------------------------------------------------------------
(* The invariant.                                                           *)

ClientTyped ==
  /\ task \in {"idle", "connecting", "awaiting", "ready"}
  /\ cancels \subseteq {"deadline", "caller"}
  /\ arrived \in {"nothing", "part", "all"}
  /\ failure \in {"none", "connection", "operation_timeout"}
  /\ requests \in [Calls -> Nat]
  /\ answers \in [Calls -> Answers \cup {NoAnswer}]
  /\ results \in Seq(AttemptResult \cup {Raised})
  /\ Len(results) <= MaxCalls

\* What is known of the call in progress.
CallInProgress ==
  /\ Running => Current \in Calls
  /\ ~Running => cancels = {} /\ arrived = "nothing" /\ failure = "none"
  /\ task = "connecting" => arrived = "nothing"
  /\ task = "awaiting" => requests[Current] = 1
  /\ arrived # "nothing" =>
       requests[Current] = 1 /\ answers[Current] \in Answers
  /\ arrived = "all" => Current \in whole
  /\ task = "ready" /\ failure = "none" => arrived = "all"

\* Its caller cancelled it if and only if the task has been told, and nobody
\* cancelled a call that has not begun.
Cancellations ==
  \A c \in Calls : c > Len(results) =>
    (c \in asked <=> c = Current /\ "caller" \in cancels)

\* Nothing was sent for a call that has not begun or is not connected.
Sent ==
  \A c \in Calls :
    /\ requests[c] <= 1
    /\ c > Current \/ (c = Current /\ task \in {"idle", "connecting"})
         => requests[c] = 0

\* A recorded result is what the server said to this request.
SaidBy(c, r) ==
  LET a == answers[c]
  IN /\ r.status \in {"success", "http_error", "protocol_error"} =>
            requests[c] = 1 /\ a # NoAnswer /\ c \in whole
     /\ r.status = "success" =>
            a.status \in 200 .. 299 /\ a.body = "completion"
     /\ r.status = "protocol_error" =>
            a.status \in 200 .. 299 /\ a.body # "completion"
     /\ r.status = "http_error" =>
            a.status = r.http_status /\ a.status \notin 200 .. 299
     /\ r.retryable =>
            r.status \in {"timeout", "connection_error", "http_error"}

Recorded ==
  \A c \in DOMAIN results :
    /\ results[c] = Raised <=> c \in asked
    /\ results[c] # Raised => SaidBy(c, results[c])

ClientInv ==
  ClientTyped /\ CallInProgress /\ Cancellations /\ Sent /\ Recorded

-----------------------------------------------------------------------------
(* What a result says.                                                      *)

\* The results of a body.
LEMMA BodySays ==
  ASSUME NEW b \in Bodies
  PROVE  /\ OfBody(b) \in AttemptResult /\ ~OfBody(b).retryable
         /\ b = "completion" => OfBody(b).status = "success"
         /\ b # "completion" => OfBody(b).status = "protocol_error"
PROOF
  <1>1. CASE b = "completion"
    <2>1. OfBody(b) = Result("success", "none", 0, FALSE)
      BY <1>1 DEF OfBody
    <2>2. OfBody(b) \in AttemptResult
      BY <2>1 DEF Result, AttemptResult
    <2>3. ~OfBody(b).retryable /\ OfBody(b).status = "success"
      BY <2>1 DEF Result
    <2>4. QED
      BY <1>1, <2>2, <2>3
  <1>2. CASE b # "completion"
    <2>1. PICK code \in {"invalid_response_json", "invalid_response_schema",
                         "invalid_usage_schema", "invalid_completion"} :
            OfBody(b) = Result("protocol_error", code, 0, FALSE)
      BY <1>2 DEF OfBody, Bodies
    <2>2. OfBody(b) \in AttemptResult
      BY <2>1 DEF Result, AttemptResult
    <2>3. ~OfBody(b).retryable /\ OfBody(b).status = "protocol_error"
      BY <2>1 DEF Result
    <2>4. QED
      BY <1>2, <2>2, <2>3
  <1>3. QED
    BY <1>1, <1>2

\* The results of an answer.
LEMMA AnswerSays ==
  ASSUME NEW a \in Answers
  PROVE  /\ OfAnswer(a) \in AttemptResult
         /\ OfAnswer(a).status \in {"success", "protocol_error", "http_error"}
         /\ OfAnswer(a).status = "success" =>
              a.status \in 200 .. 299 /\ a.body = "completion"
         /\ OfAnswer(a).status = "protocol_error" =>
              a.status \in 200 .. 299 /\ a.body # "completion"
         /\ OfAnswer(a).status = "http_error" =>
              a.status = OfAnswer(a).http_status /\ a.status \notin 200 .. 299
         /\ OfAnswer(a).retryable => OfAnswer(a).status = "http_error"
PROOF
  <1>1. a.status \in Nat /\ a.body \in Bodies
    BY ClientAssumption
  <1>2. CASE a.status \in 200 .. 299
    BY <1>1, <1>2, BodySays DEF OfAnswer
  <1>3. CASE a.status \notin 200 .. 299
    <2>1. PICK code \in {"redirect_not_followed", "http_status"} :
            OfAnswer(a) = Result("http_error", code, a.status,
                                 a.status \in RetryableStatuses)
      BY <1>3 DEF OfAnswer
    <2>2. QED
      BY <1>1, <1>3, <2>1 DEF Result, AttemptResult
  <1>4. QED
    BY <1>2, <1>3

\* The results when there is none.
LEMMA FailureSays ==
  ASSUME NEW r, \/ r = DeadlineExceeded
                \/ \E f \in {"connection", "operation_timeout"} : r = OfFailure(f)
  PROVE  r \in AttemptResult /\ r.status \in {"timeout", "connection_error"}
PROOF
  <1>1. CASE r = DeadlineExceeded
    BY <1>1 DEF DeadlineExceeded, Result, AttemptResult
  <1>2. CASE r = OfFailure("connection")
    BY <1>2 DEF OfFailure, Result, AttemptResult
  <1>3. CASE r = OfFailure("operation_timeout")
    BY <1>3 DEF OfFailure, Result, AttemptResult
  <1>4. QED
    BY <1>1, <1>2, <1>3

-----------------------------------------------------------------------------
(* Every step keeps the invariant.                                          *)

\* The end of a call.
LEMMA FinishKept ==
  ASSUME ClientInv, Running, NEW r \in AttemptResult \cup {Raised}, Finish(r),
         r = Raised <=> Current \in asked, r # Raised => SaidBy(Current, r)
  PROVE  ClientInv'
PROOF
  <1>1. /\ results \in Seq(AttemptResult \cup {Raised}) /\ results' = Append(results, r)
        /\ Len(results) \in Nat /\ Current = Len(results) + 1 /\ Current \in Calls
        /\ DOMAIN results = 1 .. Len(results) /\ MaxCalls \in Nat
    BY ClientAssumption DEF ClientInv, ClientTyped, CallInProgress, Finish, Current
  <1>2. /\ results' \in Seq(AttemptResult \cup {Raised}) /\ Len(results') = Current
        /\ DOMAIN results' = 1 .. Current /\ results'[Current] = r
        /\ \A c \in DOMAIN results : results'[c] = results[c]
        /\ \A c \in DOMAIN results' : c \in DOMAIN results \/ c = Current
        /\ Current' = Current + 1
    BY <1>1 DEF Current
  <1>3. /\ task' = "idle" /\ cancels' = {} /\ arrived' = "nothing"
        /\ failure' = "none"
        /\ requests' = requests /\ answers' = answers /\ asked' = asked
        /\ whole' = whole
    BY DEF Finish
  <1>4. ClientTyped'
    BY <1>1, <1>2, <1>3 DEF ClientInv, ClientTyped, Calls
  <1>5. CallInProgress'
    BY <1>3 DEF CallInProgress, Running
  <1>6. Cancellations'
    BY <1>1, <1>2, <1>3 DEF ClientInv, Cancellations, Calls
  <1>7. Sent'
    BY <1>1, <1>2, <1>3 DEF ClientInv, Sent, Calls
  <1>8. Recorded'
    <2>1. ASSUME NEW c \in DOMAIN results'
          PROVE  (/\ results[c] = Raised <=> c \in asked
                  /\ results[c] # Raised => SaidBy(c, results[c]))'
      <3>1. CASE c = Current
        <4>1. results'[c] = r /\ (r = Raised <=> c \in asked')
          BY <1>2, <1>3, <3>1
        <4>2. r # Raised => SaidBy(c, results[c])'
          BY <1>3, <3>1, <4>1 DEF SaidBy
        <4>3. QED
          BY <4>1, <4>2
      <3>2. CASE c \in DOMAIN results
        <4>1. results'[c] = results[c] /\ (results[c] = Raised <=> c \in asked')
          BY <1>2, <1>3, <3>2 DEF ClientInv, Recorded
        <4>2. results[c] # Raised => SaidBy(c, results[c])
          BY <3>2 DEF ClientInv, Recorded
        <4>3. SaidBy(c, results[c]) => SaidBy(c, results[c])'
          BY <1>3, <4>1 DEF SaidBy
        <4>4. QED
          BY <4>1, <4>2, <4>3
      <3>3. QED
        BY <1>2, <2>1, <3>1, <3>2
    <2>2. QED
      BY <2>1 DEF Recorded
  <1>9. QED
    BY <1>4, <1>5, <1>6, <1>7, <1>8 DEF ClientInv

\* A step of a call in progress leaves finished calls alone.
LEMMA FinishedUntouched ==
  ASSUME ClientInv, results' = results, Current \in Calls,
         \A c \in Calls : c # Current =>
           /\ requests'[c] = requests[c] /\ answers'[c] = answers[c]
           /\ c \in asked' <=> c \in asked,
         whole \subseteq whole'
  PROVE  Recorded'
PROOF
  <1>1. ASSUME NEW c \in DOMAIN results
        PROVE  c \in Calls /\ c # Current
    BY ClientAssumption, <1>1 DEF ClientInv, ClientTyped, Calls, Current
  <1>2. QED
    BY <1>1 DEF ClientInv, Recorded, SaidBy

\* Steps before anything of an answer is there.
LEMMA SendingKept ==
  ASSUME ClientInv, SendOnce \/ Dispatch \/ (\E a \in Answers : AnswerBegins(a))
  PROVE  ClientInv'
PROOF
  <1>1. /\ results' = results /\ cancels' = cancels /\ failure' = failure
        /\ asked' = asked /\ whole' = whole /\ Current' = Current
        /\ Current \in Calls
    BY DEF SendOnce, Dispatch, AnswerBegins, Current, ClientInv, CallInProgress,
           Running
  <1>2. Len(results) \in Nat /\ Current = Len(results) + 1
    BY DEF ClientInv, ClientTyped, Current
  <1>3. Cancellations'
    BY <1>1 DEF ClientInv, Cancellations
  <1>4. CASE SendOnce
    <2>1. /\ task = "idle" /\ task' = "connecting" /\ arrived' = "nothing"
          /\ requests' = requests /\ answers' = answers
      BY <1>4 DEF SendOnce, ClientInv, CallInProgress, Running
    <2>2. Recorded'
      BY <1>1, <2>1 DEF ClientInv, Recorded, SaidBy
    <2>3. ClientTyped' /\ CallInProgress' /\ Sent'
      BY <1>1, <2>1, <1>4
      DEF SendOnce, ClientInv, ClientTyped, CallInProgress, Sent, Running
    <2>4. QED
      BY <1>3, <2>2, <2>3 DEF ClientInv
  <1>5. CASE Dispatch
    <2>1. /\ task = "connecting" /\ task' = "awaiting" /\ arrived = "nothing"
          /\ arrived' = arrived /\ answers' = answers /\ requests[Current] = 0
          /\ requests' = [requests EXCEPT ![Current] = 1]
      <3>1. /\ task = "connecting" /\ task' = "awaiting"
            /\ arrived' = arrived /\ answers' = answers
            /\ requests' = [requests EXCEPT ![Current] = requests[Current] + 1]
        BY <1>5 DEF Dispatch
      <3>2. arrived = "nothing" /\ requests[Current] = 0
        BY <1>1, <3>1 DEF ClientInv, CallInProgress, Sent
      <3>3. requests[Current] + 1 = 1
        BY <3>2
      <3>4. QED
        BY <3>1, <3>2, <3>3
    <2>2. Recorded'
      BY <1>1, <2>1, FinishedUntouched DEF ClientInv, ClientTyped
    <2>3. ClientTyped'
      BY <1>1, <2>1 DEF ClientInv, ClientTyped
    <2>4. CallInProgress'
      BY <1>1, <2>1 DEF ClientInv, ClientTyped, CallInProgress, Running
    <2>5. Sent'
      BY <1>1, <1>2, <2>1 DEF ClientInv, ClientTyped, Sent, Calls
    <2>6. QED
      BY <1>3, <2>2, <2>3, <2>4, <2>5 DEF ClientInv
  <1>6. ASSUME NEW a \in Answers, AnswerBegins(a)
        PROVE  ClientInv'
    <2>1. /\ task = "awaiting" /\ task' = task /\ arrived' = "part"
          /\ requests' = requests /\ answers' = [answers EXCEPT ![Current] = a]
      BY <1>6 DEF AnswerBegins
    <2>2. Recorded'
      BY <1>1, <2>1, FinishedUntouched DEF ClientInv, ClientTyped
    <2>3. ClientTyped'
      BY <1>1, <2>1 DEF ClientInv, ClientTyped
    <2>4. CallInProgress' /\ Sent'
      BY <1>1, <2>1 DEF ClientInv, ClientTyped, CallInProgress, Sent, Running
    <2>5. QED
      BY <1>3, <2>2, <2>3, <2>4 DEF ClientInv
  <1>7. QED
    BY <1>4, <1>5, <1>6

\* Steps of the transport while the task waits.
LEMMA WaitingKept ==
  ASSUME ClientInv,
         AnswerTrickles \/ AnswerEnds \/ ConnectionFails \/ OperationTimesOut
  PROVE  ClientInv'
PROOF
  <1>1. /\ results' = results /\ cancels' = cancels /\ asked' = asked
        /\ Current' = Current /\ Current \in Calls
        /\ requests' = requests /\ answers' = answers
        /\ task \in {"connecting", "awaiting"}
    BY DEF AnswerTrickles, AnswerEnds, ConnectionFails, OperationTimesOut,
           Waiting, Current, ClientInv, CallInProgress, Running
  <1>2. Cancellations'
    BY <1>1 DEF ClientInv, Cancellations
  <1>3. whole \subseteq whole'
    BY DEF AnswerTrickles, AnswerEnds, ConnectionFails, OperationTimesOut
  <1>4. Recorded'
    BY <1>1, <1>3, FinishedUntouched
  <1>5. /\ task' \in {"awaiting", "ready"} /\ arrived' \in {"nothing", "part", "all"}
        /\ failure' \in {"none", "connection", "operation_timeout"}
    BY DEF AnswerTrickles, AnswerEnds, ConnectionFails, OperationTimesOut,
           ClientInv, ClientTyped
  <1>6. ClientTyped'
    BY <1>1, <1>5 DEF ClientInv, ClientTyped
  <1>7. CallInProgress'
    <2>1. CASE AnswerTrickles
      BY <1>1, <2>1 DEF AnswerTrickles, ClientInv, CallInProgress, Running
    <2>2. CASE AnswerEnds
      BY <1>1, <2>2 DEF AnswerEnds, ClientInv, CallInProgress, Running
    <2>3. CASE ConnectionFails \/ OperationTimesOut
      BY <1>1, <2>3
      DEF ConnectionFails, OperationTimesOut, ClientInv, CallInProgress, Running
    <2>4. QED
      BY <2>1, <2>2, <2>3
  <1>8. Sent'
    BY <1>1, <1>5 DEF ClientInv, Sent
  <1>9. QED
    BY <1>2, <1>4, <1>6, <1>7, <1>8 DEF ClientInv

\* The clock, the deadline and the caller.
LEMMA CancellingKept ==
  ASSUME ClientInv, Tick \/ DeadlinePasses \/ CallerCancels
  PROVE  ClientInv'
PROOF
  <1>1. /\ results' = results /\ task' = task /\ arrived' = arrived
        /\ failure' = failure /\ requests' = requests /\ answers' = answers
        /\ whole' = whole /\ Current' = Current /\ Running /\ Current \in Calls
    BY DEF Tick, DeadlinePasses, CallerCancels, Current, ClientInv, CallInProgress
  <1>2. /\ cancels' \subseteq {"deadline", "caller"}
        /\ \A c \in Calls : c # Current => (c \in asked' <=> c \in asked)
    BY DEF Tick, DeadlinePasses, CallerCancels, ClientInv, ClientTyped
  <1>3. ClientTyped' /\ CallInProgress' /\ Sent'
    BY <1>1, <1>2 DEF ClientInv, ClientTyped, CallInProgress, Sent, Running
  <1>4. Cancellations'
    <2>1. CASE Tick
      BY <1>1, <2>1 DEF Tick, ClientInv, Cancellations
    <2>2. CASE DeadlinePasses
      BY <1>1, <2>2 DEF DeadlinePasses, ClientInv, Cancellations
    <2>3. CASE CallerCancels
      BY <1>1, <2>3 DEF CallerCancels, ClientInv, Cancellations
    <2>4. QED
      BY <2>1, <2>2, <2>3
  <1>5. Recorded'
    BY <1>1, <1>2, FinishedUntouched
  <1>6. QED
    BY <1>3, <1>4, <1>5 DEF ClientInv

\* The ways a call ends.
LEMMA ResumingKept ==
  ASSUME ClientInv, Resume
  PROVE  ClientInv'
PROOF
  <1>1. /\ task # "idle" /\ Running /\ Current \in Calls
        /\ Len(results) \in Nat /\ Current > Len(results)
    BY DEF Resume, Raise, TimeOut, Return, Running, ClientInv, CallInProgress,
           ClientTyped, Current
  <1>2. Current \in asked <=> "caller" \in cancels
    BY <1>1 DEF ClientInv, Cancellations
  <1>3. CASE Raise
    BY <1>1, <1>2, <1>3, FinishKept DEF Raise
  <1>4. CASE TimeOut
    <2>1. DeadlineExceeded \in AttemptResult
          /\ DeadlineExceeded.status \in {"timeout", "connection_error"}
      BY FailureSays
    <2>2. DeadlineExceeded # Raised
      BY <2>1, ClientAssumption
    <2>3. SaidBy(Current, DeadlineExceeded)
      BY <2>1 DEF SaidBy
    <2>4. Finish(DeadlineExceeded) /\ Current \notin asked
      BY <1>2, <1>4 DEF TimeOut
    <2>5. QED
      BY <1>1, <2>1, <2>2, <2>3, <2>4, FinishKept
  <1>5. CASE Return
    <2> DEFINE r == IF failure = "none" THEN OfAnswer(answers[Current])
                    ELSE OfFailure(failure)
    <2>1. r \in AttemptResult /\ SaidBy(Current, r)
      <3>1. CASE failure = "none"
        <4>1. arrived = "all"
          BY <1>5, <3>1 DEF Return, ClientInv, CallInProgress
        <4>2. /\ requests[Current] = 1 /\ Current \in whole
              /\ answers[Current] \in Answers /\ answers[Current] # NoAnswer
          BY <4>1, ClientAssumption DEF ClientInv, CallInProgress
        <4>3. r = OfAnswer(answers[Current])
          BY <3>1
        <4>4. QED
          BY <4>2, <4>3, AnswerSays DEF SaidBy
      <3>2. CASE failure # "none"
        <4>1. /\ r = OfFailure(failure)
              /\ failure \in {"connection", "operation_timeout"}
          BY <3>2 DEF ClientInv, ClientTyped
        <4>2. r \in AttemptResult /\ r.status \in {"timeout", "connection_error"}
          BY <4>1, FailureSays
        <4>3. QED
          BY <4>2 DEF SaidBy
      <3>3. QED
        BY <3>1, <3>2
    <2>2. r # Raised
      BY <2>1, ClientAssumption
    <2>3. Finish(r) /\ Current \notin asked
      BY <1>2, <1>5 DEF Return
    <2> HIDE DEF r
    <2>4. QED
      BY <1>1, <2>1, <2>2, <2>3, FinishKept
  <1>6. QED
    BY <1>3, <1>4, <1>5 DEF Resume

\* The invariant holds of every behaviour.
THEOREM ClientCorrect == ClientSpec => []ClientInv
PROOF
  <1>1. ClientInit => ClientInv
    BY ClientAssumption
    DEF ClientInit, ClientInv, ClientTyped, CallInProgress, Cancellations, Sent,
        Recorded, Running
  <1>2. ClientInv /\ [ClientNext]_clientVars => ClientInv'
    <2>1. SUFFICES ASSUME ClientInv, [ClientNext]_clientVars
                   PROVE  ClientInv'
      OBVIOUS
    <2>2. CASE UNCHANGED clientVars
      BY <2>1, <2>2
      DEF clientVars, ClientInv, ClientTyped, CallInProgress, Cancellations, Sent,
          Recorded, SaidBy, Running, Current
    <2>3. QED
      BY <2>1, <2>2, SendingKept, WaitingKept, CancellingKept, ResumingKept
      DEF ClientNext, Network
  <1>3. QED
    BY <1>1, <1>2, PTL DEF ClientSpec

(* A call ends in a cancellation if and only if its caller cancelled it.    *)
THEOREM CallersCancel == ClientSpec => []OnlyCallersCancel
PROOF
  <1>1. ClientInv => OnlyCallersCancel
    BY DEF ClientInv, Recorded, OnlyCallersCancel
  <1>2. QED
    BY <1>1, ClientCorrect, PTL

(* A call sends its request at most once.                                   *)
THEOREM CallsSendOnce == ClientSpec => []OneRequestPerCall
PROOF
  <1>1. ClientInv => OneRequestPerCall
    BY DEF ClientInv, Sent, OneRequestPerCall
  <1>2. QED
    BY <1>1, ClientCorrect, PTL

(* What is recorded is what the server said to this request.                *)
THEOREM ResultsAreSaid == ClientSpec => []ResultIsWhatTheServerSaid
PROOF
  <1>1. ClientInv => ResultIsWhatTheServerSaid
    BY DEF ClientInv, Recorded, SaidBy, ResultIsWhatTheServerSaid
  <1>2. QED
    BY <1>1, ClientCorrect, PTL
=============================================================================
