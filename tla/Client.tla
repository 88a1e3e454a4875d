------------------------------- MODULE Client -------------------------------
(***************************************************************************)
(* ModelClient.send_once (client.py): one prepared request, one HTTP       *)
(* request, one AttemptResult, or the caller's cancellation.  The awaiting *)
(* task, the event loop's deadline timer, the caller that may cancel it,   *)
(* the network and a server that may be slow, silent or trickling all act  *)
(* on their own.  Between the moment the awaited data is there and the     *)
(* moment the task runs again, the timer and the caller can still act.     *)
(***************************************************************************)
EXTENDS Integers, Sequences

CONSTANTS
  Answers,     \* what a server may answer: [status, body]
  NoAnswer,
  Raised,      \* CancelledError left the call
  Deadline,    \* timeout_seconds, in ticks of the clock
  MaxCalls     \* bound: calls of send_once

\* What a body of a 2xx answer is to the checks of send_once.
Bodies == {"completion", "not_json", "not_an_object", "bad_usage",
           "bad_envelope"}

AttemptResult ==
  [status : {"success", "timeout", "connection_error", "http_error",
             "protocol_error"},
   error_code : {"none", "deadline_exceeded", "sdk_timeout", "connection_error",
                 "http_status", "redirect_not_followed", "invalid_response_json",
                 "invalid_response_schema", "invalid_usage_schema",
                 "invalid_completion"},
   http_status : Nat, retryable : BOOLEAN]

ASSUME ClientAssumption ==
  /\ Deadline \in Nat \ {0} /\ MaxCalls \in Nat
  /\ NoAnswer \notin Answers /\ Raised \notin AttemptResult
  /\ \A a \in Answers : a.status \in Nat /\ a.body \in Bodies

VARIABLES
  task,        \* where the awaiting task is
  cancels,     \* who has cancelled it and was not yet heard
  elapsed,     \* ticks since the call began
  quiet,       \* ticks since the transport last made progress
  failure,     \* what went wrong in the transport
  arrived,     \* the part of the answer that was received
  requests,    \* HTTP requests sent for each call
  answers,     \* what the server decided to answer to each call's request
  asked,       \* history: calls their caller cancelled while they ran
  whole,       \* history: calls whose answer was received to its end
  results      \* what each call that ended returned, or Raised

clientVars == <<task, cancels, elapsed, quiet, failure, arrived, requests,
                answers, asked, whole, results>>

Calls == 1 .. MaxCalls
Current == Len(results) + 1
Running == task # "idle"
Waiting == task \in {"connecting", "awaiting"}

-----------------------------------------------------------------------------
(* How an answer, or its absence, becomes a result.                        *)

Redirects == {301, 302, 307, 308}
RetryableStatuses == {408, 429, 500, 502, 503, 504}

Result(status, code, http, retryable) ==
  [status |-> status, error_code |-> code, http_status |-> http,
   retryable |-> retryable]

\* The body of a 2xx answer is checked before anything is taken from it.
OfBody(body) ==
  CASE body = "completion" -> Result("success", "none", 0, FALSE)
    [] body = "not_json" ->
         Result("protocol_error", "invalid_response_json", 0, FALSE)
    [] body = "not_an_object" ->
         Result("protocol_error", "invalid_response_schema", 0, FALSE)
    [] body = "bad_usage" ->
         Result("protocol_error", "invalid_usage_schema", 0, FALSE)
    [] body = "bad_envelope" ->
         Result("protocol_error", "invalid_completion", 0, FALSE)

OfAnswer(a) ==
  IF a.status \in 200 .. 299 THEN OfBody(a.body)
  ELSE Result("http_error",
              IF a.status \in Redirects THEN "redirect_not_followed"
              ELSE "http_status",
              a.status, a.status \in RetryableStatuses)

OfFailure(f) ==
  IF f = "connection"
  THEN Result("connection_error", "connection_error", 0, TRUE)
  ELSE Result("timeout", "sdk_timeout", 0, TRUE)

DeadlineExceeded == Result("timeout", "deadline_exceeded", 0, TRUE)

-----------------------------------------------------------------------------
\* A call begins; the deadline runs from here and covers the whole exchange.
SendOnce ==
  /\ ~Running /\ Current \in Calls
  /\ task' = "connecting"
  /\ elapsed' = 0 /\ quiet' = 0
  /\ UNCHANGED <<cancels, failure, arrived, requests, answers, asked,
                 whole, results>>

\* The connection stands and the request is on the wire.
Dispatch ==
  /\ task = "connecting"
  /\ task' = "awaiting" /\ quiet' = 0
  /\ requests' = [requests EXCEPT ![Current] = @ + 1]
  /\ UNCHANGED <<cancels, elapsed, failure, arrived, answers, asked,
                 whole, results>>

\* Faulty variant: the task goes on as soon as the status line is there.
AnswerStreams(a) ==
  /\ task = "awaiting" /\ arrived = "nothing"
  /\ answers' = [answers EXCEPT ![Current] = a]
  /\ arrived' = "part" /\ task' = "ready"
  /\ UNCHANGED <<cancels, elapsed, quiet, failure, requests, asked, whole,
                 results>>

\* The server begins its answer, and may send it in any number of pieces.
AnswerBegins(a) ==
  /\ task = "awaiting" /\ arrived = "nothing"
  /\ answers' = [answers EXCEPT ![Current] = a]
  /\ arrived' = "part" /\ quiet' = 0
  /\ UNCHANGED <<task, cancels, elapsed, failure, requests, asked,
                 whole, results>>

AnswerTrickles ==
  /\ task = "awaiting" /\ arrived = "part"
  /\ quiet' = 0
  /\ UNCHANGED <<task, cancels, elapsed, failure, arrived, requests, answers,
                 asked,
                 whole, results>>

AnswerEnds ==
  /\ task = "awaiting" /\ arrived = "part"
  /\ arrived' = "all" /\ task' = "ready"
  /\ whole' = whole \cup {Current}
  /\ UNCHANGED <<cancels, elapsed, quiet, failure, requests, answers, asked,
                 results>>

\* Faulty variant: the SDK's own retries are left on.
ConnectionRetried ==
  /\ Waiting
  /\ task' = "connecting" /\ arrived' = "nothing"
  /\ UNCHANGED <<cancels, elapsed, quiet, failure, requests, answers, asked,
                 whole, results>>

\* max_retries = 0: a failed request is reported, not repeated.
ConnectionFails ==
  /\ Waiting
  /\ failure' = "connection" /\ task' = "ready"
  /\ UNCHANGED <<cancels, elapsed, quiet, arrived, requests, answers, asked,
                 whole, results>>

\* httpx gives up on one connect, write or read that makes no progress.
OperationTimesOut ==
  /\ Waiting /\ quiet = Deadline
  /\ failure' = "operation_timeout" /\ task' = "ready"
  /\ UNCHANGED <<cancels, elapsed, quiet, arrived, requests, answers, asked,
                 whole, results>>

Tick ==
  /\ Running /\ elapsed < Deadline
  /\ elapsed' = elapsed + 1 /\ quiet' = quiet + 1
  /\ UNCHANGED <<task, cancels, failure, arrived, requests, answers, asked,
                 whole, results>>

\* Faulty variant: only the transport's own timeouts bound the call.
DeadlineWhenQuiet ==
  /\ Running /\ quiet = Deadline
  /\ "deadline" \notin cancels
  /\ cancels' = cancels \cup {"deadline"}
  /\ UNCHANGED <<task, elapsed, quiet, failure, arrived, requests, answers,
                 asked, whole, results>>

\* asyncio.timeout cancels the task, whatever has arrived by now.
DeadlinePasses ==
  /\ Running /\ elapsed = Deadline
  /\ "deadline" \notin cancels
  /\ cancels' = cancels \cup {"deadline"}
  /\ UNCHANGED <<task, elapsed, quiet, failure, arrived, requests, answers,
                 asked,
                 whole, results>>

CallerCancels ==
  /\ Running /\ "caller" \notin cancels
  /\ cancels' = cancels \cup {"caller"}
  /\ asked' = asked \cup {Current}
  /\ UNCHANGED <<task, elapsed, quiet, failure, arrived, requests, answers,
                 whole, results>>

\* The call is over; its connection and what was still to come are dropped.
Finish(r) ==
  /\ results' = Append(results, r)
  /\ task' = "idle" /\ cancels' = {} /\ elapsed' = 0 /\ quiet' = 0
  /\ failure' = "none" /\ arrived' = "nothing"
  /\ UNCHANGED <<requests, answers, asked, whole>>

\* The task runs again and leaves the timeout block: a cancellation of the
\* caller goes on even if the deadline passed as well.
Raise ==
  /\ Running /\ "caller" \in cancels
  /\ Finish(Raised)

\* Faulty variant: the deadline is looked at first.
TimeOutFirst ==
  /\ Running /\ "deadline" \in cancels
  /\ Finish(DeadlineExceeded)

TimeOut ==
  /\ Running /\ cancels = {"deadline"}
  /\ Finish(DeadlineExceeded)

Return ==
  /\ task = "ready" /\ cancels = {}
  /\ Finish(IF failure = "none" THEN OfAnswer(answers[Current])
            ELSE OfFailure(failure))

Resume == Raise \/ TimeOut \/ Return

ClientInit ==
  /\ task = "idle" /\ cancels = {} /\ elapsed = 0 /\ quiet = 0
  /\ failure = "none" /\ arrived = "nothing"
  /\ requests = [c \in Calls |-> 0]
  /\ answers = [c \in Calls |-> NoAnswer]
  /\ asked = {} /\ whole = {} /\ results = <<>>

Network ==
  \/ Dispatch \/ AnswerTrickles \/ AnswerEnds
  \/ ConnectionFails \/ OperationTimesOut
  \/ \E a \in Answers : AnswerBegins(a)

ClientNext == SendOnce \/ Network \/ Tick \/ DeadlinePasses \/ CallerCancels
                \/ Resume

\* The clock runs, the event loop fires due timers and resumes ready tasks;
\* nothing is assumed of the server, the network or the caller.
ClientSpec ==
  /\ ClientInit /\ [][ClientNext]_clientVars
  /\ WF_clientVars(Tick) /\ WF_clientVars(DeadlinePasses)
  /\ WF_clientVars(Resume)

-----------------------------------------------------------------------------
(* Properties                                                              *)

(* A call its caller cancelled never returns a result, not even when its own
   deadline passed or its answer arrived in the same moment; and a call is
   never reported as cancelled that nobody cancelled ("External CancelledError
   propagates", client.py:169). *)
OnlyCallersCancel ==
  \A c \in DOMAIN results : results[c] = Raised <=> c \in asked

(* However it fails, a call sends its request to the server at most once: the
   runner above counts on it to know how often a model was asked
   (max_retries=0, client.py:162). *)
OneRequestPerCall == \A c \in Calls : requests[c] <= 1

(* What is recorded of an exchange is what the server said: a success only for
   a completion the server sent to this very request, an HTTP status only if
   the server answered with it, and either only when the whole answer was there,
   so that a server cut off or running late is never taken at half its word. *)
ResultIsWhatTheServerSaid ==
  \A c \in DOMAIN results : results[c] # Raised =>
    LET r == results[c]
        a == answers[c]
    IN /\ r.status \in {"success", "http_error", "protocol_error"} =>
            requests[c] = 1 /\ a # NoAnswer /\ c \in whole
       /\ r.status = "success" =>
            a.status \in 200 .. 299 /\ a.body = "completion"
       /\ r.status = "protocol_error" =>
            a.status \in 200 .. 299 /\ a.body # "completion"
       /\ r.status = "http_error" =>
            a.status = r.http_status /\ a.status \notin 200 .. 299
       /\ r.retryable =>
            r.status \in {"timeout", "connection_error", "http_error"}

(* Every call ends, also when the server answers one byte after the other for
   ever: no exchange outlives the deadline ("Timeout bounds client waiting",
   client.py:168). *)
CallEnds == Running ~> ~Running
=============================================================================
