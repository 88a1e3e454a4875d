-------------------------- MODULE StubServer_proofs --------------------------
(***************************************************************************)
(* Proofs about StubServer: a block left without an exception is evidence, *)
(* and exchanges answer their own requests.                                *)
(***************************************************************************)
EXTENDS StubServer, TLAPS

-----------------------------------------------------------------------------
(* The invariant.                                                           *)

\* What the connection at work may be said to send.
Contents == Requests \cup Ill \cup {Nothing, Trickling}

StubTyped ==
  /\ owner \in {"new", "entering", "within", "leaving", "stopping", "closing",
                "joining", "complete", "raised"}
  /\ thread \in {"none", "started", "ready", "serving", "failing", "ending",
                 "dead"} \cup Handling
  /\ arrived \in 0 .. MaxConnections /\ accepted \in 0 .. arrived
  /\ owner = "new" => thread = "none"
  /\ thread \in Handling => accepted \in Connections
  /\ request \in Contents
  /\ thread = "body" => request \in Requests \cup Ill
  /\ received \in Nat /\ matched \in 0 .. N /\ responded \in Nat
  /\ got \in [Connections -> [request : Contents, answer : -1 .. N]]

\* An answer belongs to a request that was matched, and its exchange to one
\* client; the answer being written has not reached anyone yet.
AnswersBelong ==
  /\ \A c \in Connections :
       got[c].answer >= 1 =>
         got[c].answer <= matched /\ got[c].request = Exchanges[got[c].answer]
  /\ \A c, d \in Connections :
       got[c].answer >= 1 /\ got[c].answer = got[d].answer => c = d
  /\ thread = "replying" =>
       /\ matched >= 1 /\ request = Exchanges[matched]
       /\ \A c \in Connections : got[c].answer # matched

\* As long as there is no failure, everything that was read and is not at work
\* was matched; and only what was matched is counted as answered.
CountsAgree ==
  /\ responded <= matched
  /\ thread \in {"replying", "counting"} => responded < matched
  /\ failure = NoFailure =>
       /\ received = matched + (IF thread = "body" THEN 1 ELSE 0)
       /\ thread # "rejecting"
       /\ \A c \in Connections : got[c].answer # Refused

\* The block ends normally only when the thread has ended.
EndIsQuiet ==
  owner = "complete" =>
    /\ ~Alive /\ leaving = "body_done" /\ Complete(failure)

StubInv == StubTyped /\ AnswersBelong /\ CountsAgree /\ EndIsQuiet

-----------------------------------------------------------------------------
(* Every step keeps the invariant.                                          *)

\* The number of expected requests.
LEMMA NTyped == N \in Nat /\ DOMAIN Exchanges = 1 .. N
PROOF
  BY ExchangesAssumption DEF N

\* A failure that is noted is a failure, whichever was first.
LEMMA FailureNoted ==
  ASSUME NEW code, code # NoFailure
  PROVE  FirstFailure(code) # NoFailure
PROOF
  BY DEF FirstFailure

\* An objection is a failure.
LEMMA ObjectionIs ==
  ASSUME StubTyped, thread = "body"
  PROVE  Objection # NoFailure
PROOF
  <1>1. request \in Requests \cup Ill /\ matched \in 0 .. N
    BY DEF StubTyped
  <1>2. matched = N \/ matched < N
    BY <1>1, NTyped
  <1>3. Objection \in {"malformed_http", "wrong_path", "truncated_body",
                       "unexpected_request", "mismatch"}
    BY <1>1, <1>2 DEF Objection, Ill
  <1>4. QED
    BY <1>3 DEF NoFailure

\* The owner's steps touch nothing of the thread's, and it completes on
\* evidence only.
LEMMA OwnerKept ==
  ASSUME StubInv,
         \/ OwnerStep \/ StartupTimesOut \/ JoinTimesOut
         \/ \E how \in {"body_done", "body_raised"} : BodyEnds(how)
  PROVE  StubInv'
PROOF
  <1>1. /\ thread' = thread /\ arrived' = arrived /\ accepted' = accepted
        /\ request' = request /\ received' = received /\ matched' = matched
        /\ responded' = responded /\ got' = got
    BY DEF OwnerStep, EnterReturns, BeginClose, ShutdownReturns, CloseSocket,
           Joined, StartupTimesOut, JoinTimesOut, BodyEnds, serverVars, countVars,
           clientVars
  <1>2. failure' = NoFailure => failure = NoFailure
    BY DEF OwnerStep, EnterReturns, BeginClose, ShutdownReturns, CloseSocket,
           Joined, StartupTimesOut, JoinTimesOut, BodyEnds, FirstFailure
  <1>3. /\ owner' \in {"entering", "within", "leaving", "stopping", "closing",
                       "joining", "complete", "raised"}
        /\ owner' = "complete" => Joined \/ JoinTimesOut
    BY DEF OwnerStep, EnterReturns, BeginClose, ShutdownReturns, CloseSocket,
           Joined, StartupTimesOut, JoinTimesOut, BodyEnds, Exit
  <1>4. StubTyped'
    BY <1>1, <1>3 DEF StubInv, StubTyped
  <1>5. AnswersBelong'
    BY <1>1 DEF StubInv, AnswersBelong
  <1>6. CountsAgree'
    BY <1>1, <1>2 DEF StubInv, CountsAgree
  <1>7. EndIsQuiet'
    <2>1. SUFFICES ASSUME owner' = "complete"
                   PROVE  (~Alive /\ leaving = "body_done" /\ Complete(failure))'
      BY DEF EndIsQuiet
    <2>2. CASE Joined
      BY <1>1, <2>1, <2>2 DEF Joined, Exit, Complete, Alive
    <2>3. CASE JoinTimesOut
      <3>1. failure' # NoFailure
        BY <2>3, FailureNoted DEF JoinTimesOut, NoFailure
      <3>2. QED
        BY <2>1, <2>3, <3>1 DEF JoinTimesOut, Exit, Complete
    <2>4. QED
      BY <1>3, <2>1, <2>2, <2>3
  <1>8. QED
    BY <1>4, <1>5, <1>6, <1>7 DEF StubInv

\* The block is entered, or cannot be; clients come and go.
LEMMA EntryAndClientsKept ==
  ASSUME StubInv,
         Enter \/ StartupFails \/ Connect \/ \E c \in Connections : GoAway(c)
  PROVE  StubInv'
PROOF
  <1>1. /\ accepted' = accepted /\ received' = received
        /\ matched' = matched /\ responded' = responded
        /\ got' = got
        /\ \/ /\ owner' = owner /\ thread' = thread /\ leaving' = leaving
              /\ failure' = failure
           \/ /\ owner = "new" /\ owner' = "entering" /\ thread' = "started"
              /\ arrived' = arrived
           \/ /\ owner = "new" /\ owner' = "leaving" /\ thread' = thread
              /\ arrived' = arrived
        /\ arrived' \in {arrived, arrived + 1} /\ (arrived' # arrived => arrived < MaxConnections)
    BY DEF Enter, StartupFails, Connect, GoAway, serverVars, connVars, countVars,
           clientVars
  <1>2. /\ request' = request \/ (thread = "headers" /\ request' = Nothing)
        /\ request' \in Contents
    BY DEF Enter, StartupFails, Connect, GoAway, serverVars, connVars, StubInv,
           StubTyped, Contents
  <1>3. failure' = failure \/ failure' # NoFailure
    BY FailureNoted DEF Enter, StartupFails, Connect, GoAway, NoFailure
  <1>4. /\ owner' = owner \/ (thread = "none" /\ owner' \in {"entering", "leaving"})
        /\ thread' = thread \/ (thread = "none" /\ thread' = "started")
    BY <1>1 DEF StubInv, StubTyped
  <1>5. StubTyped'
    BY <1>1, <1>2, <1>4, ExchangesAssumption DEF StubInv, StubTyped, Handling
  <1>6. AnswersBelong'
    BY <1>1, <1>2, <1>4 DEF StubInv, AnswersBelong
  <1>7. CountsAgree'
    <2>1. received' = received /\ matched' = matched /\ responded' = responded /\ got' = got
      BY <1>1
    <2>2. CASE thread' = thread
      <3>1. failure' = NoFailure => failure = NoFailure
        BY <1>3
      <3> QED
        BY <2>1, <2>2, <3>1 DEF StubInv, CountsAgree
    <2>3. CASE thread = "none" /\ thread' = "started"
      <3>1. failure' = NoFailure => failure = NoFailure
        BY <1>3
      <3> QED
        BY <2>1, <2>3, <3>1 DEF StubInv, CountsAgree
    <2> QED
      BY <1>4, <2>2, <2>3
  <1>8. EndIsQuiet'
    <2>1. CASE /\ owner' = owner /\ thread' = thread /\ leaving' = leaving
               /\ failure' = failure /\ matched' = matched /\ responded' = responded
      BY <2>1 DEF StubInv, EndIsQuiet, Alive, Complete
    <2>2. CASE owner' # "complete"
      BY <2>2 DEF EndIsQuiet
    <2> QED
      BY <1>1, <2>1, <2>2
  <1>9. QED
    BY <1>5, <1>6, <1>7, <1>8 DEF StubInv

\* The thread's steps between connections.
LEMMA LoopKept ==
  ASSUME StubInv,
         \/ SetReady \/ ServeForever \/ LoopEnds \/ LoopRaises \/ ServeFailed
         \/ ThreadEnds \/ Accept
  PROVE  StubInv'
PROOF
  <1>1. /\ owner' = owner /\ leaving' = leaving /\ arrived' = arrived
        /\ request' \in {request, Nothing, Trickling}
        /\ received' = received /\ matched' = matched
        /\ responded' = responded /\ got' = got
        /\ thread \in {"started", "ready", "serving", "failing", "ending"}
        /\ thread' \in {"ready", "serving", "failing", "ending", "dead", "headers"}
        /\ \/ accepted' = accepted /\ thread' # "headers"
           \/ accepted' = accepted + 1 /\ accepted < arrived
    BY DEF SetReady, ServeForever, LoopEnds, LoopRaises, ServeFailed, ThreadEnds,
           Accept, connVars, countVars, clientVars
  <1>2. failure' = NoFailure => failure = NoFailure
    BY DEF SetReady, ServeForever, LoopEnds, LoopRaises, ServeFailed, ThreadEnds,
           Accept, FirstFailure
  <1>3. owner # "complete" /\ owner # "new"
    BY <1>1 DEF StubInv, StubTyped, EndIsQuiet, Alive
  <1>4. /\ accepted' \in 0 .. arrived
        /\ thread' = "headers" => accepted' \in Connections
    BY <1>1, ExchangesAssumption DEF StubInv, StubTyped, Connections
  <1>5. StubTyped'
    BY <1>1, <1>3, <1>4 DEF StubInv, StubTyped, Handling, Contents
  <1>6. AnswersBelong'
    BY <1>1 DEF StubInv, AnswersBelong
  <1>7. CountsAgree'
    BY <1>1, <1>2 DEF StubInv, CountsAgree
  <1>8. EndIsQuiet'
    BY <1>1, <1>3 DEF EndIsQuiet
  <1>9. QED
    BY <1>5, <1>6, <1>7, <1>8 DEF StubInv

\* A request is read and judged.
LEMMA JudgingKept ==
  ASSUME StubInv,
         \/ \E what \in Requests \cup Ill : ReadHeaders(what)
         \/ Reject \/ Match
  PROVE  StubInv'
PROOF
  <1>1. /\ owner' = owner /\ leaving' = leaving /\ arrived' = arrived
        /\ accepted' = accepted /\ responded' = responded /\ got' = got
        /\ thread \in {"headers", "body"}
    BY DEF ReadHeaders, Reject, Match, connVars, countVars, clientVars
  <1>2. owner # "complete" /\ owner # "new"
    BY <1>1 DEF StubInv, StubTyped, EndIsQuiet, Alive
  <1>3. EndIsQuiet'
    BY <1>1, <1>2 DEF EndIsQuiet
  <1>4. ASSUME NEW what \in Requests \cup Ill, ReadHeaders(what)
        PROVE  StubInv'
    <2>1. /\ thread = "headers" /\ thread' = "body" /\ request' = what
          /\ received' = received + 1 /\ matched' = matched /\ failure' = failure
      BY <1>4 DEF ReadHeaders
    <2>2. StubTyped'
      BY <1>1, <1>2, <2>1 DEF StubInv, StubTyped, Handling, Contents
    <2>3. AnswersBelong'
      BY <1>1, <2>1 DEF StubInv, AnswersBelong
    <2>4. CountsAgree'
      BY <1>1, <2>1, NTyped DEF StubInv, StubTyped, CountsAgree
    <2>5. QED
      BY <1>3, <2>2, <2>3, <2>4 DEF StubInv
  <1>5. CASE Reject
    <2>1. /\ thread = "body" /\ thread' = "rejecting" /\ request' = request
          /\ received' = received /\ matched' = matched /\ failure' # NoFailure
      BY <1>5, FailureNoted, ObjectionIs DEF Reject, connVars, countVars, StubInv
    <2>2. StubTyped'
      BY <1>1, <1>2, <2>1 DEF StubInv, StubTyped, Handling
    <2>3. AnswersBelong' /\ CountsAgree'
      BY <1>1, <2>1 DEF StubInv, AnswersBelong, CountsAgree
    <2>4. QED
      BY <1>3, <2>2, <2>3 DEF StubInv
  <1>6. CASE Match
    <2>1. /\ thread = "body" /\ thread' = "replying" /\ request' = request
          /\ received' = received /\ matched' = matched + 1 /\ failure' = failure
          /\ matched < N /\ request = Exchanges[matched + 1]
      BY <1>6 DEF Match, Expected, connVars
    <2>2. matched \in Nat /\ matched' \in 1 .. N
      BY <2>1, NTyped DEF StubInv, StubTyped
    <2>3. StubTyped'
      BY <1>1, <1>2, <2>1, <2>2 DEF StubInv, StubTyped, Handling
    <2>4. \A c \in Connections : got[c].answer >= 1 =>
            got[c].answer <= matched' /\ got[c].answer # matched'
      BY <2>1, <2>2, NTyped DEF StubInv, StubTyped, AnswersBelong
    <2>5. AnswersBelong'
      BY <1>1, <2>1, <2>2, <2>4 DEF StubInv, AnswersBelong
    <2>6. CountsAgree'
      BY <1>1, <2>1, <2>2 DEF StubInv, StubTyped, CountsAgree
    <2>7. QED
      BY <1>3, <2>3, <2>5, <2>6 DEF StubInv
  <1>7. QED
    BY <1>4, <1>5, <1>6

\* A connection ends, with or without an answer.
LEMMA HangupKept ==
  ASSUME StubInv,
         \/ DropSilent \/ TrickleEnds \/ HeadersBreak \/ Refuse \/ Reply
         \/ CountResponse \/ WriteBreaks \/ WriteTimesOut
  PROVE  StubInv'
PROOF
  <1>1. /\ owner' = owner /\ leaving' = leaving /\ arrived' = arrived
        /\ accepted' = accepted /\ received' = received /\ matched' = matched
        /\ thread \in {"headers", "rejecting", "replying", "counting"}
        /\ \/ thread' = "serving"
           \/ thread = "replying" /\ thread' = "counting"
           \/ thread = "headers" /\ thread' = "headers"
    BY DEF DropSilent, TrickleEnds, HeadersBreak, Refuse, Reply, CountResponse, WriteBreaks, WriteTimesOut,
           Hangup, connVars, countVars
  <1>2. accepted \in Connections /\ owner # "complete" /\ owner # "new"
    BY <1>1 DEF StubInv, StubTyped, EndIsQuiet, Alive, Handling
  <1>3. failure' = NoFailure => failure = NoFailure
    BY DEF DropSilent, TrickleEnds, HeadersBreak, Refuse, Reply, CountResponse, WriteBreaks, WriteTimesOut,
           FirstFailure
  <1>4. \/ responded' = responded
        \/ responded' = responded + 1 /\ thread = "counting" /\ thread' = "serving"
    BY DEF DropSilent, TrickleEnds, HeadersBreak, Refuse, Reply, CountResponse, WriteBreaks, WriteTimesOut,
           Hangup, countVars
  <1>5. \/ got' = got
        \/ thread = "rejecting" /\ Deliver(Refused)
        \/ thread = "replying" /\ Deliver(matched)
    BY DEF DropSilent, TrickleEnds, HeadersBreak, Refuse, Reply, CountResponse, WriteBreaks, WriteTimesOut,
           clientVars
  <1>6. PICK a \in {Refused, matched} :
          /\ got' = got \/ got' = [got EXCEPT ![accepted] =
                                     [request |-> request, answer |-> a]]
          /\ got' # got => \/ a = Refused /\ thread = "rejecting"
                           \/ a = matched /\ thread = "replying"
    BY <1>5 DEF Deliver
  <1>7. /\ request \in Contents /\ matched \in 0 .. N
        /\ got \in [Connections -> [request : Contents, answer : -1 .. N]]
        /\ a \in -1 .. N
    BY <1>6, NTyped DEF StubInv, StubTyped, Refused
  <1>8. /\ got' \in [Connections -> [request : Contents, answer : -1 .. N]]
        /\ \A c \in Connections : c # accepted => got'[c] = got[c]
        /\ \/ got'[accepted] = got[accepted]
           \/ /\ got'[accepted] = [request |-> request, answer |-> a]
              /\ \/ a = Refused /\ thread = "rejecting"
                 \/ a = matched /\ thread = "replying"
    BY <1>2, <1>6, <1>7
  <1>9. StubTyped'
    <2>1. request' \in {request, Nothing}
      BY DEF DropSilent, TrickleEnds, HeadersBreak, Refuse, Reply, CountResponse, WriteBreaks,
             WriteTimesOut, Hangup, connVars
    <2>2. responded' \in Nat
      BY <1>4 DEF StubInv, StubTyped
    <2>3. QED
      BY <1>1, <1>2, <1>7, <1>8, <2>1, <2>2 DEF StubInv, StubTyped, Handling, Contents
  <1>10. AnswersBelong'
    <2>1. thread' # "replying"
      BY <1>1
    <2>2. ASSUME NEW c \in Connections, got'[c].answer >= 1
          PROVE  /\ got'[c].answer <= matched
                 /\ got'[c].request = Exchanges[got'[c].answer]
                 /\ \/ got'[c] = got[c]
                    \/ /\ c = accepted /\ got'[c].answer = matched
                       /\ thread = "replying"
      <3>1. CASE got'[c] = got[c]
        BY <2>2, <3>1 DEF StubInv, AnswersBelong
      <3>2. CASE got'[c] # got[c]
        <4>1. /\ c = accepted /\ a = matched /\ thread = "replying"
              /\ got'[c] = [request |-> request, answer |-> matched]
          BY <1>8, <2>2, <3>2 DEF Refused
        <4>2. QED
          BY <1>7, <4>1 DEF StubInv, AnswersBelong
      <3>3. QED
        BY <3>1, <3>2
    <2>3. ASSUME NEW c \in Connections, NEW d \in Connections,
                 got'[c].answer >= 1, got'[c].answer = got'[d].answer
          PROVE  c = d
      <3>1. /\ got'[c] = got[c]
               \/ (c = accepted /\ got'[c].answer = matched /\ thread = "replying")
            /\ got'[d] = got[d]
               \/ (d = accepted /\ got'[d].answer = matched /\ thread = "replying")
        BY <2>2, <2>3
      <3>2. thread = "replying" => \A e \in Connections : got[e].answer # matched
        BY DEF StubInv, AnswersBelong
      <3>3. QED
        BY <2>3, <3>1, <3>2 DEF StubInv, AnswersBelong
    <2>4. QED
      BY <1>1, <2>1, <2>2, <2>3 DEF AnswersBelong
  <1>11. CountsAgree'
    <2>1. responded' <= matched' /\ (thread' = "counting" => responded' < matched')
      BY <1>1, <1>4, <1>7 DEF StubInv, StubTyped, CountsAgree
    <2>2. ASSUME failure' = NoFailure
          PROVE  /\ received' = matched'
                 /\ \A c \in Connections : got'[c].answer # Refused
      <3>1. /\ failure = NoFailure /\ received = matched /\ thread # "rejecting"
            /\ \A c \in Connections : got[c].answer # Refused
        BY <1>1, <1>3, <1>7, <2>2 DEF StubInv, CountsAgree
      <3>2. matched # Refused
        BY <1>7, NTyped DEF Refused
      <3>3. QED
        BY <1>1, <1>8, <3>1, <3>2
    <2>3. QED
      BY <1>1, <1>7, <2>1, <2>2 DEF CountsAgree
  <1>12. EndIsQuiet'
    BY <1>1, <1>2 DEF EndIsQuiet
  <1>13. QED
    BY <1>9, <1>10, <1>11, <1>12 DEF StubInv

-----------------------------------------------------------------------------
(* The theorems.                                                            *)

(* The shape of the state, and the invariant the others rest on: answers
   belong to requests that were matched, and what was read is accounted for as
   long as nothing failed. *)
THEOREM StubCorrect == StubSpec => []StubInv
PROOF
  <1>1. StubInit => StubInv
    BY NTyped, ExchangesAssumption
    DEF StubInit, StubInv, StubTyped, AnswersBelong, CountsAgree, EndIsQuiet,
        Handling, Contents, NoAnswer, Refused
  <1>2. StubInv /\ [StubNext]_stubVars => StubInv'
    <2>1. SUFFICES ASSUME StubInv, [StubNext]_stubVars
                   PROVE  StubInv'
      OBVIOUS
    <2>2. CASE UNCHANGED stubVars
      <3>1. /\ UNCHANGED <<owner, leaving, thread, arrived, accepted, request>>
            /\ UNCHANGED <<received, matched, responded, failure, got>>
        BY <2>2 DEF stubVars, serverVars, countVars, clientVars
      <3>2. StubTyped'
        BY <2>1, <3>1 DEF StubInv, StubTyped
      <3>3. AnswersBelong' /\ CountsAgree'
        BY <2>1, <3>1 DEF StubInv, AnswersBelong, CountsAgree
      <3>4. EndIsQuiet'
        BY <2>1, <3>1 DEF StubInv, EndIsQuiet, Alive, Complete
      <3>5. QED
        BY <3>2, <3>3, <3>4 DEF StubInv
    <2>3. CASE OwnerStep \/ StartupTimesOut \/ JoinTimesOut
               \/ \E how \in {"body_done", "body_raised"} : BodyEnds(how)
      BY <2>1, <2>3, OwnerKept
    <2>4. CASE Enter \/ StartupFails \/ Connect \/ \E c \in Connections : GoAway(c)
      BY <2>1, <2>4, EntryAndClientsKept
    <2>5. CASE SetReady \/ ServeForever \/ LoopEnds \/ LoopRaises
               \/ ServeFailed \/ ThreadEnds \/ Accept
      BY <2>1, <2>5, LoopKept
    <2>6. CASE (\E what \in Requests \cup Ill : ReadHeaders(what))
               \/ Reject \/ Match
      BY <2>1, <2>6, JudgingKept
    <2>7. CASE DropSilent \/ TrickleEnds \/ HeadersBreak \/ Refuse \/ Reply \/ CountResponse
               \/ WriteBreaks \/ WriteTimesOut
      BY <2>1, <2>7, HangupKept
    <2>8. QED
      BY <2>1, <2>2, <2>3, <2>4, <2>5, <2>6, <2>7 DEF StubNext, ThreadStep
  <1>3. QED
    BY <1>1, <1>2, PTL DEF StubSpec

(* For any number of expected requests and of clients: a block left without an
   exception is evidence that all of them came in order, were answered, and
   that nothing else was asked (__exit__ and assert_complete). *)
THEOREM BlocksAreEvidence == StubSpec => []CompleteIsEvidence
PROOF
  <1>1. StubInv => CompleteIsEvidence
    <2>1. SUFFICES ASSUME StubInv, owner = "complete"
                   PROVE  /\ leaving = "body_done"
                          /\ received = N /\ matched = N /\ responded = N
                          /\ failure = NoFailure
                          /\ \A c \in Connections : got[c].answer # Refused
      BY DEF CompleteIsEvidence
    <2>2. /\ leaving = "body_done" /\ thread \in {"none", "dead"}
          /\ matched = N /\ responded = N /\ failure = NoFailure
      BY <2>1 DEF StubInv, EndIsQuiet, Alive, Complete
    <2>3. QED
      BY <2>1, <2>2, NTyped DEF StubInv, CountsAgree
  <1>2. QED
    BY <1>1, StubCorrect, PTL

(* For any number of expected requests and of clients: an exchange answers
   the one request it expects and is used up by it (do_POST). *)
THEOREM ExchangesAreUsedOnce == StubSpec => []ExchangesInOrder
PROOF
  <1>1. StubInv => ExchangesInOrder
    <2>1. SUFFICES ASSUME StubInv, NEW i \in 1 .. N,
                          NEW c \in Connections, NEW d \in Connections,
                          got[c].answer = i, got[d].answer = i
                   PROVE  c = d /\ got[c].request = Exchanges[i]
      BY DEF ExchangesInOrder, Answered
    <2>2. i >= 1
      BY NTyped
    <2>3. QED
      BY <2>1, <2>2 DEF StubInv, AnswersBelong
  <1>2. QED
    BY <1>1, StubCorrect, PTL
=============================================================================
