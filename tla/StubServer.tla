----------------------------- MODULE StubServer -----------------------------
(***************************************************************************)
(* DeterministicChatServer (test_server.py): the local stub that stands in *)
(* for a model.  The owner enters and leaves its with block; a server      *)
(* thread accepts one connection after the other and answers the expected  *)
(* requests in order; clients connect, send, stall or go away as they      *)
(* like.  Connections are numbered as they arrive, and what a client sends *)
(* is settled when it is read.  Counters and the failure are shared by     *)
(* owner and thread.                                                       *)
(***************************************************************************)
EXTENDS Integers, Sequences

CONSTANTS
  MaxConnections,   \* bound: connections clients open
  Requests,         \* requests a client may send whole
  Exchanges         \* the expected requests, in order

ASSUME ExchangesAssumption ==
  Exchanges \in Seq(Requests) /\ MaxConnections \in Nat

VARIABLES
  owner,       \* where the owner of the server is
  leaving,     \* why it leaves the block
  thread,      \* where the server thread is
  ready,       \* _ready
  stop,        \* socketserver's shutdown request
  stopped,     \* socketserver's is-shut-down event
  arrived,     \* connections opened so far
  accepted,    \* connections taken up so far, the last one perhaps at work
  request,     \* what the connection at work sends
  received, matched, responded, failure,
  gone,        \* connections whose client went away early
  got          \* each client's request and the answer that reached it

serverVars == <<thread, ready, stopped, accepted, request>>
connVars == <<arrived, accepted, request>>
countVars == <<received, matched, responded>>
clientVars == <<gone, got>>
stubVars == <<owner, leaving, serverVars, stop, arrived, countVars, failure,
              clientVars>>

N == Len(Exchanges)
NoFailure == "none"
Ill == {"malformed", "misrouted", "stalled"}
Nothing == "nothing"
Trickling == "trickling"   \* header bytes, one within every read timeout
NoAnswer == 0
Refused == -1
Connections == 1 .. MaxConnections
Handling == {"headers", "body", "rejecting", "replying", "counting"}
Alive == thread \notin {"none", "dead"}
Listening == owner \in {"entering", "within", "leaving", "stopping", "closing"}

\* _fail: only the first failure is kept.
FirstFailure(code) == IF failure = NoFailure THEN code ELSE failure

-----------------------------------------------------------------------------
(* The owner.                                                              *)

Enter ==
  /\ owner = "new" /\ owner' = "entering" /\ thread' = "started"
  /\ UNCHANGED <<leaving, ready, stop, stopped, connVars, countVars, failure,
                 clientVars>>

\* The socket cannot be bound, or the thread not be started.
StartupFails ==
  /\ owner = "new"
  /\ failure' = FirstFailure("startup_failed")
  /\ owner' = "leaving" /\ leaving' = "entry_failed"
  /\ UNCHANGED <<serverVars, stop, arrived, countVars, clientVars>>

\* The thread said it is ready; if it has already failed, the entry fails.
EnterReturns ==
  /\ owner = "entering" /\ ready
  /\ IF failure = NoFailure
     THEN owner' = "within" /\ UNCHANGED leaving
     ELSE owner' = "leaving" /\ leaving' = "entry_failed"
  /\ UNCHANGED <<serverVars, stop, arrived, countVars, failure, clientVars>>

StartupTimesOut ==
  /\ owner = "entering" /\ ~ready
  /\ failure' = FirstFailure("startup_timeout")
  /\ owner' = "leaving" /\ leaving' = "entry_failed"
  /\ UNCHANGED <<serverVars, stop, arrived, countVars, clientVars>>

BodyEnds(how) ==
  /\ owner = "within" /\ owner' = "leaving" /\ leaving' = how
  /\ UNCHANGED <<serverVars, stop, arrived, countVars, failure, clientVars>>

\* shutdown() sets its flag and waits; a dead thread needs none.
BeginClose ==
  /\ owner = "leaving"
  /\ IF Alive THEN owner' = "stopping" /\ stop' = TRUE
              ELSE owner' = "closing" /\ UNCHANGED stop
  /\ UNCHANGED <<leaving, serverVars, arrived, countVars, failure, clientVars>>

ShutdownReturns ==
  /\ owner = "stopping" /\ stopped
  /\ owner' = "closing"
  /\ UNCHANGED <<leaving, serverVars, stop, arrived, countVars, failure,
                 clientVars>>

\* server_close(): what was not accepted yet is reset.
CloseSocket ==
  /\ owner = "closing" /\ owner' = "joining"
  /\ UNCHANGED <<leaving, serverVars, stop, arrived, countVars, failure,
                 clientVars>>

\* Faulty variant: failures are not looked at.
CompleteByCounts(f) == matched = N /\ responded = N

\* assert_complete, given the failure it finds.
Complete(f) == f = NoFailure /\ matched = N /\ responded = N

\* The block ends normally only if its body did and everything was exchanged.
Exit(f) == owner' = IF leaving = "body_done" /\ Complete(f) THEN "complete"
                    ELSE "raised"

Joined ==
  /\ owner = "joining" /\ ~Alive
  /\ Exit(failure)
  /\ UNCHANGED <<leaving, serverVars, stop, arrived, countVars, failure,
                 clientVars>>

JoinTimesOut ==
  /\ owner = "joining" /\ Alive
  /\ failure' = FirstFailure("shutdown_timeout") /\ Exit(failure')
  /\ UNCHANGED <<leaving, serverVars, stop, arrived, countVars, clientVars>>

-----------------------------------------------------------------------------
(* The server thread.                                                      *)

SetReady ==
  /\ thread = "started" /\ thread' = "ready" /\ ready' = TRUE
  /\ UNCHANGED <<owner, leaving, stop, stopped, connVars, countVars, failure,
                 clientVars>>

ServeForever ==
  /\ thread = "ready" /\ thread' = "serving" /\ stopped' = FALSE
  /\ UNCHANGED <<owner, leaving, ready, stop, connVars, countVars, failure,
                 clientVars>>

LoopEnds ==
  /\ thread = "serving" /\ stop
  /\ thread' = "ending" /\ stop' = FALSE /\ stopped' = TRUE
  /\ UNCHANGED <<owner, leaving, ready, connVars, countVars, failure,
                 clientVars>>

LoopRaises ==
  /\ thread = "serving"
  /\ thread' = "failing" /\ stop' = FALSE /\ stopped' = TRUE
  /\ UNCHANGED <<owner, leaving, ready, connVars, countVars, failure,
                 clientVars>>

ServeFailed ==
  /\ thread = "failing" /\ thread' = "ending"
  /\ failure' = FirstFailure("server_error")
  /\ UNCHANGED <<owner, leaving, ready, stop, stopped, connVars, countVars,
                 clientVars>>

ThreadEnds ==
  /\ thread = "ending" /\ thread' = "dead"
  /\ UNCHANGED <<owner, leaving, ready, stop, stopped, connVars, countVars,
                 failure, clientVars>>

\* The client sends its headers at once, or little by little.
Accept ==
  /\ thread = "serving" /\ ~stop /\ accepted < arrived
  /\ thread' = "headers" /\ accepted' = accepted + 1
  /\ request' \in {Nothing, Trickling}
  /\ UNCHANGED <<owner, leaving, ready, stop, stopped, arrived, countVars,
                 failure, clientVars>>

\* The connection is over, whatever was answered.
Hangup ==
  /\ thread' = "serving" /\ request' = Nothing
  /\ UNCHANGED <<owner, leaving, ready, stop, stopped, arrived, accepted,
                 gone>>

\* Nothing more within the read timeout of one recv, or a closed connection:
\* http.server drops the connection without a word.
DropSilent ==
  /\ thread = "headers" /\ request # Trickling
  /\ Hangup
  /\ UNCHANGED <<countVars, failure, got>>

\* No deadline ends the headers as a whole: only their client does.
TrickleEnds ==
  /\ thread = "headers" /\ request = Trickling /\ request' = Nothing
  /\ UNCHANGED <<owner, leaving, thread, ready, stop, stopped, arrived, accepted,
                 countVars, failure, clientVars>>

ReadHeaders(what) ==
  /\ thread = "headers"
  /\ request' = what /\ received' = received + 1
  /\ thread' = "body"
  /\ UNCHANGED <<owner, leaving, ready, stop, stopped, arrived, accepted,
                 matched, responded, failure, clientVars>>

\* What do_POST finds wrong with the request, in the order it looks.
Objection ==
  CASE request = "malformed" -> "malformed_http"
    [] request = "misrouted" -> "wrong_path"
    [] request = "stalled" -> "truncated_body"
    [] request \in Requests /\ matched = N -> "unexpected_request"
    [] request \in Requests /\ matched < N -> "mismatch"

\* The client of the connection at work is still there.
Waiting == accepted \notin gone

\* The connection is reset before a request is read: handle_error notes it.
HeadersBreak ==
  /\ thread = "headers" /\ ~Waiting
  /\ failure' = FirstFailure("server_error")
  /\ Hangup
  /\ UNCHANGED <<countVars, got>>

\* Faulty variant: any of the expected requests will do.
ExpectedInAnyOrder ==
  matched < N /\ \E i \in 1 .. N : request = Exchanges[i]

Expected == matched < N /\ request = Exchanges[matched + 1]

\* Faulty variant: reading the body has no deadline of its own.
RejectWhenGone ==
  /\ thread = "body" /\ ~Expected
  /\ request = "stalled" => ~Waiting
  /\ failure' = FirstFailure(Objection)
  /\ thread' = "rejecting"
  /\ UNCHANGED <<owner, leaving, ready, stop, stopped, connVars, countVars,
                 clientVars>>

Reject ==
  /\ thread = "body" /\ ~Expected
  /\ failure' = FirstFailure(Objection)
  /\ thread' = "rejecting"
  /\ UNCHANGED <<owner, leaving, ready, stop, stopped, connVars, countVars,
                 clientVars>>

Match ==
  /\ thread = "body" /\ Expected
  /\ matched' = matched + 1 /\ thread' = "replying"
  /\ UNCHANGED <<owner, leaving, ready, stop, stopped, connVars, received,
                 responded, failure, clientVars>>

\* The written answer reaches the client if it still waits for it.
Deliver(a) ==
  got' = IF Waiting
         THEN [got EXCEPT ![accepted] = [request |-> request, answer |-> a]]
         ELSE got

Refuse == thread = "rejecting" /\ Deliver(Refused) /\ Hangup
          /\ UNCHANGED <<countVars, failure>>

Reply ==
  /\ thread = "replying" /\ thread' = "counting"
  /\ Deliver(matched)
  /\ UNCHANGED <<owner, leaving, ready, stop, stopped, connVars, countVars,
                 failure, gone>>

CountResponse ==
  /\ thread = "counting"
  /\ responded' = responded + 1
  /\ Hangup
  /\ UNCHANGED <<received, matched, failure, got>>

\* The client went away: the write raises and handle_error notes it.
WriteBreaks ==
  /\ thread \in {"rejecting", "replying"} /\ ~Waiting
  /\ failure' = FirstFailure("server_error")
  /\ Hangup
  /\ UNCHANGED <<countVars, got>>

\* The client does not read: http.server swallows the TimeoutError.
WriteTimesOut ==
  /\ thread \in {"rejecting", "replying"} /\ Waiting
  /\ Hangup
  /\ UNCHANGED <<countVars, failure, got>>

-----------------------------------------------------------------------------
(* The clients.                                                            *)

Connect ==
  /\ Listening /\ arrived < MaxConnections
  /\ arrived' = arrived + 1
  /\ UNCHANGED <<owner, leaving, serverVars, stop, countVars, failure,
                 clientVars>>

\* A client closes its side before it has an answer; it sends nothing more.
GoAway(c) ==
  /\ c \in accepted .. arrived /\ c # 0 /\ c \notin gone
  /\ c = accepted => thread \in Handling /\ got[c].answer = NoAnswer
  /\ gone' = gone \cup {c}
  /\ request' = IF c = accepted /\ thread = "headers" THEN Nothing ELSE request
  /\ UNCHANGED <<owner, leaving, thread, ready, stop, stopped, arrived, accepted,
                 countVars, failure, got>>

-----------------------------------------------------------------------------
StubInit ==
  /\ owner = "new" /\ leaving = "no" /\ thread = "none"
  /\ ready = FALSE /\ stop = FALSE /\ stopped = FALSE
  /\ arrived = 0 /\ accepted = 0 /\ request = Nothing
  /\ received = 0 /\ matched = 0 /\ responded = 0 /\ failure = NoFailure
  /\ gone = {}
  /\ got = [c \in Connections |-> [request |-> Nothing, answer |-> NoAnswer]]

OwnerStep ==
  EnterReturns \/ BeginClose \/ ShutdownReturns \/ CloseSocket \/ Joined

ThreadStep ==
  \/ SetReady \/ ServeForever \/ LoopEnds \/ ServeFailed \/ ThreadEnds
  \/ DropSilent \/ Reject \/ Match \/ Refuse \/ Reply \/ CountResponse

StubNext ==
  \/ OwnerStep \/ ThreadStep
  \/ Enter \/ StartupFails \/ StartupTimesOut \/ JoinTimesOut
  \/ \E how \in {"body_done", "body_raised"} : BodyEnds(how)
  \/ LoopRaises \/ Accept \/ HeadersBreak \/ TrickleEnds
  \/ WriteBreaks \/ WriteTimesOut
  \/ \E what \in Requests \cup Ill : ReadHeaders(what)
  \/ Connect \/ \E c \in Connections : GoAway(c)

\* Both threads are scheduled; a read of which nothing comes ends by its timeout,
\* the body as a whole by its deadline.  Of a client nothing is assumed, nor that
\* headers it keeps sending ever end.  A loop that keeps finding connections
\* would still see the flag before the next one.
StubSpec ==
  /\ StubInit /\ [][StubNext]_stubVars
  /\ WF_stubVars(OwnerStep) /\ WF_stubVars(ThreadStep)

-----------------------------------------------------------------------------
(* Properties                                                              *)

Answered(i) == {c \in Connections : got[c].answer = i}

(* Leaving the block without an exception is evidence: the owner's body is
   done, every expected request came in order and its answer was written, and
   nothing else was asked of the server (assert_complete). *)
CompleteIsEvidence ==
  owner = "complete" =>
    /\ leaving = "body_done"
    /\ received = N /\ matched = N /\ responded = N
    /\ failure = NoFailure
    /\ \A c \in Connections : got[c].answer # Refused

(* An exchange answers the one request it expects and is used up by it, also
   when its answer is lost on the way: no two clients ever share an answer and
   none gets the answer of another request. *)
ExchangesInOrder ==
  \A i \in 1 .. N : \A c, d \in Answered(i) :
    c = d /\ got[c].request = Exchanges[i]

(* Only one thing can keep the owner in its with statement once the body is
   left or the start failed: a client that never stops sending header bytes,
   one within every read timeout, since headers have no deadline as a whole.
   Otherwise the block ends, also if clients stall in a body or an answer or go
   away, and if the shutdown request comes before the loop has begun
   (get_request, do_POST, _close). *)
BlockEnds ==
  \/ owner = "leaving" ~> owner \in {"complete", "raised"}
  \/ <>[](thread = "headers" /\ request = Trickling)

(* What a test reads within the block: once all answers have reached their
   clients, every counter shows them ("self.assertEqual(self.counts(server),
   (1, 1, 1))", tests/test_local_e2e.py:211). *)
CountedWhenAnswered ==
  owner = "within" => \A i \in 1 .. N : Answered(i) # {} => responded >= i
=============================================================================
