---------------------------- MODULE MCStubServer ----------------------------
(***************************************************************************)
(* StubServer with two expected requests and three connections, of which   *)
(* the last can be the one nobody expected.                                *)
(***************************************************************************)
EXTENDS StubServer

CONSTANTS r1, r2

MCRequests == {r1, r2}
MCExchanges == <<r1, r2>>
=============================================================================
