------------------------------ MODULE MCClient ------------------------------
(***************************************************************************)
(* Client with a server that may answer in every way send_once tells apart *)
(***************************************************************************)
EXTENDS Client

MCAnswers == [status : {200}, body : Bodies]
               \cup [status : {307, 404, 503}, body : {"completion"}]
=============================================================================
