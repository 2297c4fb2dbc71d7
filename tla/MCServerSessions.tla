-------------------------- MODULE MCServerSessions --------------------------
(***************************************************************************)
(* Model-checking instance of ServerSessions.  Three connections are the   *)
(* smallest number with which a stream is replaced while a third handler   *)
(* leaves; as many session objects as connections always suffice.          *)
(***************************************************************************)
EXTENDS ServerSessions
=============================================================================
