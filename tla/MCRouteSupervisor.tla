-------------------------- MODULE MCRouteSupervisor --------------------------
(* The supervisor with two runner objects for one route.                   *)
EXTENDS RouteSupervisor
=============================================================================
