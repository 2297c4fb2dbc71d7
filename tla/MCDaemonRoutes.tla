---------------------------- MODULE MCDaemonRoutes ----------------------------
(* Small instances of DaemonRoutes for TLC.                                *)
EXTENDS DaemonRoutes
===============================================================================
