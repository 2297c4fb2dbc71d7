---------------------------- MODULE MCPanelSocket ----------------------------
(* Small instances of PanelSocket for TLC.                                 *)
EXTENDS PanelSocket
=============================================================================
