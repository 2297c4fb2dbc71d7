---------------------------- MODULE MCInboundForm ----------------------------
(* A small instance of InboundForm for TLC.                                *)
EXTENDS InboundForm
=============================================================================
