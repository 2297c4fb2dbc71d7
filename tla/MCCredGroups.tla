---------------------------- MODULE MCCredGroups ----------------------------
(***************************************************************************)
(* The model-checking instance of CredGroups.  The thresholds are small:   *)
(* one failed fetch is below, two are at it; one reported error is at it.  *)
(***************************************************************************)
EXTENDS CredGroups, TLC

\* Distinct links: newLinkHealthTracker numbers them 0, 1, ...
NoDuplicates == [l \in 0 .. NumPrimary - 1 |-> l]
=============================================================================
