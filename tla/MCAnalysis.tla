----------------------------- MODULE MCAnalysis -----------------------------
(***************************************************************************)
(* Checking Analysis with TLC: the values are in the .cfg files.  Requests *)
(* are interchangeable, so the safety runs may permute them; the liveness  *)
(* runs may not and do not.                                                *)
(***************************************************************************)
EXTENDS AnalysisLifecycle, DocumentedClaims, TLC

InterchangeableRequests == Permutations(Workers)

=============================================================================
