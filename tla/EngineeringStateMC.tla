------------------------- MODULE EngineeringStateMC -------------------------
(***************************************************************************)
(* EngineeringState on a small instance: one required check that is        *)
(* configured and one that is not, one criterion, one question.            *)
(***************************************************************************)
EXTENDS EngineeringState

KindsUsed == {"tests", "types"}
KindsUnconfigured == {"types"}
StatusesUsed == {"passed", "failed", "waived"}
=============================================================================
